-------------------------- MODULE PingFanoutProofs ---------------------------
(***************************************************************************)
(* Every target is answered for as often as it was asked, whatever the     *)
(* number of targets, how often each of them is in the list, and the order *)
(* in which the goroutines answer.                                         *)
(***************************************************************************)
EXTENDS PingFanout, FiniteSetTheorems, TLAPS

KnownTargets == Range(PublicTargets["tcp"]) \cup Range(PublicTargets["ping"])
AnswersOf == [target : KnownTargets, ok : BOOLEAN]

(* Where target t stands in a list of answers. *)
Places(q, t) == {i \in DOMAIN q : q[i].target = t}
InFlight(t) == {i \in flight : targets[i] = t}
AskedAt(t) == {i \in DOMAIN targets : targets[i] = t}

FanType ==
    /\ kept \in Seq(KnownTargets) /\ targets \in Seq(KnownTargets)
    /\ flight \subseteq DOMAIN targets
    /\ resultChan \in Seq(AnswersOf) /\ answers \in Seq(AnswersOf)

(* Each question is with a goroutine, in the channel, or answered, of all
   targets together and of each of them. *)
FanCount ==
    /\ Cardinality(flight) + Len(resultChan) + Len(answers) = Len(targets)
    /\ \A t : Cardinality(InFlight(t)) + Cardinality(Places(resultChan, t)) + Cardinality(Places(answers, t))
                  = Cardinality(AskedAt(t))

FanInv == FanType /\ FanCount

-----------------------------------------------------------------------------
LEMMA PlacesFinite ==
    ASSUME NEW q \in Seq(AnswersOf), NEW t
    PROVE  IsFiniteSet(Places(q, t)) /\ Cardinality(Places(q, t)) \in Nat
<1>1. DOMAIN q = 1..Len(q) /\ Len(q) \in Nat
  OBVIOUS
<1>2. IsFiniteSet(DOMAIN q)
  BY <1>1, FS_Interval
<1>3. Places(q, t) \in SUBSET (DOMAIN q)
  BY DEF Places
<1> QED
  BY <1>2, <1>3, FS_Subset, FS_CardinalityType

LEMMA PlacesOfAppend ==
    ASSUME NEW q \in Seq(AnswersOf), NEW e \in AnswersOf, NEW t
    PROVE  Cardinality(Places(Append(q, e), t)) = Cardinality(Places(q, t)) + (IF e.target = t THEN 1 ELSE 0)
<1>1. /\ DOMAIN Append(q, e) = 1..(Len(q) + 1) /\ Len(q) \in Nat /\ DOMAIN q = 1..Len(q)
      /\ \A i \in 1..Len(q) : Append(q, e)[i] = q[i]
      /\ Append(q, e)[Len(q) + 1] = e
  OBVIOUS
<1>2. IsFiniteSet(Places(q, t)) /\ Cardinality(Places(q, t)) \in Nat
  BY PlacesFinite
<1>3. Len(q) + 1 \notin Places(q, t)
  BY <1>1 DEF Places
<1>4. CASE e.target = t
  <2>1. Places(Append(q, e), t) = Places(q, t) \cup {Len(q) + 1}
    BY <1>1, <1>4 DEF Places
  <2> QED
    BY <1>2, <1>3, <1>4, <2>1, FS_AddElement
<1>5. CASE e.target # t
  <2>1. Places(Append(q, e), t) = Places(q, t)
    BY <1>1, <1>5 DEF Places
  <2> QED
    BY <1>2, <1>5, <2>1
<1> QED
  BY <1>4, <1>5

(* The places move down by one. *)
LEMMA PlacesOfTail ==
    ASSUME NEW q \in Seq(AnswersOf), q # <<>>, NEW t
    PROVE  Cardinality(Places(q, t)) = Cardinality(Places(Tail(q), t)) + (IF Head(q).target = t THEN 1 ELSE 0)
<1> DEFINE T == Places(Tail(q), t)
           Up == {i + 1 : i \in T}
           up == [i \in T |-> i + 1]
<1>1. /\ Len(q) \in Nat /\ Len(q) > 0 /\ DOMAIN q = 1..Len(q)
      /\ Tail(q) \in Seq(AnswersOf) /\ DOMAIN Tail(q) = 1..(Len(q) - 1)
      /\ \A i \in 1..(Len(q) - 1) : Tail(q)[i] = q[i + 1]
      /\ Head(q) = q[1]
  OBVIOUS
<1>2. IsFiniteSet(T) /\ Cardinality(T) \in Nat
  BY <1>1, PlacesFinite
<1>3. T \subseteq Nat
  BY <1>1 DEF Places
<1>4. up \in Bijection(T, Up)
  <2>1. up \in [T -> Up]
    OBVIOUS
  <2>2. \A i, j \in T : up[i] = up[j] => i = j
    BY <1>3
  <2>3. \A j \in Up : \E i \in T : up[i] = j
    OBVIOUS
  <2> HIDE DEF T, Up, up
  <2> QED
    BY <2>1, <2>2, <2>3 DEF Bijection, Injection, Surjection, IsInjective
<1>5. IsFiniteSet(Up) /\ Cardinality(Up) = Cardinality(T)
  BY <1>2, <1>4, FS_Bijection DEF ExistsBijection
<1>6. 1 \notin Up
  BY <1>1 DEF Places
<1>7. \A i \in DOMAIN q : i # 1 => (q[i].target = t <=> i \in Up)
  <2> SUFFICES ASSUME NEW i \in DOMAIN q, i # 1 PROVE q[i].target = t <=> i \in Up
    OBVIOUS
  <2>1. i - 1 \in DOMAIN Tail(q) /\ Tail(q)[i - 1] = q[i] /\ (i - 1) + 1 = i
    BY <1>1
  <2>2. q[i].target = t <=> i - 1 \in T
    BY <2>1 DEF Places
  <2>3. \A j \in T : j + 1 = i => j = i - 1
    BY <1>3, <1>1
  <2> QED
    BY <2>1, <2>2, <2>3
<1>8. \A i \in Up : i \in DOMAIN q
  BY <1>1 DEF Places
<1>9. CASE Head(q).target = t
  <2>1. Places(q, t) = Up \cup {1}
    BY <1>1, <1>7, <1>8, <1>9 DEF Places
  <2> QED
    BY <1>2, <1>5, <1>6, <1>9, <2>1, FS_AddElement
<1>10. CASE Head(q).target # t
  <2>1. Places(q, t) = Up
    BY <1>1, <1>6, <1>7, <1>8, <1>10 DEF Places
  <2> QED
    BY <1>2, <1>5, <1>10, <2>1
<1> QED
  BY <1>9, <1>10

-----------------------------------------------------------------------------
LEMMA FanInit == FanoutInit => FanInv
<1> SUFFICES ASSUME FanoutInit PROVE FanInv
  OBVIOUS
<1>1. FanType
  BY DEF FanoutInit, FanType
<1>2. \A t : InFlight(t) = {} /\ AskedAt(t) = {} /\ Places(resultChan, t) = {} /\ Places(answers, t) = {}
  BY DEF FanoutInit, InFlight, AskedAt, Places
<1>3. Cardinality(flight) = 0 /\ Len(resultChan) = 0 /\ Len(answers) = 0 /\ Len(targets) = 0
  BY FS_EmptySet DEF FanoutInit
<1> QED
  BY <1>1, <1>2, <1>3, FS_EmptySet DEF FanInv, FanCount

(* make(chan PingResult, len(targets)), and one goroutine for each of them. *)
LEMMA FanStart ==
    ASSUME FanInv, NEW c \in PingCheckers, NEW flags, StartFanout(c, flags)
    PROVE  FanInv'
<1>1. PublicTargets["tcp"] \in Seq(KnownTargets) /\ PublicTargets["ping"] \in Seq(KnownTargets)
  <2>1. PublicTargets["tcp"] \in Seq(Range(PublicTargets["tcp"])) /\ PublicTargets["ping"] \in Seq(Range(PublicTargets["ping"]))
    BY PublicTargetsAssumption DEF PingCheckers
  <2> QED
    BY <2>1 DEF KnownTargets
<1>2. KeptTargets(flags) \in Seq(KnownTargets)
  BY <1>1 DEF KeptTargets, FanInv, FanType
<1>3. TargetsOf(c, flags) \in Seq(KnownTargets)
  BY <1>1, <1>2 DEF TargetsOf
<1>4. /\ targets' \in Seq(KnownTargets) /\ kept' \in Seq(KnownTargets)
      /\ flight' = DOMAIN targets' /\ resultChan' = <<>> /\ answers' = <<>>
  BY <1>2, <1>3 DEF StartFanout, FanInv, FanType
<1>5. FanType'
  BY <1>4 DEF FanType
<1>6. Cardinality(flight') = Len(targets') /\ Len(targets') \in Nat
  <2>1. DOMAIN targets' = 1..Len(targets') /\ Len(targets') \in Nat
    BY <1>4
  <2> DEFINE n == Len(targets')
  <2>2. n \in Nat /\ flight' = 1..n
    BY <1>4, <2>1
  <2> HIDE DEF n
  <2>3. Cardinality(1..n) = n
    <3>1. Cardinality(1..n) = IF 1 > n THEN 0 ELSE n - 1 + 1
      BY <2>2, FS_Interval
    <3> QED
      BY <2>2, <3>1
  <2> QED
    BY <2>2, <2>3 DEF n
<1>7. \A t : /\ InFlight(t)' = AskedAt(t)' /\ IsFiniteSet(AskedAt(t)')
             /\ Places(resultChan', t) = {} /\ Places(answers', t) = {}
  <2> SUFFICES ASSUME NEW t
               PROVE  /\ InFlight(t)' = AskedAt(t)' /\ IsFiniteSet(AskedAt(t)')
                      /\ Places(resultChan', t) = {} /\ Places(answers', t) = {}
    OBVIOUS
  <2>1. DOMAIN targets' = 1..Len(targets')
    BY <1>4
  <2>2. IsFiniteSet(DOMAIN targets')
    BY <1>6, <2>1, FS_Interval
  <2>3. AskedAt(t)' \in SUBSET DOMAIN targets'
    BY DEF AskedAt
  <2>4. IsFiniteSet(AskedAt(t)')
    BY <2>2, <2>3, FS_Subset
  <2> QED
    BY <1>4, <2>4 DEF InFlight, AskedAt, Places
<1>8. FanCount'
  <2>1. Cardinality(flight') + Len(resultChan') + Len(answers') = Len(targets')
    BY <1>4, <1>6
  <2>2. ASSUME NEW t
        PROVE  Cardinality(InFlight(t)') + Cardinality(Places(resultChan', t)) + Cardinality(Places(answers', t))
                   = Cardinality(AskedAt(t)')
    <3>1. Cardinality(AskedAt(t)') \in Nat /\ InFlight(t)' = AskedAt(t)'
      BY <1>7, FS_CardinalityType
    <3>2. Cardinality(Places(resultChan', t)) = 0 /\ Cardinality(Places(answers', t)) = 0
      BY <1>7, FS_EmptySet
    <3> QED
      BY <3>1, <3>2
  <2> QED
    BY <2>1, <2>2 DEF FanCount
<1> QED
  BY <1>5, <1>8 DEF FanInv

LEMMA FanFinite ==
    ASSUME FanInv, NEW t
    PROVE  /\ IsFiniteSet(flight) /\ Cardinality(flight) \in Nat
           /\ IsFiniteSet(InFlight(t)) /\ Cardinality(InFlight(t)) \in Nat
<1>1. DOMAIN targets = 1..Len(targets) /\ Len(targets) \in Nat
  BY DEF FanInv, FanType
<1>2. IsFiniteSet(DOMAIN targets)
  BY <1>1, FS_Interval
<1>3. IsFiniteSet(flight)
  BY <1>2, FS_Subset DEF FanInv, FanType
<1>4. InFlight(t) \in SUBSET flight
  BY DEF InFlight
<1> QED
  BY <1>3, <1>4, FS_Subset, FS_CardinalityType

(* resultChan <- *)
LEMMA FanAnswer ==
    ASSUME FanInv, NEW i, Answer(i)
    PROVE  FanInv'
<1>1. PICK ok \in BOOLEAN : resultChan' = Append(resultChan, [target |-> targets[i], ok |-> ok])
  BY DEF Answer
<1> DEFINE e == [target |-> targets[i], ok |-> ok]
<1>2. i \in flight /\ flight' = flight \ {i} /\ UNCHANGED <<kept, targets, answers>>
  BY DEF Answer
<1>3. e \in AnswersOf /\ e.target = targets[i]
  BY <1>2 DEF FanInv, FanType, AnswersOf
<1> HIDE DEF e
<1>4. resultChan' = Append(resultChan, e) /\ resultChan \in Seq(AnswersOf)
  BY <1>1 DEF e, FanInv, FanType
<1>5. FanType'
  BY <1>2, <1>3, <1>4 DEF FanInv, FanType
<1>6. Cardinality(flight') = Cardinality(flight) - 1 /\ Cardinality(flight) \in Nat
  BY <1>2, FanFinite, FS_RemoveElement
<1>7. Len(resultChan') = Len(resultChan) + 1 /\ Len(resultChan) \in Nat
  BY <1>3, <1>4
<1>8. Len(answers) \in Nat
  BY DEF FanInv, FanType
<1>9. Cardinality(flight') + Len(resultChan') + Len(answers') = Len(targets')
  BY <1>2, <1>6, <1>7, <1>8 DEF FanInv, FanCount
<1>10. ASSUME NEW t
       PROVE  Cardinality(InFlight(t)') + Cardinality(Places(resultChan', t)) + Cardinality(Places(answers', t))
                  = Cardinality(AskedAt(t)')
  <2>1. InFlight(t)' = InFlight(t) \ {i} /\ (i \in InFlight(t) <=> targets[i] = t)
    BY <1>2 DEF InFlight
  <2>2. Cardinality(InFlight(t)') = Cardinality(InFlight(t)) - (IF targets[i] = t THEN 1 ELSE 0)
    <3>1. IsFiniteSet(InFlight(t)) /\ Cardinality(InFlight(t)) \in Nat
      BY FanFinite
    <3>2. Cardinality(InFlight(t) \ {i}) = IF i \in InFlight(t) THEN Cardinality(InFlight(t)) - 1 ELSE Cardinality(InFlight(t))
      BY <3>1, FS_RemoveElement
    <3> QED
      BY <2>1, <3>1, <3>2
  <2>3. Cardinality(Places(resultChan', t)) = Cardinality(Places(resultChan, t)) + (IF targets[i] = t THEN 1 ELSE 0)
    BY <1>3, <1>4, PlacesOfAppend
  <2>4. Cardinality(InFlight(t)) \in Nat /\ Cardinality(Places(resultChan, t)) \in Nat /\ Cardinality(Places(answers, t)) \in Nat
    BY FanFinite, PlacesFinite DEF FanInv, FanType
  <2>5. AskedAt(t)' = AskedAt(t) /\ Places(answers', t) = Places(answers, t)
    BY <1>2 DEF AskedAt
  <2>6. Cardinality(InFlight(t)) + Cardinality(Places(resultChan, t)) + Cardinality(Places(answers, t)) = Cardinality(AskedAt(t))
    BY DEF FanInv, FanCount
  <2> QED
    BY <2>2, <2>3, <2>4, <2>5, <2>6
<1> QED
  BY <1>5, <1>9, <1>10 DEF FanInv, FanCount

(* <-resultChan *)
LEMMA FanReceive ==
    ASSUME FanInv, ReceiveAnswer
    PROVE  FanInv'
<1> DEFINE h == Head(resultChan)
<1>1. /\ resultChan # <<>> /\ resultChan' = Tail(resultChan) /\ answers' = Append(answers, h)
      /\ UNCHANGED <<kept, targets, flight>>
  BY DEF ReceiveAnswer
<1>2. resultChan \in Seq(AnswersOf) /\ answers \in Seq(AnswersOf)
  BY DEF FanInv, FanType
<1>3. h \in AnswersOf /\ resultChan' \in Seq(AnswersOf)
  BY <1>1, <1>2
<1>4. Len(resultChan') = Len(resultChan) - 1 /\ Len(resultChan) \in Nat
  BY <1>1, <1>2
<1> HIDE DEF h
<1>5. FanType'
  BY <1>1, <1>2, <1>3 DEF FanInv, FanType
<1>6. Len(answers') = Len(answers) + 1 /\ Len(answers) \in Nat
  BY <1>1, <1>2, <1>3
<1>7. Cardinality(flight) \in Nat
  BY FanFinite
<1>8. Cardinality(flight') + Len(resultChan') + Len(answers') = Len(targets')
  BY <1>1, <1>4, <1>6, <1>7 DEF FanInv, FanCount
<1>9. ASSUME NEW t
      PROVE  Cardinality(InFlight(t)') + Cardinality(Places(resultChan', t)) + Cardinality(Places(answers', t))
                 = Cardinality(AskedAt(t)')
  <2>1. Cardinality(Places(resultChan, t)) = Cardinality(Places(resultChan', t)) + (IF h.target = t THEN 1 ELSE 0)
    BY <1>1, <1>2, PlacesOfTail DEF h
  <2>2. Cardinality(Places(answers', t)) = Cardinality(Places(answers, t)) + (IF h.target = t THEN 1 ELSE 0)
    BY <1>1, <1>2, <1>3, PlacesOfAppend
  <2>3. Cardinality(InFlight(t)) \in Nat /\ Cardinality(Places(resultChan', t)) \in Nat /\ Cardinality(Places(answers, t)) \in Nat
    BY <1>2, <1>3, FanFinite, PlacesFinite
  <2>4. AskedAt(t)' = AskedAt(t) /\ InFlight(t)' = InFlight(t)
    BY <1>1 DEF AskedAt, InFlight
  <2>5. Cardinality(InFlight(t)) + Cardinality(Places(resultChan, t)) + Cardinality(Places(answers, t)) = Cardinality(AskedAt(t))
    BY DEF FanInv, FanCount
  <2> QED
    BY <2>1, <2>2, <2>3, <2>4, <2>5
<1> QED
  BY <1>5, <1>8, <1>9 DEF FanInv, FanCount

LEMMA FanStutter ==
    ASSUME FanInv, UNCHANGED pingVars
    PROVE  FanInv'
BY DEF FanInv, FanType, FanCount, pingVars, InFlight, AskedAt, Places

(* When the loop has counted to len(targets), nothing is under way any more. *)
LEMMA FanDone ==
    ASSUME FanInv, Collected
    PROVE  /\ flight = {} /\ resultChan = <<>>
           /\ \A t : Answered(t) = Asked(t)
<1>1. Len(resultChan) \in Nat /\ Len(answers) \in Nat /\ (Len(resultChan) = 0 => resultChan = <<>>)
  BY DEF FanInv, FanType
<1>2. Cardinality(flight) = 0 /\ Len(resultChan) = 0
  BY <1>1, FanFinite DEF FanInv, FanCount, Collected
<1>3. flight = {} /\ resultChan = <<>>
  BY <1>1, <1>2, FanFinite, FS_EmptySet
<1>4. ASSUME NEW t PROVE Answered(t) = Asked(t)
  <2>1. InFlight(t) = {} /\ Places(resultChan, t) = {}
    BY <1>3 DEF InFlight, Places
  <2>2. Cardinality(Places(answers, t)) \in Nat
    BY PlacesFinite DEF FanInv, FanType
  <2>3. Cardinality(Places(answers, t)) = Cardinality(AskedAt(t))
    <3>1. Cardinality(InFlight(t)) = 0 /\ Cardinality(Places(resultChan, t)) = 0
      BY <2>1, FS_EmptySet
    <3>2. Cardinality(InFlight(t)) + Cardinality(Places(resultChan, t)) + Cardinality(Places(answers, t))
              = Cardinality(AskedAt(t))
      BY DEF FanInv, FanCount
    <3> QED
      BY <2>2, <3>1, <3>2
  <2> QED
    BY <2>3 DEF Answered, Asked, Places, AskedAt
<1> QED
  BY <1>3, <1>4

LEMMA FanTypeOK == ASSUME FanInv PROVE FanoutTypeOK
<1>1. FanType /\ Cardinality(flight) + Len(resultChan) + Len(answers) = Len(targets)
  BY DEF FanInv, FanCount
<1>2. Cardinality(flight) \in Nat
  BY FanFinite DEF FanInv
<1>3. Len(resultChan) \in Nat /\ Len(answers) \in Nat
  BY <1>1 DEF FanType
<1>4. Len(resultChan) <= Len(targets)
  BY <1>1, <1>2, <1>3
<1> QED
  BY <1>1, <1>4 DEF FanoutTypeOK, FanType, KnownTargets, AnswersOf

(* tcpping.go:56, icmp.go:47: the channel has room for the answer of every goroutine that is
   under way, and as long as Check has not received them all there is one to receive or one
   under way: neither a sender nor the receiver waits for ever, for any list of targets. *)
THEOREM FanoutNeverBlocks ==
    ASSUME FanInv
    PROVE  /\ flight # {} => Len(resultChan) < Len(targets)
           /\ ~Collected => flight # {} \/ resultChan # <<>>
<1>1. Len(resultChan) \in Nat /\ Len(answers) \in Nat /\ Len(targets) \in Nat
  BY DEF FanInv, FanType
<1>2. Cardinality(flight) + Len(resultChan) + Len(answers) = Len(targets)
  BY DEF FanInv, FanCount
<1>3. IsFiniteSet(flight) /\ Cardinality(flight) \in Nat
  BY FanFinite DEF FanInv
<1>4. flight # {} => Cardinality(flight) > 0
  BY <1>3, FS_EmptySet
<1>5. flight # {} => Len(resultChan) < Len(targets)
  BY <1>1, <1>2, <1>3, <1>4
<1>6. ASSUME flight = {}, resultChan = <<>> PROVE Collected
  <2>1. Cardinality(flight) = 0
    BY <1>6, FS_EmptySet
  <2>2. Len(resultChan) = 0
    BY <1>6
  <2> QED
    BY <1>1, <1>2, <2>1, <2>2 DEF Collected
<1> QED
  BY <1>5, <1>6
=============================================================================
