------------------------- MODULE BatchExecutorProofs -------------------------
(***************************************************************************)
(* The worker pool is correct for every number of machines, every          *)
(* concurrency and both executors.                                         *)
(***************************************************************************)
EXTENDS BatchExecutor, FiniteSetTheorems, SequenceTheorems, TLAPS

-----------------------------------------------------------------------------
(* Sequences as channels *)

(* What a send adds to a channel: one element, and no duplicate if it is new. *)
LEMMA SendLemma ==
    ASSUME NEW S, NEW s \in Seq(S), NEW x \in S
    PROVE  /\ Append(s, x) \in Seq(S)
           /\ Len(Append(s, x)) = Len(s) + 1
           /\ ToSet(Append(s, x)) = ToSet(s) \cup {x}
           /\ IsInjective(s) /\ x \notin ToSet(s) => IsInjective(Append(s, x))
<1>1. /\ Append(s, x) \in Seq(S)
      /\ Len(Append(s, x)) = Len(s) + 1
      /\ \A i \in 1 .. Len(s) : Append(s, x)[i] = s[i]
      /\ Append(s, x)[Len(s) + 1] = x
  OBVIOUS
<1>2. DOMAIN s = 1 .. Len(s) /\ DOMAIN Append(s, x) = 1 .. Len(s) + 1 /\ Len(s) \in Nat
  BY <1>1
<1>3. ToSet(Append(s, x)) = ToSet(s) \cup {x}
  BY <1>1, <1>2 DEF ToSet
<1>4. IsInjective(s) /\ x \notin ToSet(s) => IsInjective(Append(s, x))
  BY <1>1, <1>2 DEF ToSet, IsInjective
<1> QED
  BY <1>1, <1>3, <1>4

(* What a receive takes from a channel without duplicates: exactly its head. *)
LEMMA ReceiveLemma ==
    ASSUME NEW S, NEW s \in Seq(S), s # <<>>, IsInjective(s)
    PROVE  /\ Head(s) \in S /\ Head(s) \in ToSet(s)
           /\ Tail(s) \in Seq(S)
           /\ Len(Tail(s)) = Len(s) - 1
           /\ ToSet(Tail(s)) = ToSet(s) \ {Head(s)}
           /\ IsInjective(Tail(s))
<1>1. /\ Len(s) \in Nat \ {0} /\ DOMAIN s = 1 .. Len(s)
      /\ Head(s) = s[1] /\ Head(s) \in S
      /\ Tail(s) \in Seq(S) /\ Len(Tail(s)) = Len(s) - 1
      /\ \A i \in 1 .. Len(s) - 1 : Tail(s)[i] = s[i + 1]
  OBVIOUS
<1>2. DOMAIN Tail(s) = 1 .. Len(s) - 1
  BY <1>1
<1>3. IsInjective(Tail(s))
  BY <1>1, <1>2 DEF IsInjective
<1>4. ASSUME NEW y \in ToSet(Tail(s))
      PROVE  y \in ToSet(s) \ {Head(s)}
  BY <1>1, <1>2 DEF ToSet, IsInjective
<1>5. ASSUME NEW y \in ToSet(s) \ {Head(s)}
      PROVE  y \in ToSet(Tail(s))
  <2>1. PICK i \in 1 .. Len(s) : y = s[i]
    BY <1>1 DEF ToSet
  <2>2. i # 1 /\ i - 1 \in 1 .. Len(s) - 1 /\ Tail(s)[i - 1] = y
    BY <2>1, <1>1
  <2> QED
    BY <2>2, <1>2 DEF ToSet
<1>6. Head(s) \in ToSet(s)
  BY <1>1 DEF ToSet
<1> QED
  BY <1>1, <1>3, <1>4, <1>5, <1>6

(* N results without duplicates are the results of all N tasks. *)
LEMMA PigeonholeLemma ==
    ASSUME NEW s \in Seq(Tasks), IsInjective(s), Len(s) = N
    PROVE  ToSet(s) = Tasks
<1>1. s \in [Tasks -> Tasks] /\ DOMAIN s = Tasks
  BY NAssumption DEF Tasks
<1>2. s \in Injection(Tasks, Tasks)
  BY <1>1 DEF Injection, IsInjective
<1>3. IsFiniteSet(Tasks)
  BY NAssumption, FS_Interval DEF Tasks
<1>4. s \in Surjection(Tasks, Tasks)
  BY <1>2, <1>3, FS_Injection
<1> QED
  BY <1>1, <1>4 DEF Surjection, ToSet

(* The capacity of the channels is a natural number. *)
LEMMA ConcurrencyLemma == Concurrency \in Nat
BY WorkersAssumption, FS_CardinalityType DEF Concurrency

-----------------------------------------------------------------------------
(* Types. That a received task is one, and that a worker executes one, needs
   no more than the type of the channel and HoldersHoldTasks. *)

HoldersHoldTasks == \A w \in Workers : wpc[w] \in {"exec", "send"} => held[w] \in Tasks

TypeInv == TypeOK /\ HoldersHoldTasks

LEMMA TypeInit == Init => TypeInv
<1> SUFFICES ASSUME Init PROVE TypeInv
  OBVIOUS
<1> USE NAssumption DEF Init
<1>1. <<>> \in Seq(Tasks) /\ Len(<<>>) = 0 /\ 0 <= Concurrency
  BY ConcurrencyLemma
<1>2. TypeOK
  <2>1. pc \in {"namespace", "spawn"} /\ closed \in BOOLEAN
    BY Zenon
  <2>2. nSenders \in 0 .. N /\ senders \subseteq Tasks
    OBVIOUS
  <2>3. /\ wpc \in [Workers -> {"unborn"}]
        /\ held \in [Workers -> {NoTask}]
        /\ outcome \in [Tasks -> {NoOutcome}]
    OBVIOUS
  <2> QED
    BY <1>1, <2>1, <2>2, <2>3 DEF TypeOK
<1>3. HoldersHoldTasks
  BY DEF HoldersHoldTasks
<1> QED
  BY <1>2, <1>3 DEF TypeInv

(* The head and the tail of a channel have the types of its elements. *)
LEMMA HeadTailType ==
    ASSUME NEW s \in Seq(Tasks), s # <<>>
    PROVE  Head(s) \in Tasks /\ Tail(s) \in Seq(Tasks) /\ Len(Tail(s)) = Len(s) - 1 /\ Len(s) \in Nat
OBVIOUS

LEMMA TypeStep == TypeInv /\ [Next]_vars => TypeInv'
<1> SUFFICES ASSUME TypeInv, [Next]_vars PROVE TypeInv'
  OBVIOUS
<1> USE NAssumption, ConcurrencyLemma DEF TypeInv, TypeOK, HoldersHoldTasks
<1>1. CASE CreateNamespace
  BY <1>1 DEF CreateNamespace, workVars
<1>2. CASE FailNamespace
  BY <1>2 DEF FailNamespace, workVars
<1>3. ASSUME NEW w \in Workers, SpawnWorker(w) PROVE TypeInv'
  BY <1>3 DEF SpawnWorker, mainVars
<1>4. CASE SpawnSender
  BY <1>4 DEF SpawnSender, workVars, Tasks
<1>5. CASE StartCollecting
  BY <1>5 DEF StartCollecting, workVars
<1>6. CASE Collect
  BY <1>6, HeadTailType DEF Collect, workVars
<1>7. CASE CloseAndReturn
  BY <1>7 DEF CloseAndReturn, workVars
<1>8. ASSUME NEW t \in Tasks, Send(t) PROVE TypeInv'
  BY <1>8 DEF Send, mainVars, workVars
<1>9. ASSUME NEW w \in Workers, Receive(w) PROVE TypeInv'
  BY <1>9, HeadTailType DEF Receive, mainVars
<1>10. ASSUME NEW w \in Workers, NEW o \in Outcomes, ExecuteTask(w, o) PROVE TypeInv'
  BY <1>10 DEF ExecuteTask, mainVars
<1>11. ASSUME NEW w \in Workers, PanicInTask(w) PROVE TypeInv'
  BY <1>11 DEF PanicInTask, workVars
<1>12. ASSUME NEW w \in Workers, SendResult(w) PROVE TypeInv'
  BY <1>12 DEF SendResult, mainVars
<1>13. ASSUME NEW w \in Workers, WorkerExit(w) PROVE TypeInv'
  BY <1>13 DEF WorkerExit, mainVars
<1>14. CASE UNCHANGED vars
  BY <1>14 DEF vars, mainVars, workVars
<1> QED
  BY <1>1, <1>2, <1>3, <1>4, <1>5, <1>6, <1>7, <1>8, <1>9, <1>10, <1>11, <1>12, <1>13, <1>14
     DEF Next, Main, Worker, Finished

(* Every variable keeps its type and no channel exceeds its capacity, for any
   number of machines and workers. *)
THEOREM TypeCorrect == Spec => []TypeOK
<1>1. TypeInv => TypeOK
  BY DEF TypeInv
<1> QED
  BY TypeInit, TypeStep, <1>1, PTL DEF Spec

-----------------------------------------------------------------------------
(* The inductive invariant: where the tasks are (Conservation), which of them
   have an outcome, and how far Execute has come. *)

Executed == ToSet(resultChan) \cup ToSet(results) \cup {held[w] : w \in {v \in Workers : wpc[v] = "send"}}

OutcomeInv == \A t \in Tasks : outcome[t] \in Outcomes <=> t \in Executed

MainInv ==
    /\ pc \in {"namespace", "failed"} => nSenders = 0
    /\ pc \in {"collect", "returned"} => nSenders = N
    /\ pc = "returned" => closed
    /\ closed => Len(results) = N

IInv == TypeInv /\ Conservation /\ OutcomeInv /\ MainInv

LEMMA PoolInit == Init => IInv
<1> SUFFICES ASSUME Init PROVE IInv
  OBVIOUS
<1>1. Holders = {} /\ Held = {}
  BY DEF Init, Holders, Held
<1>2. ToSet(<<>>) = {} /\ IsInjective(<<>>)
  BY DEF ToSet, IsInjective
<1>3. Conservation
  <2>1. Started = {}
    BY DEF Init, Started
  <2>2. Located = {}
    BY <1>1, <1>2 DEF Init, Located
  <2>3. NoDuplicate
    BY <1>1, <1>2 DEF Init, NoDuplicate
  <2> QED
    BY <2>1, <2>2, <2>3 DEF Conservation
<1>4. OutcomeInv
  BY <1>2, OutcomesAssumption DEF Init, OutcomeInv, Executed
<1>5. MainInv
  <2>1. pc # "returned" /\ pc # "collect" /\ nSenders = 0 /\ ~closed
    BY Zenon DEF Init
  <2> QED
    BY <2>1 DEF MainInv
<1> QED
  BY TypeInit, <1>3, <1>4, <1>5 DEF IInv

(* A step of Execute that touches neither channels nor workers. *)
LEMMA QuietStep ==
    ASSUME IInv, UNCHANGED <<nSenders, results, senders, taskChan, workVars, resultChan>>
    PROVE  Conservation' /\ OutcomeInv'
<1>1. /\ Started' = Started /\ Holders' = Holders /\ Held' = Held /\ Executed' = Executed
      /\ Located' = Located
  BY DEF workVars, Started, Holders, Held, Executed, Located, ToSet
<1>2. NoDuplicate'
  BY <1>1 DEF IInv, Conservation, NoDuplicate, workVars
<1> QED
  BY <1>1, <1>2 DEF IInv, Conservation, OutcomeInv, workVars

LEMMA SpawnSenderStep == ASSUME IInv, SpawnSender PROVE Conservation' /\ OutcomeInv'
<1>1. /\ Holders' = Holders /\ Held' = Held /\ Executed' = Executed
      /\ UNCHANGED <<held, taskChan, results, resultChan, outcome>>
  BY DEF SpawnSender, workVars, Holders, Held, Executed
<1>2. Started' = Started \cup {nSenders'} /\ nSenders' \notin Started /\ senders' = senders \cup {nSenders'}
  BY NAssumption DEF SpawnSender, Started, IInv, TypeInv, TypeOK
<1>3. Located' = Started'
  BY <1>1, <1>2 DEF IInv, Conservation, Located
<1>4. nSenders' \notin Located
  BY <1>2 DEF IInv, Conservation
<1>5. NoDuplicate'
  BY <1>1, <1>2, <1>4 DEF IInv, Conservation, Located, NoDuplicate
<1> QED
  BY <1>1, <1>3, <1>5 DEF IInv, Conservation, OutcomeInv

LEMMA CollectStep == ASSUME IInv, Collect PROVE Conservation' /\ OutcomeInv'
<1> DEFINE t == Head(resultChan)
<1>1. /\ Started' = Started /\ Holders' = Holders /\ Held' = Held
      /\ UNCHANGED <<held, senders, taskChan, outcome, wpc>>
  BY DEF Collect, workVars, Started, Holders, Held
<1>2. /\ t \in ToSet(resultChan) /\ t \notin ToSet(results) /\ t \in Tasks
      /\ ToSet(resultChan)' = ToSet(resultChan) \ {t} /\ IsInjective(resultChan')
  BY ReceiveLemma DEF Collect, IInv, TypeInv, TypeOK, Conservation, NoDuplicate
<1>3. ToSet(results)' = ToSet(results) \cup {t} /\ IsInjective(results')
  BY <1>2, SendLemma DEF Collect, IInv, TypeInv, TypeOK, Conservation, NoDuplicate
<1>4. Located' = Located /\ Executed' = Executed
  BY <1>1, <1>2, <1>3 DEF Located, Executed
<1>5. NoDuplicate'
  BY <1>1, <1>2, <1>3 DEF IInv, Conservation, NoDuplicate
<1> QED
  BY <1>1, <1>4, <1>5 DEF IInv, Conservation, OutcomeInv

LEMMA SendStep == ASSUME IInv, NEW t \in Tasks, Send(t) PROVE Conservation' /\ OutcomeInv'
<1>1. /\ Started' = Started /\ Holders' = Holders /\ Held' = Held /\ Executed' = Executed
      /\ UNCHANGED <<held, resultChan, results, outcome>>
  BY DEF Send, mainVars, workVars, Started, Holders, Held, Executed
<1>2. t \in senders /\ senders' = senders \ {t} /\ t \notin ToSet(taskChan)
  BY DEF Send, IInv, Conservation, NoDuplicate
<1>3. ToSet(taskChan)' = ToSet(taskChan) \cup {t} /\ IsInjective(taskChan')
  BY <1>2, SendLemma DEF Send, IInv, TypeInv, TypeOK, Conservation, NoDuplicate
<1>4. Located' = Located
  BY <1>1, <1>2, <1>3 DEF Located
<1>5. NoDuplicate'
  BY <1>1, <1>2, <1>3 DEF IInv, Conservation, NoDuplicate
<1> QED
  BY <1>1, <1>4, <1>5 DEF IInv, Conservation, OutcomeInv

LEMMA ReceiveStep == ASSUME IInv, NEW w \in Workers, Receive(w) PROVE Conservation' /\ OutcomeInv'
<1> DEFINE t == Head(taskChan)
<1>1. /\ Started' = Started
      /\ UNCHANGED <<senders, resultChan, results, outcome>>
  BY DEF Receive, mainVars, Started
<1>2. /\ t \in ToSet(taskChan) /\ t \in Tasks
      /\ ToSet(taskChan)' = ToSet(taskChan) \ {t} /\ IsInjective(taskChan')
  BY ReceiveLemma DEF Receive, IInv, TypeInv, TypeOK, Conservation, NoDuplicate
<1>3. /\ w \notin Holders /\ Holders' = Holders \cup {w}
      /\ held'[w] = t /\ \A v \in Holders : held'[v] = held[v]
  BY DEF Receive, Holders, IInv, TypeInv, TypeOK
<1>4. Held' = Held \cup {t}
  BY <1>3 DEF Held
<1>5. Executed' = Executed
  BY <1>1 DEF Receive, Executed, IInv, TypeInv, TypeOK
<1>6. Located' = Located
  BY <1>1, <1>2, <1>4 DEF Located
<1>7. NoDuplicate'
  <2>1. t \notin Held
    BY <1>2 DEF IInv, Conservation, NoDuplicate
  <2>2. \A u, v \in Holders' : held'[u] = held'[v] => u = v
    BY <2>1, <1>3 DEF IInv, Conservation, NoDuplicate, Held
  <2> QED
    BY <1>1, <1>2, <1>4, <2>2 DEF IInv, Conservation, NoDuplicate
<1> QED
  BY <1>1, <1>5, <1>6, <1>7 DEF IInv, Conservation, OutcomeInv

LEMMA ExecuteStep ==
    ASSUME IInv, NEW w \in Workers, NEW o \in Outcomes, ExecuteTask(w, o)
    PROVE  Conservation' /\ OutcomeInv'
<1>1. /\ Started' = Started
      /\ UNCHANGED <<senders, taskChan, held, resultChan, results>>
  BY DEF ExecuteTask, mainVars, Started
<1>2. Holders' = Holders /\ w \in Holders /\ Held' = Held
  BY DEF ExecuteTask, Holders, Held, IInv, TypeInv, TypeOK
<1>3. Located' = Located /\ NoDuplicate'
  BY <1>1, <1>2 DEF Located, IInv, Conservation, NoDuplicate
<1>4. Executed' = Executed \cup {held[w]}
  BY <1>1 DEF ExecuteTask, Executed, IInv, TypeInv, TypeOK
<1>5. /\ held[w] \in Tasks
      /\ outcome'[held[w]] = o
      /\ \A t \in Tasks \ {held[w]} : outcome'[t] = outcome[t]
  BY DEF ExecuteTask, IInv, TypeInv, TypeOK, HoldersHoldTasks
<1> QED
  BY <1>1, <1>3, <1>4, <1>5 DEF IInv, Conservation, OutcomeInv

LEMMA SendResultStep == ASSUME IInv, NEW w \in Workers, SendResult(w) PROVE Conservation' /\ OutcomeInv'
<1> DEFINE t == held[w]
<1>1. /\ Started' = Started
      /\ UNCHANGED <<senders, taskChan, results, outcome>>
  BY DEF SendResult, mainVars, Started
<1>2. w \in Holders /\ t \in Held /\ t \in Tasks /\ t \notin ToSet(resultChan)
  BY DEF SendResult, Holders, Held, IInv, TypeInv, HoldersHoldTasks, Conservation, NoDuplicate
<1>3. ToSet(resultChan)' = ToSet(resultChan) \cup {t} /\ IsInjective(resultChan')
  BY <1>2, SendLemma DEF SendResult, IInv, TypeInv, TypeOK, Conservation, NoDuplicate
<1>4. Holders' = Holders \ {w} /\ \A v \in Holders' : held'[v] = held[v]
  BY DEF SendResult, Holders, IInv, TypeInv, TypeOK
<1>5. Held' = Held \ {t}
  BY <1>2, <1>4 DEF Held, IInv, Conservation, NoDuplicate
<1>6. Located' = Located
  BY <1>1, <1>2, <1>3, <1>5 DEF Located
<1>7. NoDuplicate'
  BY <1>1, <1>2, <1>3, <1>4, <1>5 DEF IInv, Conservation, NoDuplicate
<1>8. Executed' = Executed
  BY <1>1, <1>3 DEF SendResult, Executed, IInv, TypeInv, TypeOK
<1> QED
  BY <1>1, <1>6, <1>7, <1>8 DEF IInv, Conservation, OutcomeInv

(* A worker that starts or exits holds nothing. *)
LEMMA IdleWorkerStep ==
    ASSUME IInv, NEW w \in Workers, SpawnWorker(w) \/ WorkerExit(w)
    PROVE  Conservation' /\ OutcomeInv'
<1>1. /\ Started' = Started
      /\ UNCHANGED <<senders, taskChan, held, outcome, resultChan, results>>
  BY DEF SpawnWorker, WorkerExit, mainVars, Started
<1>2. Holders' = Holders
  BY DEF SpawnWorker, WorkerExit, Holders, IInv, TypeInv, TypeOK
<1>3. Held' = Held
  BY <1>1, <1>2 DEF Held
<1>4. Executed' = Executed
  BY <1>1 DEF SpawnWorker, WorkerExit, Executed, IInv, TypeInv, TypeOK
<1>5. Located' = Located /\ NoDuplicate'
  BY <1>1, <1>2, <1>3 DEF Located, IInv, Conservation, NoDuplicate
<1> QED
  BY <1>1, <1>4, <1>5 DEF IInv, Conservation, OutcomeInv

LEMMA MainStep == ASSUME IInv, [Next]_vars PROVE MainInv'
<1> USE NAssumption DEF IInv, MainInv, TypeInv, TypeOK
<1>1. CASE CreateNamespace
  BY <1>1 DEF CreateNamespace
<1>2. CASE FailNamespace
  BY <1>2 DEF FailNamespace
<1>3. CASE SpawnSender
  BY <1>3 DEF SpawnSender
<1>4. CASE StartCollecting
  BY <1>4 DEF StartCollecting
<1>5. CASE Collect
  BY <1>5 DEF Collect
<1>6. CASE CloseAndReturn
  BY <1>6 DEF CloseAndReturn
<1>7. ASSUME NEW w \in Workers, PanicInTask(w) PROVE MainInv'
  BY <1>7 DEF PanicInTask
<1>8. CASE UNCHANGED mainVars
  BY <1>8 DEF mainVars
<1> QED
  BY <1>1, <1>2, <1>3, <1>4, <1>5, <1>6, <1>7, <1>8
     DEF Next, Main, Worker, Finished, SpawnWorker, Send, Receive, ExecuteTask, SendResult, WorkerExit, vars

LEMMA PoolStep == IInv /\ [Next]_vars => IInv'
<1> SUFFICES ASSUME IInv, [Next]_vars PROVE IInv'
  OBVIOUS
<1>1. TypeInv' /\ MainInv'
  BY TypeStep, MainStep DEF IInv
<1>2. CASE CreateNamespace \/ FailNamespace \/ StartCollecting \/ CloseAndReturn
  BY <1>1, <1>2, QuietStep DEF CreateNamespace, FailNamespace, StartCollecting, CloseAndReturn, IInv
<1>3. CASE SpawnSender
  BY <1>1, <1>3, SpawnSenderStep DEF IInv
<1>4. CASE Collect
  BY <1>1, <1>4, CollectStep DEF IInv
<1>5. ASSUME NEW t \in Tasks, Send(t) PROVE IInv'
  BY <1>1, <1>5, SendStep DEF IInv
<1>6. ASSUME NEW w \in Workers, SpawnWorker(w) \/ WorkerExit(w) PROVE IInv'
  BY <1>1, <1>6, IdleWorkerStep DEF IInv
<1>7. ASSUME NEW w \in Workers, Receive(w) PROVE IInv'
  BY <1>1, <1>7, ReceiveStep DEF IInv
<1>8. ASSUME NEW w \in Workers, NEW o \in Outcomes, ExecuteTask(w, o) PROVE IInv'
  BY <1>1, <1>8, ExecuteStep DEF IInv
<1>9. ASSUME NEW w \in Workers, PanicInTask(w) PROVE IInv'
  BY <1>1, <1>9, QuietStep DEF PanicInTask, IInv
<1>10. ASSUME NEW w \in Workers, SendResult(w) PROVE IInv'
  BY <1>1, <1>10, SendResultStep DEF IInv
<1>11. CASE UNCHANGED vars
  BY <1>1, <1>11, QuietStep DEF vars, mainVars, IInv
<1> QED
  BY <1>2, <1>3, <1>4, <1>5, <1>6, <1>7, <1>8, <1>9, <1>10, <1>11 DEF Next, Main, Worker, Finished

(* IInv holds throughout. *)
LEMMA PoolInvariant == Spec => []IInv
BY PoolInit, PoolStep, PTL DEF Spec

-----------------------------------------------------------------------------
(* What the invariant says of a pool that has collected all its results. *)

LEMMA AllCollected ==
    ASSUME IInv, Len(results) = N
    PROVE  /\ ToSet(results) = Tasks
           /\ senders = {} /\ Holders = {}
           /\ taskChan = <<>> /\ resultChan = <<>>
<1>1. ToSet(results) = Tasks
  BY PigeonholeLemma DEF IInv, TypeInv, TypeOK, Conservation, NoDuplicate
<1>2. ToSet(taskChan) \subseteq Tasks /\ ToSet(resultChan) \subseteq Tasks
  BY DEF IInv, TypeInv, TypeOK, ToSet
<1>3. senders = {} /\ ToSet(taskChan) = {} /\ ToSet(resultChan) = {}
  BY <1>1, <1>2 DEF IInv, TypeInv, TypeOK, Conservation, NoDuplicate
<1>4. Holders = {}
  BY <1>1 DEF IInv, TypeInv, HoldersHoldTasks, Conservation, NoDuplicate, Holders, Held
<1>5. ASSUME NEW s \in Seq(Tasks), ToSet(s) = {} PROVE s = <<>>
  <2>1. DOMAIN s = 1 .. Len(s) /\ Len(s) \in Nat
    OBVIOUS
  <2>2. 1 \notin DOMAIN s
    BY <1>5 DEF ToSet
  <2> QED
    BY <2>1, <2>2
<1> QED
  BY <1>1, <1>3, <1>4, <1>5 DEF IInv, TypeInv, TypeOK

(* No task is lost and none is in two places, in the pod executor's and in the
   SSH executor's Execute, for any machine list and any concurrency. *)
THEOREM ConservationHolds == Spec => []Conservation
<1>1. IInv => Conservation
  BY DEF IInv
<1> QED
  BY PoolInvariant, <1>1, PTL

(* A result in a channel or in the slice comes from an executed task. *)
THEOREM ResultsAreRealHolds == Spec => []ResultsAreReal
<1>1. IInv => ResultsAreReal
  <2> SUFFICES ASSUME IInv PROVE ResultsAreReal
    OBVIOUS
  <2>1. ASSUME NEW t \in ToSet(resultChan) \cup ToSet(results)
        PROVE  outcome[t] \in Outcomes
    <3>1. t \in Tasks
      BY DEF IInv, TypeInv, TypeOK, ToSet
    <3> QED
      BY <3>1 DEF IInv, OutcomeInv, Executed
  <2>2. ASSUME NEW w \in Holders
        PROVE  wpc[w] = "send" <=> outcome[held[w]] \in Outcomes
    <3>1. w \in Workers /\ held[w] \in Tasks /\ held[w] \in Held
      BY DEF Holders, Held, IInv, TypeInv, HoldersHoldTasks
    <3>2. held[w] \notin ToSet(resultChan) \cup ToSet(results)
      BY <3>1 DEF IInv, Conservation, NoDuplicate
    <3>3. held[w] \in Executed <=> wpc[w] = "send"
      BY <3>1, <3>2 DEF Executed, IInv, Conservation, NoDuplicate, Holders
    <3> QED
      BY <3>1, <3>3 DEF IInv, OutcomeInv
  <2> QED
    BY <2>1, <2>2 DEF ResultsAreReal
<1> QED
  BY PoolInvariant, <1>1, PTL

(* close(taskChan) never meets a sender: the panic of a send on a closed
   channel cannot happen. *)
THEOREM NoSendOnClosedHolds == Spec => []NoSendOnClosed
<1>1. IInv => NoSendOnClosed
  BY AllCollected DEF IInv, MainInv, NoSendOnClosed
<1> QED
  BY PoolInvariant, <1>1, PTL

(* When Execute returns, the slice holds one result for every machine and
   nothing is left in a channel or with a worker. *)
THEOREM CompleteOnReturnHolds == Spec => []CompleteOnReturn
<1>1. IInv => CompleteOnReturn
  <2> SUFFICES ASSUME IInv, pc = "returned"
               PROVE  /\ Len(results) = N
                      /\ ToSet(results) = Tasks
                      /\ \A t \in Tasks : outcome[t] \in Outcomes
                      /\ taskChan = <<>> /\ resultChan = <<>> /\ Holders = {}
    BY DEF CompleteOnReturn
  <2>1. Len(results) = N
    BY DEF IInv, MainInv
  <2>2. ToSet(results) = Tasks
    BY <2>1, AllCollected
  <2>3. \A t \in Tasks : outcome[t] \in Outcomes
    BY <2>2 DEF IInv, OutcomeInv, Executed
  <2> QED
    BY <2>1, <2>2, <2>3, AllCollected
<1> QED
  BY PoolInvariant, <1>1, PTL

(* No task is executed twice. *)
THEOREM ExecutedOnceHolds == Spec => ExecutedOnce
<1> DEFINE Once == \A w \in Workers : (wpc[w] = "exec" /\ wpc'[w] = "send") => outcome[held[w]] = NoOutcome
<1>1. IInv => Once
  <2> SUFFICES ASSUME IInv, NEW w \in Workers, wpc[w] = "exec"
               PROVE  outcome[held[w]] = NoOutcome
    OBVIOUS
  <2>1. w \in Holders /\ held[w] \in Tasks /\ held[w] \in Held
    BY DEF Holders, Held, IInv, TypeInv, HoldersHoldTasks
  <2>2. held[w] \notin Executed
    BY <2>1 DEF Executed, IInv, Conservation, NoDuplicate, Holders
  <2> QED
    BY <2>1, <2>2 DEF IInv, OutcomeInv, TypeInv, TypeOK
<1> QED
  BY PoolInvariant, <1>1, PTL DEF ExecutedOnce

-----------------------------------------------------------------------------
(* Refinement of BatchSpec *)

Report == [t \in ToSet(results) |-> outcome[t]]

LEMMA RefinementInit == Init => Batch!Init
<1> SUFFICES ASSUME Init PROVE Batch!Init
  OBVIOUS
<1>1. ToSet(results) = {}
  BY DEF Init, ToSet
<1>2. Status = "running"
  BY Zenon DEF Init, Status
<1> QED
  BY <1>1, <1>2 DEF Batch!Init

(* A worker has a task in hand only while Execute runs. *)
LEMMA HolderMeansRunning ==
    ASSUME IInv, Alive, NEW w \in Holders
    PROVE  Status = "running"
<1>1. pc # "returned"
  BY AllCollected DEF IInv, MainInv
<1>2. pc # "failed"
  <2> SUFFICES ASSUME pc = "failed" PROVE FALSE
    OBVIOUS
  <2>1. Located = {}
    BY DEF IInv, MainInv, Conservation, Started
  <2> QED
    BY <2>1 DEF Located, Held
<1> QED
  BY <1>1, <1>2 DEF Alive, Status, IInv, TypeInv, TypeOK

LEMMA RefinementStep == IInv /\ [Next]_vars => [Batch!Next]_Batch!vars
<1> SUFFICES ASSUME IInv, [Next]_vars PROVE Batch!Next \/ UNCHANGED Batch!vars
  OBVIOUS
<1>1. ASSUME UNCHANGED <<Status, results, outcome>> PROVE UNCHANGED Batch!vars
  BY <1>1 DEF Batch!vars, ToSet
<1>2. CASE CreateNamespace \/ StartCollecting \/ SpawnSender
  BY <1>1, <1>2 DEF CreateNamespace, StartCollecting, SpawnSender, Status, workVars
<1>3. CASE FailNamespace
  <2>1. ToSet(results) = {}
    BY <1>3 DEF FailNamespace, IInv, MainInv, Conservation, Located, Started
  <2>2. Report = [t \in {} |-> t] /\ Report' = Report
    BY <1>3, <2>1 DEF FailNamespace, Report, workVars, ToSet
  <2>3. Status = "running" /\ Status' = "failed"
    BY <1>3 DEF FailNamespace, Status
  <2> QED
    BY <2>2, <2>3 DEF Report, Batch!Next, Batch!Fail
<1>4. CASE Collect
  <2> DEFINE t == Head(resultChan)
  <2>1. t \in Tasks /\ t \in ToSet(resultChan) /\ t \notin ToSet(results)
    BY <1>4, ReceiveLemma DEF Collect, IInv, TypeInv, TypeOK, Conservation, NoDuplicate
  <2>2. outcome[t] \in Outcomes
    BY <2>1 DEF IInv, OutcomeInv, Executed
  <2>3. ToSet(results)' = ToSet(results) \cup {t} /\ outcome' = outcome
    BY <1>4, <2>1, SendLemma DEF Collect, workVars, IInv, TypeInv, TypeOK
  <2>4. Report' = [u \in DOMAIN Report \cup {t} |-> IF u = t THEN outcome[t] ELSE Report[u]]
    BY <2>3 DEF Report
  <2>5. Status = "running" /\ Status' = Status /\ t \notin DOMAIN Report
    BY <1>4, <2>1 DEF Collect, Status, Report
  <2>6. PICK u \in Tasks, o \in Outcomes : u = t /\ o = outcome[t]
    BY <2>1, <2>2
  <2>7. Batch!Complete(u, o)
    BY <2>4, <2>5, <2>6 DEF Report, Batch!Complete
  <2> QED
    BY <2>7 DEF Batch!Next
<1>5. CASE CloseAndReturn
  <2>1. DOMAIN Report = Tasks
    BY <1>5, AllCollected DEF CloseAndReturn, Report
  <2>2. Report' = Report
    BY <1>5 DEF CloseAndReturn, Report, workVars, ToSet
  <2>3. Status = "running" /\ Status' = "returned"
    BY <1>5 DEF CloseAndReturn, Status
  <2> QED
    BY <2>1, <2>2, <2>3 DEF Report, Batch!Next, Batch!Return
<1>6. ASSUME NEW t \in Tasks, Send(t) PROVE UNCHANGED Batch!vars
  BY <1>1, <1>6 DEF Send, mainVars, workVars, Status
<1>7. ASSUME NEW w \in Workers, SpawnWorker(w) \/ Receive(w) \/ SendResult(w) \/ WorkerExit(w)
      PROVE  UNCHANGED Batch!vars
  BY <1>1, <1>7 DEF SpawnWorker, Receive, SendResult, WorkerExit, mainVars, Status
<1>8. ASSUME NEW w \in Workers, NEW o \in Outcomes, ExecuteTask(w, o)
      PROVE  UNCHANGED Batch!vars
  <2>1. w \in Holders /\ held[w] \in Held
    BY <1>8 DEF ExecuteTask, Holders, Held
  <2>2. held[w] \notin ToSet(results)
    BY <2>1 DEF IInv, Conservation, NoDuplicate
  <2>3. ToSet(results)' = ToSet(results) /\ ToSet(results) \subseteq Tasks
    BY <1>8 DEF ExecuteTask, mainVars, ToSet, IInv, TypeInv, TypeOK
  <2>4. \A t \in ToSet(results) : outcome'[t] = outcome[t]
    BY <1>8, <2>2, <2>3 DEF ExecuteTask, IInv, TypeInv, TypeOK
  <2>5. Status' = Status
    BY <1>8 DEF ExecuteTask, mainVars, Status
  <2> QED
    BY <2>3, <2>4, <2>5 DEF Batch!vars
<1>9. ASSUME NEW w \in Workers, PanicInTask(w) PROVE Batch!Next
  <2>1. Status = "running"
    BY <1>9, HolderMeansRunning DEF PanicInTask, Holders
  <2>2. Status' = "crashed" /\ Report' = Report
    BY <1>9 DEF PanicInTask, Status, Report, workVars, ToSet
  <2> QED
    BY <2>1, <2>2 DEF Report, Batch!Next, Batch!Crash
<1>10. CASE UNCHANGED vars
  BY <1>1, <1>10 DEF vars, mainVars, workVars, Status
<1> QED
  BY <1>2, <1>3, <1>4, <1>5, <1>6, <1>7, <1>8, <1>9, <1>10 DEF Next, Main, Worker, Finished

(* The pool implements BatchSpec: every result is handed out once and never
   revised, and Execute returns when, and only when, all of them are there. *)
THEOREM PoolRefinesBatch == Spec => RefinesBatch
BY PoolInvariant, RefinementInit, RefinementStep, PTL DEF Spec, RefinesBatch, Batch!Spec

-----------------------------------------------------------------------------
(* No deadlock *)

(* All workers are there before the first task is, and none leaves an open channel. *)
WorkersInv ==
    /\ pc \in {"collect", "returned"} => \A w \in Workers : wpc[w] # "unborn"
    /\ \A w \in Workers : wpc[w] = "exited" => closed

LEMMA WorkersStep == ASSUME IInv, WorkersInv, [Next]_vars PROVE WorkersInv'
<1> USE DEF IInv, TypeInv, TypeOK, WorkersInv
<1>1. CASE CreateNamespace
  BY <1>1 DEF CreateNamespace, workVars
<1>2. CASE FailNamespace
  BY <1>2 DEF FailNamespace, workVars
<1>3. ASSUME NEW w \in Workers, SpawnWorker(w) PROVE WorkersInv'
  BY <1>3 DEF SpawnWorker, mainVars
<1>4. CASE SpawnSender
  BY <1>4 DEF SpawnSender, workVars
<1>5. CASE StartCollecting
  BY <1>5 DEF StartCollecting, workVars
<1>6. CASE Collect
  BY <1>6 DEF Collect, workVars
<1>7. CASE CloseAndReturn
  BY <1>7 DEF CloseAndReturn, workVars
<1>8. ASSUME NEW t \in Tasks, Send(t) PROVE WorkersInv'
  BY <1>8 DEF Send, mainVars, workVars
<1>9. ASSUME NEW w \in Workers, Receive(w) PROVE WorkersInv'
  BY <1>9 DEF Receive, mainVars
<1>10. ASSUME NEW w \in Workers, NEW o \in Outcomes, ExecuteTask(w, o) PROVE WorkersInv'
  BY <1>10 DEF ExecuteTask, mainVars
<1>11. ASSUME NEW w \in Workers, PanicInTask(w) PROVE WorkersInv'
  BY <1>11 DEF PanicInTask, workVars
<1>12. ASSUME NEW w \in Workers, SendResult(w) PROVE WorkersInv'
  BY <1>12 DEF SendResult, mainVars
<1>13. ASSUME NEW w \in Workers, WorkerExit(w) PROVE WorkersInv'
  BY <1>13 DEF WorkerExit, mainVars
<1>14. CASE UNCHANGED vars
  BY <1>14 DEF vars, mainVars, workVars
<1> QED
  BY <1>1, <1>2, <1>3, <1>4, <1>5, <1>6, <1>7, <1>8, <1>9, <1>10, <1>11, <1>12, <1>13, <1>14
     DEF Next, Main, Worker, Finished

LEMMA WorkersInvariant == Spec => []WorkersInv
<1>1. Init => WorkersInv
  <2> SUFFICES ASSUME Init PROVE WorkersInv
    OBVIOUS
  <2>1. pc # "collect" /\ pc # "returned"
    BY Zenon DEF Init
  <2>2. \A w \in Workers : wpc[w] # "exited"
    BY DEF Init
  <2> QED
    BY <2>1, <2>2 DEF WorkersInv
<1>2. IInv /\ WorkersInv /\ [Next]_vars => WorkersInv'
  BY WorkersStep
<1> QED
  BY <1>1, <1>2, PoolInvariant, PTL DEF Spec

(* What each goroutine needs for its next step: the guards of the actions, one by one. *)
MainMoves ==
    \/ pc = "namespace"
    \/ pc = "spawn" /\ ((\E w \in Workers : wpc[w] = "unborn") \/ nSenders < N \/ nSenders = N)
    \/ pc = "collect" /\ (Len(results) = N \/ (Len(results) < N /\ resultChan # <<>>))

SenderMoves == \E t \in Tasks : t \in senders /\ Len(taskChan) < Concurrency

(* executeTask never returns for the tasks in stuck. *)
WorkerMoves(stuck) == \E w \in Workers :
    \/ wpc[w] = "recv" /\ (taskChan # <<>> \/ closed)
    \/ wpc[w] = "exec" /\ held[w] \notin stuck
    \/ wpc[w] = "send" /\ Len(resultChan) < Concurrency

Moves(stuck) == Alive /\ (MainMoves \/ SenderMoves \/ WorkerMoves(stuck))

PoolMoves == Done \/ Moves({})

(* All that can be over without Done: the tasks that are stuck keep their workers. *)
OthersServed(stuck) == stuck # {} /\ Tasks \ stuck \subseteq ToSet(results)

OthersMove ==
    \A stuck \in SUBSET Tasks :
        Cardinality(stuck) < Concurrency => Done \/ Moves(stuck) \/ OthersServed(stuck)

LEMMA SomeWorker == Concurrency > 0
<1>1. Cardinality(Workers) # 0
  BY WorkersAssumption, FS_EmptySet
<1> QED
  BY <1>1, ConcurrencyLemma DEF Concurrency

(* Fewer than N results leave a task without one. *)
LEMMA SomeTaskIsMissing ==
    ASSUME NEW s \in Seq(Tasks), Len(s) < N
    PROVE  \E t \in Tasks : t \notin ToSet(s)
<1> SUFFICES ASSUME Tasks \subseteq ToSet(s) PROVE FALSE
  OBVIOUS
<1>1. Len(s) \in Nat /\ s \in [1 .. Len(s) -> Tasks]
  OBVIOUS
<1>2. \A t \in Tasks : \E i \in 1 .. Len(s) : s[i] = t
  BY <1>1 DEF ToSet
<1>3. s \in Surjection(1 .. Len(s), Tasks)
  BY <1>1, <1>2 DEF Surjection
<1>4. IsFiniteSet(1 .. Len(s)) /\ Cardinality(1 .. Len(s)) = Len(s)
  BY <1>1, FS_Interval
<1>5. Cardinality(Tasks) = N
  BY NAssumption, FS_Interval DEF Tasks
<1>6. Cardinality(Tasks) <= Cardinality(1 .. Len(s))
  BY <1>3, <1>4, FS_Surjection
<1> QED
  BY <1>1, <1>4, <1>5, <1>6, NAssumption

(* While Execute collects and there is nothing to collect, a task without a result is
   with its sender, in the channel or with a worker. Unless all workers are stuck there is one
   that empties the channel, which lets the senders go on. *)
LEMMA CollectingMoves ==
    ASSUME IInv, WorkersInv, pc = "collect", Len(results) < N, resultChan = <<>>,
           NEW stuck \in SUBSET Tasks, Cardinality(stuck) < Concurrency
    PROVE  SenderMoves \/ WorkerMoves(stuck) \/ OthersServed(stuck)
<1> SUFFICES ASSUME ~SenderMoves, ~WorkerMoves(stuck) PROVE OthersServed(stuck)
  OBVIOUS
<1>1. ToSet(resultChan) = {} /\ Len(resultChan) < Concurrency
  BY SomeWorker DEF ToSet
<1>2. ~closed
  BY NAssumption DEF IInv, MainInv
<1>3. \A w \in Workers : wpc[w] \in {"recv", "exec", "send"}
  BY <1>2 DEF WorkersInv, IInv, TypeInv, TypeOK
<1>4. \A w \in Holders : held[w] \in stuck
  BY <1>1 DEF WorkerMoves, Holders
<1>5. PICK w \in Workers : wpc[w] = "recv"
  <2> SUFFICES ASSUME \A w \in Workers : wpc[w] # "recv" PROVE FALSE
    OBVIOUS
  <2>1. Holders = Workers
    BY <1>3 DEF Holders
  <2>2. held \in [Workers -> stuck]
    BY <1>4, <2>1 DEF IInv, TypeInv, TypeOK
  <2>3. held \in Injection(Workers, stuck)
    BY <2>1, <2>2 DEF Injection, IsInjective, IInv, Conservation, NoDuplicate
  <2>4. IsFiniteSet(stuck)
    <3>1. IsFiniteSet(Tasks)
      BY NAssumption, FS_Interval DEF Tasks
    <3> QED
      BY <3>1, FS_Subset
  <2>5. Cardinality(Workers) <= Cardinality(stuck)
    BY <2>3, <2>4, WorkersAssumption, FS_Injection
  <2> QED
    BY <2>4, <2>5, ConcurrencyLemma, FS_CardinalityType DEF Concurrency
<1>6. taskChan = <<>> /\ ToSet(taskChan) = {}
  <2>1. taskChan = <<>>
    BY <1>5 DEF WorkerMoves
  <2> QED
    BY <2>1 DEF ToSet
<1>7. senders = {}
  <2>1. Len(taskChan) < Concurrency
    BY <1>6, SomeWorker
  <2> QED
    BY <2>1 DEF SenderMoves, IInv, TypeInv, TypeOK
<1>8. Tasks = Held \cup ToSet(results)
  BY <1>1, <1>6, <1>7 DEF IInv, Conservation, Located, MainInv, Started, Tasks
<1>9. Held \subseteq stuck
  BY <1>4 DEF Held
<1>10. PICK t \in Tasks : t \notin ToSet(results)
  BY SomeTaskIsMissing DEF IInv, TypeInv, TypeOK
<1> QED
  BY <1>8, <1>9, <1>10 DEF OthersServed

(* There are never more results than tasks. *)
LEMMA ResultsAreFew ==
    ASSUME IInv
    PROVE  Len(results) \in Nat /\ Len(results) <= N
<1>1. /\ results \in Seq(Tasks) /\ IsInjective(results)
      /\ Len(results) \in Nat /\ results \in [1 .. Len(results) -> Tasks]
  BY DEF IInv, TypeInv, TypeOK, Conservation, NoDuplicate
<1>2. results \in Injection(1 .. Len(results), Tasks)
  BY <1>1 DEF Injection, IsInjective
<1>3. IsFiniteSet(Tasks) /\ Cardinality(Tasks) = N
  BY NAssumption, FS_Interval DEF Tasks
<1>4. Cardinality(1 .. Len(results)) = Len(results)
  BY <1>1, FS_Interval
<1>5. Cardinality(1 .. Len(results)) <= Cardinality(Tasks)
  BY <1>2, <1>3, FS_Injection
<1> QED
  BY <1>1, <1>3, <1>4, <1>5

(* ssh_executor.go:36: tasks that never return hold up no others as long as there are fewer of
   them than workers. In every reachable state a goroutine can go on, or all is over, or all
   tasks but those have their results: the safety half of "every other entry is served". *)
THEOREM StuckTasksHoldUpNoOthers == Spec => []OthersMove
<1>1. IInv /\ WorkersInv => OthersMove
  <2> SUFFICES ASSUME IInv, WorkersInv, ~Done, NEW stuck \in SUBSET Tasks,
                      Cardinality(stuck) < Concurrency
               PROVE  Moves(stuck) \/ OthersServed(stuck)
    BY DEF OthersMove
  <2>1. pc \in {"namespace", "spawn", "collect", "returned"} /\ Alive
    BY DEF Done, Alive, IInv, TypeInv, TypeOK
  <2>2. CASE pc \in {"namespace", "spawn"}
    BY <2>1, <2>2, NAssumption DEF Moves, MainMoves, IInv, TypeInv, TypeOK
  <2>3. CASE pc = "collect"
    <3>1. Len(results) = N \/ Len(results) < N
      BY ResultsAreFew, NAssumption
    <3>2. CASE Len(results) = N \/ resultChan # <<>>
      BY <2>1, <2>3, <3>1, <3>2 DEF Moves, MainMoves
    <3>3. CASE Len(results) < N /\ resultChan = <<>>
      BY <2>1, <2>3, <3>3, CollectingMoves DEF Moves
    <3> QED
      BY <3>1, <3>2, <3>3
  <2>4. CASE pc = "returned"
    <3>1. PICK w \in Workers : wpc[w] # "exited"
      BY <2>4 DEF Done
    <3>2. closed /\ Holders = {}
      BY <2>4, AllCollected DEF IInv, MainInv
    <3>3. wpc[w] = "recv"
      BY <2>4, <3>1, <3>2 DEF WorkersInv, Holders, IInv, TypeInv, TypeOK
    <3> QED
      BY <2>1, <3>2, <3>3 DEF Moves, WorkerMoves
  <2> QED
    BY <2>1, <2>2, <2>3, <2>4
<1> QED
  BY <1>1, PoolInvariant, WorkersInvariant, PTL

(* pod_executor.go:71, ssh_executor.go:36: when every task returns, in every reachable state the
   pool has finished or one of its goroutines can go on, for any number of machines and of
   workers, although both channels are smaller than the list of machines. *)
THEOREM PoolNeverDeadlocks == Spec => []PoolMoves
<1>1. OthersMove => PoolMoves
  <2>1. Cardinality({}) < Concurrency
    BY SomeWorker, FS_EmptySet
  <2> QED
    BY <2>1 DEF OthersMove, PoolMoves, OthersServed
<1> QED
  BY <1>1, StuckTasksHoldUpNoOthers, PTL

-----------------------------------------------------------------------------
(* Every run is finite *)

At(stages, stage) == {w \in Workers : stages[w] = stage}

Unborn == Cardinality(At(wpc, "unborn"))
Receiving == Cardinality(At(wpc, "recv"))
Executing == Cardinality(At(wpc, "exec"))
Sending == Cardinality(At(wpc, "send"))

(* How many more stages Execute can enter. *)
StagesLeft ==
    IF pc = "namespace" THEN 3 ELSE IF pc = "spawn" THEN 2 ELSE IF pc = "collect" THEN 1 ELSE 0

(* The steps that are left at most: for each task those from where it is to the results,
   for each worker its start and its exit. *)
Steps(stages, unsent, sent, queued, unborn, receiving, executing, sending, returned) ==
    stages + 6 * unsent + 5 * sent + 4 * queued + 2 * unborn + receiving + 4 * executing + 3 * sending + returned

Work == Steps(StagesLeft, N - nSenders, Cardinality(senders), Len(taskChan),
              Unborn, Receiving, Executing, Sending, Len(resultChan))

LEMMA StepsGetLess ==
    ASSUME NEW a \in Nat, NEW b \in Nat, NEW c \in Nat, NEW d \in Nat, NEW e \in Nat,
           NEW f \in Nat, NEW g \in Nat, NEW h \in Nat, NEW i \in Nat
    PROVE  /\ Steps(a, b, c, d, e, f, g, h, i) \in Nat
           /\ \A x \in Nat : x < a => Steps(x, b, c, d, e, f, g, h, i) < Steps(a, b, c, d, e, f, g, h, i)
           /\ \A x \in Nat : x <= c + 1 => Steps(a, b, x, d, e, f, g, h, i) < Steps(a, b + 1, c, d, e, f, g, h, i)
           /\ Steps(a, b, c, d + 1, e, f, g, h, i) < Steps(a, b, c + 1, d, e, f, g, h, i)
           /\ Steps(a, b, c, d, e, f + 1, g, h, i) < Steps(a, b, c, d, e + 1, f, g, h, i)
           /\ Steps(a, b, c, d, e, f, g + 1, h, i) < Steps(a, b, c, d + 1, e, f + 1, g, h, i)
           /\ Steps(a, b, c, d, e, f, g, h + 1, i) < Steps(a, b, c, d, e, f, g + 1, h, i)
           /\ Steps(a, b, c, d, e, f + 1, g, h, i + 1) < Steps(a, b, c, d, e, f, g, h + 1, i)
           /\ Steps(a, b, c, d, e, f, g, h, i) < Steps(a, b, c, d, e, f, g, h, i + 1)
           /\ Steps(a, b, c, d, e, f, g, h, i) < Steps(a, b, c, d, e, f + 1, g, h, i)
BY DEF Steps

LEMMA CountWorkers ==
    /\ Unborn \in Nat /\ Receiving \in Nat /\ Executing \in Nat /\ Sending \in Nat
    /\ Unborn' \in Nat /\ Receiving' \in Nat /\ Executing' \in Nat /\ Sending' \in Nat
<1>1. \A S \in SUBSET Workers : Cardinality(S) \in Nat
  BY WorkersAssumption, FS_Subset, FS_CardinalityType
<1> QED
  BY <1>1 DEF Unborn, Receiving, Executing, Sending, At

(* Worker w goes from stage a to stage b, the others stay where they are. *)
MovesOn(f, g, w, a, b) ==
    a # b /\ f[w] = a /\ g[w] = b /\ \A v \in Workers \ {w} : g[v] = f[v]

LEMMA WorkerMovesOn ==
    ASSUME NEW f, NEW g, NEW w \in Workers, NEW a, NEW b, MovesOn(f, g, w, a, b)
    PROVE  /\ Cardinality(At(f, a)) = Cardinality(At(g, a)) + 1
           /\ Cardinality(At(g, b)) = Cardinality(At(f, b)) + 1
           /\ \A c : c # a /\ c # b => Cardinality(At(g, c)) = Cardinality(At(f, c))
<1>1. a # b /\ f[w] = a /\ g[w] = b /\ \A v \in Workers \ {w} : g[v] = f[v]
  BY DEF MovesOn
<1>2. At(f, a) = At(g, a) \cup {w} /\ w \notin At(g, a)
  BY <1>1 DEF At
<1>3. At(g, b) = At(f, b) \cup {w} /\ w \notin At(f, b)
  BY <1>1 DEF At
<1>4. \A c : c # a /\ c # b => At(g, c) = At(f, c)
  BY <1>1 DEF At
<1>5. IsFiniteSet(At(g, a)) /\ IsFiniteSet(At(f, b))
  <2>1. At(g, a) \subseteq Workers /\ At(f, b) \subseteq Workers
    BY DEF At
  <2> QED
    BY <2>1, WorkersAssumption, FS_Subset
<1>6. Cardinality(At(f, a)) = Cardinality(At(g, a)) + 1
  <2>1. Cardinality(At(g, a) \cup {w}) = Cardinality(At(g, a)) + 1
    BY <1>2, <1>5, FS_AddElement
  <2> QED
    BY <1>2, <2>1, Zenon
<1>7. Cardinality(At(g, b)) = Cardinality(At(f, b)) + 1
  BY <1>3, <1>5, FS_AddElement
<1> QED
  BY <1>4, <1>6, <1>7

LEMMA SendersFinite == ASSUME TypeOK PROVE IsFiniteSet(senders) /\ Cardinality(senders) \in Nat
<1>1. IsFiniteSet(Tasks)
  BY NAssumption, FS_Interval DEF Tasks
<1> QED
  BY <1>1, FS_Subset, FS_CardinalityType DEF TypeOK

LEMMA WorkType ==
    ASSUME TypeOK
    PROVE  /\ Work \in Nat /\ StagesLeft \in Nat /\ N - nSenders \in Nat
           /\ Len(taskChan) \in Nat /\ Len(resultChan) \in Nat
<1>1. StagesLeft \in Nat
  BY DEF StagesLeft
<1>2. N - nSenders \in Nat /\ N \in Nat /\ nSenders \in Nat
  BY NAssumption DEF TypeOK
<1>3. Len(taskChan) \in Nat /\ Len(resultChan) \in Nat
  BY DEF TypeOK
<1> QED
  <2>1. Unborn \in Nat /\ Receiving \in Nat /\ Executing \in Nat /\ Sending \in Nat
    BY CountWorkers
  <2>2. Cardinality(senders) \in Nat
    BY SendersFinite
  <2>3. Work \in Nat
    BY <1>1, <1>2, <1>3, <2>1, <2>2, StepsGetLess, Zenon DEF Work
  <2> QED
    BY <1>1, <1>2, <1>3, <2>3

(* Workers that stay where they are. *)
LEMMA WorkersStay ==
    ASSUME UNCHANGED wpc
    PROVE  Unborn' = Unborn /\ Receiving' = Receiving /\ Executing' = Executing /\ Sending' = Sending
BY DEF Unborn, Receiving, Executing, Sending

(* A step is taken off the work of the task or of the worker that takes it. *)
LEMMA WorkStep ==
    ASSUME IInv, TypeOK', [Next]_vars
    PROVE  Work' < Work \/ UNCHANGED vars
<1> DEFINE a == StagesLeft  b == N - nSenders  c == Cardinality(senders)  d == Len(taskChan)
           e == Unborn  f == Receiving  g == Executing  h == Sending  i == Len(resultChan)
<1>1. TypeOK /\ IsFiniteSet(senders) /\ nSenders \in Nat /\ wpc \in [Workers -> {"unborn", "recv", "exec", "send", "exited"}]
  BY NAssumption, SendersFinite DEF IInv, TypeInv, TypeOK
<1>2. a \in Nat /\ b \in Nat /\ c \in Nat /\ d \in Nat /\ i \in Nat
  BY <1>1, WorkType, SendersFinite
<1>3. e \in Nat /\ f \in Nat /\ g \in Nat /\ h \in Nat /\ e' \in Nat /\ f' \in Nat /\ g' \in Nat /\ h' \in Nat
  BY CountWorkers
<1>4. Work = Steps(a, b, c, d, e, f, g, h, i) /\ Work' = Steps(a', b', c', d', e', f', g', h', i')
  BY DEF Work
<1>5. wpc' = wpc => e' = e /\ f' = f /\ g' = g /\ h' = h
  BY WorkersStay
<1>6. pc' = pc => a' = a
  BY DEF StagesLeft
<1>7. ASSUME NEW w \in Workers, PanicInTask(w) PROVE a > 0
  <2>1. Status = "running"
    BY <1>7, HolderMeansRunning DEF PanicInTask, Holders
  <2>2. pc \in {"namespace", "spawn", "collect"}
    BY <1>1, <1>7, <2>1 DEF Status, PanicInTask, Alive, TypeOK
  <2> QED
    BY <2>2 DEF StagesLeft
<1>8. ASSUME UNCHANGED <<nSenders, senders, taskChan, wpc, resultChan>>, a' \in Nat, a' < a
      PROVE  Work' < Work
  <2>1. b' = b /\ c' = c /\ d' = d /\ i' = i /\ e' = e /\ f' = f /\ g' = g /\ h' = h
    BY <1>5, <1>8
  <2>2. a' \in Nat /\ a' < a
    BY <1>8
  <2> HIDE DEF a, b, c, d, e, f, g, h, i
  <2>3. Steps(a', b, c, d, e, f, g, h, i) < Steps(a, b, c, d, e, f, g, h, i)
    BY <1>2, <1>3, <2>2, StepsGetLess, Zenon
  <2> QED
    BY <1>4, <2>1, <2>3, Zenon
<1>9. CASE CreateNamespace
  <2>1. StagesLeft = 3 /\ StagesLeft' = 2
    BY <1>9 DEF CreateNamespace, StagesLeft
  <2> QED
    BY <1>8, <1>9, <2>1 DEF CreateNamespace, workVars
<1>10. CASE FailNamespace
  <2>1. StagesLeft = 3 /\ StagesLeft' = 0
    BY <1>10 DEF FailNamespace, StagesLeft
  <2> QED
    BY <1>8, <1>10, <2>1 DEF FailNamespace, workVars
<1>11. CASE StartCollecting
  <2>1. StagesLeft = 2 /\ StagesLeft' = 1
    BY <1>11 DEF StartCollecting, StagesLeft
  <2> QED
    BY <1>8, <1>11, <2>1 DEF StartCollecting, workVars
<1>12. CASE CloseAndReturn
  <2>1. StagesLeft = 1 /\ StagesLeft' = 0
    BY <1>12 DEF CloseAndReturn, StagesLeft
  <2> QED
    BY <1>8, <1>12, <2>1 DEF CloseAndReturn, workVars
<1>13. ASSUME NEW w \in Workers, PanicInTask(w) PROVE Work' < Work
  <2>1. StagesLeft > 0 /\ StagesLeft' = 0
    BY <1>7, <1>13 DEF PanicInTask, StagesLeft
  <2> QED
    BY <1>2, <1>8, <1>13, <2>1 DEF PanicInTask, workVars
<1>14. CASE SpawnSender
  <2>1. nSenders' = nSenders + 1 /\ nSenders < N /\ senders' = senders \cup {nSenders'} /\ wpc' = wpc /\ pc' = pc
    BY <1>14 DEF SpawnSender, workVars
  <2>2. b = b' + 1 /\ b' \in Nat
    BY <1>1, <2>1, NAssumption
  <2>3. c' <= c + 1 /\ c' \in Nat
    <3>1. nSenders' \in senders => senders' = senders
      BY <2>1
    <3>2. nSenders' \notin senders => Cardinality(senders') = Cardinality(senders) + 1
      BY <1>1, <2>1, FS_AddElement
    <3> QED
      BY <1>2, <3>1, <3>2
  <2>4. a' = a /\ d' = d /\ e' = e /\ f' = f /\ g' = g /\ h' = h /\ i' = i
    BY <1>14, <1>5, <1>6, <2>1 DEF SpawnSender
  <2> HIDE DEF a, b, c, d, e, f, g, h, i
  <2>5. Work = Steps(a, b' + 1, c, d, e, f, g, h, i) /\ Work' = Steps(a, b', c', d, e, f, g, h, i)
    BY <1>4, <2>1, <2>2, <2>3, <2>4, Zenon
  <2>6. Steps(a, b', c', d, e, f, g, h, i) < Steps(a, b' + 1, c, d, e, f, g, h, i)
    BY <1>2, <1>3, <2>1, <2>2, <2>3, <2>4, StepsGetLess, Zenon
  <2> QED
    BY <2>5, <2>6, Zenon
<1>15. ASSUME NEW t \in Tasks, Send(t) PROVE Work' < Work
  <2>1. t \in senders /\ senders' = senders \ {t} /\ taskChan' = Append(taskChan, t) /\ UNCHANGED <<pc, nSenders, wpc, resultChan>>
    BY <1>15 DEF Send, mainVars, workVars
  <2>2. d' = d + 1
    BY <1>1, <2>1 DEF TypeOK
  <2>3. c = c' + 1 /\ c' \in Nat
    <3>1. IsFiniteSet(senders') /\ Cardinality(senders') = Cardinality(senders) - 1
      BY <1>1, <2>1, FS_RemoveElement
    <3>2. Cardinality(senders') \in Nat
      BY <3>1, FS_CardinalityType
    <3> QED
      BY <1>2, <3>1, <3>2
  <2>4. a' = a /\ b' = b /\ e' = e /\ f' = f /\ g' = g /\ h' = h /\ i' = i
    BY <1>5, <1>6, <2>1
  <2> HIDE DEF a, b, c, d, e, f, g, h, i
  <2>5. Work = Steps(a, b, c' + 1, d, e, f, g, h, i) /\ Work' = Steps(a, b, c', d + 1, e, f, g, h, i)
    BY <1>4, <2>1, <2>2, <2>3, <2>4, Zenon
  <2>6. Steps(a, b, c', d + 1, e, f, g, h, i) < Steps(a, b, c' + 1, d, e, f, g, h, i)
    BY <1>2, <1>3, <2>1, <2>2, <2>3, <2>4, StepsGetLess, Zenon
  <2> QED
    BY <2>5, <2>6, Zenon
<1>16. CASE Collect
  <2>1. resultChan # <<>> /\ resultChan' = Tail(resultChan) /\ UNCHANGED <<pc, nSenders, senders, taskChan, wpc>>
    BY <1>16 DEF Collect, workVars
  <2>2. i = i' + 1 /\ i' \in Nat
    BY <1>1, <2>1, HeadTailType DEF TypeOK
  <2>3. a' = a /\ b' = b /\ c' = c /\ d' = d /\ e' = e /\ f' = f /\ g' = g /\ h' = h
    BY <1>5, <1>6, <2>1
  <2> HIDE DEF a, b, c, d, e, f, g, h, i
  <2>4. Work = Steps(a, b, c, d, e, f, g, h, i' + 1) /\ Work' = Steps(a, b, c, d, e, f, g, h, i')
    BY <1>4, <2>1, <2>2, <2>3, Zenon
  <2>5. Steps(a, b, c, d, e, f, g, h, i') < Steps(a, b, c, d, e, f, g, h, i' + 1)
    BY <1>2, <1>3, <2>1, <2>2, <2>3, StepsGetLess, Zenon
  <2> QED
    BY <2>4, <2>5, Zenon
<1>17. ASSUME NEW w \in Workers, SpawnWorker(w) PROVE Work' < Work
  <2>1. wpc[w] = "unborn" /\ wpc' = [wpc EXCEPT ![w] = "recv"] /\ UNCHANGED <<pc, nSenders, senders, taskChan, resultChan>>
    BY <1>17 DEF SpawnWorker, mainVars
  <2>2. e = e' + 1 /\ f' = f + 1 /\ g' = g /\ h' = h
    <3>1. MovesOn(wpc, wpc', w, "unborn", "recv")
      BY <1>1, <2>1 DEF MovesOn
    <3>2. /\ Cardinality(At(wpc, "unborn")) = Cardinality(At(wpc', "unborn")) + 1
          /\ Cardinality(At(wpc', "recv")) = Cardinality(At(wpc, "recv")) + 1
          /\ \A s : s # "unborn" /\ s # "recv" => Cardinality(At(wpc', s)) = Cardinality(At(wpc, s))
      BY <3>1, WorkerMovesOn, SMT
    <3> QED
      BY <3>2 DEF Unborn, Receiving, Executing, Sending
  <2>3. a' = a /\ b' = b /\ c' = c /\ d' = d /\ i' = i
    BY <1>6, <2>1
  <2> HIDE DEF a, b, c, d, e, f, g, h, i
  <2>4. Work = Steps(a, b, c, d, e' + 1, f, g, h, i) /\ Work' = Steps(a, b, c, d, e', f + 1, g, h, i)
    BY <1>4, <2>1, <2>2, <2>3, Zenon
  <2>5. Steps(a, b, c, d, e', f + 1, g, h, i) < Steps(a, b, c, d, e' + 1, f, g, h, i)
    BY <1>2, <1>3, <2>1, <2>2, <2>3, StepsGetLess, Zenon
  <2> QED
    BY <2>4, <2>5, Zenon
<1>18. ASSUME NEW w \in Workers, Receive(w) PROVE Work' < Work
  <2>1. wpc[w] = "recv" /\ wpc' = [wpc EXCEPT ![w] = "exec"] /\ UNCHANGED <<pc, nSenders, senders, resultChan>>
    BY <1>18 DEF Receive, mainVars
  <2>2. f = f' + 1 /\ g' = g + 1 /\ e' = e /\ h' = h
    <3>1. MovesOn(wpc, wpc', w, "recv", "exec")
      BY <1>1, <2>1 DEF MovesOn
    <3>2. /\ Cardinality(At(wpc, "recv")) = Cardinality(At(wpc', "recv")) + 1
          /\ Cardinality(At(wpc', "exec")) = Cardinality(At(wpc, "exec")) + 1
          /\ \A s : s # "recv" /\ s # "exec" => Cardinality(At(wpc', s)) = Cardinality(At(wpc, s))
      BY <3>1, WorkerMovesOn, SMT
    <3> QED
      BY <3>2 DEF Unborn, Receiving, Executing, Sending
  <2>3. d = d' + 1 /\ d' \in Nat
    BY <1>1, <1>18, HeadTailType DEF Receive, TypeOK
  <2>4. a' = a /\ b' = b /\ c' = c /\ i' = i
    BY <1>6, <2>1
  <2> HIDE DEF a, b, c, d, e, f, g, h, i
  <2>5. Work = Steps(a, b, c, d' + 1, e, f' + 1, g, h, i) /\ Work' = Steps(a, b, c, d', e, f', g + 1, h, i)
    BY <1>4, <2>1, <2>2, <2>3, <2>4, Zenon
  <2>6. Steps(a, b, c, d', e, f', g + 1, h, i) < Steps(a, b, c, d' + 1, e, f' + 1, g, h, i)
    BY <1>2, <1>3, <2>1, <2>2, <2>3, <2>4, StepsGetLess, Zenon
  <2> QED
    BY <2>5, <2>6, Zenon
<1>19. ASSUME NEW w \in Workers, NEW o \in Outcomes, ExecuteTask(w, o) PROVE Work' < Work
  <2>1. wpc[w] = "exec" /\ wpc' = [wpc EXCEPT ![w] = "send"] /\ UNCHANGED <<pc, nSenders, senders, taskChan, resultChan>>
    BY <1>19 DEF ExecuteTask, mainVars
  <2>2. g = g' + 1 /\ h' = h + 1 /\ e' = e /\ f' = f
    <3>1. MovesOn(wpc, wpc', w, "exec", "send")
      BY <1>1, <2>1 DEF MovesOn
    <3>2. /\ Cardinality(At(wpc, "exec")) = Cardinality(At(wpc', "exec")) + 1
          /\ Cardinality(At(wpc', "send")) = Cardinality(At(wpc, "send")) + 1
          /\ \A s : s # "exec" /\ s # "send" => Cardinality(At(wpc', s)) = Cardinality(At(wpc, s))
      BY <3>1, WorkerMovesOn, SMT
    <3> QED
      BY <3>2 DEF Unborn, Receiving, Executing, Sending
  <2>3. a' = a /\ b' = b /\ c' = c /\ d' = d /\ i' = i
    BY <1>6, <2>1
  <2> HIDE DEF a, b, c, d, e, f, g, h, i
  <2>4. Work = Steps(a, b, c, d, e, f, g' + 1, h, i) /\ Work' = Steps(a, b, c, d, e, f, g', h + 1, i)
    BY <1>4, <2>1, <2>2, <2>3, Zenon
  <2>5. Steps(a, b, c, d, e, f, g', h + 1, i) < Steps(a, b, c, d, e, f, g' + 1, h, i)
    BY <1>2, <1>3, <2>1, <2>2, <2>3, StepsGetLess, Zenon
  <2> QED
    BY <2>4, <2>5, Zenon
<1>20. ASSUME NEW w \in Workers, SendResult(w) PROVE Work' < Work
  <2>1. wpc[w] = "send" /\ wpc' = [wpc EXCEPT ![w] = "recv"] /\ UNCHANGED <<pc, nSenders, senders, taskChan>>
    BY <1>20 DEF SendResult, mainVars
  <2>2. h = h' + 1 /\ f' = f + 1 /\ e' = e /\ g' = g
    <3>1. MovesOn(wpc, wpc', w, "send", "recv")
      BY <1>1, <2>1 DEF MovesOn
    <3>2. /\ Cardinality(At(wpc, "send")) = Cardinality(At(wpc', "send")) + 1
          /\ Cardinality(At(wpc', "recv")) = Cardinality(At(wpc, "recv")) + 1
          /\ \A s : s # "send" /\ s # "recv" => Cardinality(At(wpc', s)) = Cardinality(At(wpc, s))
      BY <3>1, WorkerMovesOn, SMT
    <3> QED
      BY <3>2 DEF Unborn, Receiving, Executing, Sending
  <2>3. i' = i + 1
    <3>1. held[w] \in Tasks
      BY <1>20 DEF SendResult, IInv, TypeInv, HoldersHoldTasks
    <3> QED
      BY <1>1, <1>20, <3>1 DEF SendResult, TypeOK
  <2>4. a' = a /\ b' = b /\ c' = c /\ d' = d
    BY <1>6, <2>1
  <2> HIDE DEF a, b, c, d, e, f, g, h, i
  <2>5. Work = Steps(a, b, c, d, e, f, g, h' + 1, i) /\ Work' = Steps(a, b, c, d, e, f + 1, g, h', i + 1)
    BY <1>4, <2>1, <2>2, <2>3, <2>4, Zenon
  <2>6. Steps(a, b, c, d, e, f + 1, g, h', i + 1) < Steps(a, b, c, d, e, f, g, h' + 1, i)
    BY <1>2, <1>3, <2>1, <2>2, <2>3, <2>4, StepsGetLess, Zenon
  <2> QED
    BY <2>5, <2>6, Zenon
<1>21. ASSUME NEW w \in Workers, WorkerExit(w) PROVE Work' < Work
  <2>1. wpc[w] = "recv" /\ wpc' = [wpc EXCEPT ![w] = "exited"] /\ UNCHANGED <<pc, nSenders, senders, taskChan, resultChan>>
    BY <1>21 DEF WorkerExit, mainVars
  <2>2. f = f' + 1 /\ e' = e /\ g' = g /\ h' = h
    <3>1. MovesOn(wpc, wpc', w, "recv", "exited")
      BY <1>1, <2>1 DEF MovesOn
    <3>2. /\ Cardinality(At(wpc, "recv")) = Cardinality(At(wpc', "recv")) + 1
          /\ Cardinality(At(wpc', "exited")) = Cardinality(At(wpc, "exited")) + 1
          /\ \A s : s # "recv" /\ s # "exited" => Cardinality(At(wpc', s)) = Cardinality(At(wpc, s))
      BY <3>1, WorkerMovesOn, SMT
    <3> QED
      BY <3>2 DEF Unborn, Receiving, Executing, Sending
  <2>3. a' = a /\ b' = b /\ c' = c /\ d' = d /\ i' = i
    BY <1>6, <2>1
  <2> HIDE DEF a, b, c, d, e, f, g, h, i
  <2>4. Work = Steps(a, b, c, d, e, f' + 1, g, h, i) /\ Work' = Steps(a, b, c, d, e, f', g, h, i)
    BY <1>4, <2>1, <2>2, <2>3, Zenon
  <2>5. Steps(a, b, c, d, e, f', g, h, i) < Steps(a, b, c, d, e, f' + 1, g, h, i)
    BY <1>2, <1>3, <2>1, <2>2, <2>3, StepsGetLess, Zenon
  <2> QED
    BY <2>4, <2>5, Zenon
<1> QED
  BY <1>9, <1>10, <1>11, <1>12, <1>13, <1>14, <1>15, <1>16, <1>17, <1>18, <1>19, <1>20, <1>21
     DEF Next, Main, Worker, Finished

WorkIsFinite == Work \in Nat

WorkShrinks == []WorkIsFinite /\ [][Work' < Work]_vars

(* pod_executor.go:95, ssh_executor.go:68: whatever the scheduler does, the pool takes no more
   steps than the work it starts with, for any number of machines and of workers; with
   PoolNeverDeadlocks, it can only end by finishing. *)
THEOREM PoolWorkIsBounded == Spec => WorkShrinks
<1>1. IInv => WorkIsFinite
  BY WorkType DEF WorkIsFinite, IInv, TypeInv
<1>2. IInv /\ IInv' /\ [Next]_vars => [Work' < Work]_vars
  <2> SUFFICES ASSUME IInv, IInv', [Next]_vars, ~UNCHANGED vars PROVE Work' < Work
    OBVIOUS
  <2>1. TypeOK'
    BY DEF IInv, TypeInv
  <2> QED
    BY <2>1, WorkStep
<1> QED
  BY <1>1, <1>2, PoolInvariant, PTL DEF Spec, WorkShrinks
=============================================================================
