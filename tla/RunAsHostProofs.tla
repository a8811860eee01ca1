--------------------------- MODULE RunAsHostProofs ---------------------------
(***************************************************************************)
(* What run-as-host leaves on its host and prints, for any number of       *)
(* invocations that do not overlap, each of which may be killed, fail or   *)
(* give up at any step and leave its service running and its files behind. *)
(***************************************************************************)
EXTENDS RunAsHost, TLAPS

OwnsUnit == {"reload", "start", "wait", "read", "rmUnit"}
IsLoaded == {"start", "wait", "read", "rmUnit", "rmOut", "print"}
Quiet == {"unit", "reload", "start", "read", "rmUnit", "rmOut", "print"}
NotStarted == {"idle", "copy", "unit", "reload", "start"}
HasRead == {"rmUnit", "rmOut", "print", "done"}

(* The host, whatever was left on it. *)
HostInv ==
    /\ service = NoRun => svcFile = "none"
    /\ svcFile # "unlinked"
    /\ svcFile = "open" => outExists
    /\ ~outExists => out = <<>>

(* One invocation is under way at a time, and what it has done to the host so far
   is still there: in particular a service that an earlier one left behind has
   ended before it gets past the copy of the executable. *)
TurnInv ==
    /\ \A r, s \in Runs : Active(r) /\ Active(s) => r = s
    /\ \A r \in Runs :
        /\ pc[r] \in OwnsUnit => unit = r
        /\ pc[r] \in {"rmOut", "print"} => unit = NoRun
        /\ pc[r] \in IsLoaded => loaded = r
        /\ pc[r] \in Quiet => service = NoRun
        /\ pc[r] = "wait" => service \in {r, NoRun}
        /\ pc[r] = "print" => ~outExists
        /\ pc[r] \in NotStarted \cup HasRead => service # r

(* The document of an invocation that has written one comes last. *)
LastInv ==
    \A r \in Runs :
        /\ pc[r] \in NotStarted => r \notin wrote
        /\ r \in wrote /\ pc[r] \in {"wait", "read"} => out # <<>> /\ Last(out) = r
        /\ r \in wrote /\ pc[r] \in HasRead => output[r] # <<>> /\ Last(output[r]) = r

(* Between the start of its unit and the removal of the output an invocation
   answers for what is in the file; afterwards nobody does, unless it ended early. *)
Answers == {"wait", "read", "rmUnit", "rmOut"}
StaleInv ==
    /\ outExists => uncleaned # {} \/ \E r \in Runs : pc[r] \in Answers
    /\ service # NoRun => service \in uncleaned \/ pc[service] = "wait"
    /\ \A i \in DOMAIN out : out[i] \in uncleaned \/ pc[out[i]] \in Answers
    /\ \A r \in Runs : \A i \in DOMAIN output[r] : output[r][i] \in {r} \cup uncleaned

Inv == HostInv /\ TurnInv /\ LastInv /\ StaleInv
IInv == TypeOK /\ (OneAfterTheOther => Inv)

-----------------------------------------------------------------------------
LEMMA HostInit == Init => IInv
<1> SUFFICES ASSUME Init PROVE IInv
  OBVIOUS
<1> USE DEF Init, Active, Steps, Over
<1>1. TypeOK
  <2>1. pc \in [Runs -> {"idle"} \cup Steps \cup Over]
    OBVIOUS
  <2>2. output \in [Runs -> Seq(Runs)] /\ out \in Seq(Runs)
    OBVIOUS
  <2>3. overlaps \in 0..MaxOverlaps
    BY MaxOverlapsAssumption
  <2>4. outExists \in BOOLEAN
    OBVIOUS
  <2> QED
    BY <2>1, <2>2, <2>3, <2>4 DEF TypeOK
<1>2. HostInv /\ TurnInv
  BY NoRunAssumption DEF HostInv, TurnInv, OwnsUnit, IsLoaded, Quiet, NotStarted, HasRead
<1>3. LastInv /\ StaleInv
  BY DEF LastInv, StaleInv, NotStarted, HasRead
<1> QED
  BY <1>1, <1>2, <1>3 DEF IInv, Inv

LEMMA TypeStep == TypeOK /\ [Next]_vars => TypeOK'
<1> SUFFICES ASSUME TypeOK, [Next]_vars PROVE TypeOK'
  OBVIOUS
<1> USE DEF TypeOK, Steps, Over, Goto, Fatal, LeavesBehind, host, history
<1>1. ASSUME NEW r \in Runs, Begin(r) PROVE TypeOK'
  BY <1>1, MaxOverlapsAssumption DEF Begin
<1>2. ASSUME NEW r \in Runs, CopyFile(r) PROVE TypeOK'
  BY <1>2 DEF CopyFile
<1>3. ASSUME NEW r \in Runs, WriteSystemdUnit(r) PROVE TypeOK'
  BY <1>3 DEF WriteSystemdUnit
<1>4. ASSUME NEW r \in Runs, Reload(r) PROVE TypeOK'
  BY <1>4 DEF Reload
<1>5. ASSUME NEW r \in Runs, StartUnit(r) PROVE TypeOK'
  BY <1>5 DEF StartUnit
<1>6. ASSUME NEW r \in Runs, WaitTimeout(r) \/ Killed(r) PROVE TypeOK'
  BY <1>6 DEF WaitTimeout, Killed
<1>e. ASSUME NEW r \in Runs, Fatal(r) \/ LeavesBehind(r) PROVE TypeOK'
  BY <1>e
<1>7. ASSUME NEW r \in Runs, ReadOutputs(r), ~(Fatal(r) \/ LeavesBehind(r)) PROVE TypeOK'
  <2>1. /\ output' = [output EXCEPT ![r] = out] /\ pc' = [pc EXCEPT ![r] = "rmUnit"]
        /\ UNCHANGED <<host, history>>
    BY <1>7 DEF ReadOutputs
  <2>2. output' \in [Runs -> Seq(Runs)]
    BY <2>1
  <2>3. pc' \in [Runs -> {"idle"} \cup Steps \cup Over]
    BY <2>1
  <2> QED
    BY <2>1, <2>2, <2>3
<1>8. ASSUME NEW r \in Runs, RemoveSystemdUnit(r), ~(Fatal(r) \/ LeavesBehind(r)) PROVE TypeOK'
  <2>1. /\ unit' = NoRun /\ pc' = [pc EXCEPT ![r] = "rmOut"]
        /\ UNCHANGED <<output, loaded, service, svcFile, out, outExists, wrote, history>>
    BY <1>8 DEF RemoveSystemdUnit
  <2>2. pc' \in [Runs -> {"idle"} \cup Steps \cup Over]
    BY <2>1
  <2>3. {unit', loaded', service'} \subseteq Runs \cup {NoRun}
    BY <2>1
  <2> QED
    BY <2>1, <2>2, <2>3
<1>9. ASSUME NEW r \in Runs, RemoveOutput(r), ~(Fatal(r) \/ LeavesBehind(r)) PROVE TypeOK'
  <2>1. /\ out' = <<>> /\ outExists' = FALSE /\ svcFile' \in {"unlinked", svcFile}
        /\ pc' = [pc EXCEPT ![r] = "print"]
        /\ UNCHANGED <<output, unit, loaded, service, wrote, history>>
    BY <1>9 DEF RemoveOutput
  <2>2. pc' \in [Runs -> {"idle"} \cup Steps \cup Over]
    BY <2>1
  <2>3. out' \in Seq(Runs)
    BY <2>1
  <2>4. outExists' \in BOOLEAN
    BY <2>1
  <2> QED
    BY <2>1, <2>2, <2>3, <2>4
<1>10. ASSUME NEW r \in Runs, PrintOutput(r) PROVE TypeOK'
  BY <1>10 DEF PrintOutput
<1>11. CASE OpenOutput
  BY <1>11 DEF OpenOutput
<1>12. CASE WriteResults
  BY <1>12 DEF WriteResults, ServiceEnds
<1>13. CASE ServiceFails
  BY <1>13 DEF ServiceFails, ServiceEnds
<1>14. CASE Finished \/ UNCHANGED vars
  BY <1>14 DEF Finished, vars
<1> QED
  BY <1>e, <1>1, <1>2, <1>3, <1>4, <1>5, <1>6, <1>7, <1>8, <1>9, <1>10, <1>11, <1>12, <1>13, <1>14
     DEF Next, Invocation, Service

(* The file is opened and removed by the service and the invocation in turn. *)
LEMMA HostStep ==
    ASSUME TypeOK, HostInv, TurnInv, [Next]_vars, OneAfterTheOther'
    PROVE  HostInv'
<1> USE DEF TypeOK, Steps, Over, Goto, Fatal, LeavesBehind, host, history, Active, OneAfterTheOther,
            HostInv, TurnInv, Quiet
<1>1. ASSUME NEW r \in Runs, Begin(r) PROVE HostInv'
  BY <1>1 DEF Begin
<1>2. ASSUME NEW r \in Runs, CopyFile(r) PROVE HostInv'
  BY <1>2 DEF CopyFile
<1>3. ASSUME NEW r \in Runs, WriteSystemdUnit(r) PROVE HostInv'
  BY <1>3 DEF WriteSystemdUnit
<1>4. ASSUME NEW r \in Runs, Reload(r) PROVE HostInv'
  BY <1>4 DEF Reload
<1>5. ASSUME NEW r \in Runs, StartUnit(r) PROVE HostInv'
  BY <1>5 DEF StartUnit
<1>6. ASSUME NEW r \in Runs, WaitTimeout(r) \/ Killed(r) PROVE HostInv'
  BY <1>6 DEF WaitTimeout, Killed
<1>7. ASSUME NEW r \in Runs, ReadOutputs(r) PROVE HostInv'
  BY <1>7 DEF ReadOutputs
<1>8. ASSUME NEW r \in Runs, RemoveSystemdUnit(r) PROVE HostInv'
  BY <1>8 DEF RemoveSystemdUnit
<1>9. ASSUME NEW r \in Runs, RemoveOutput(r) PROVE HostInv'
  BY <1>9 DEF RemoveOutput
<1>10. ASSUME NEW r \in Runs, PrintOutput(r) PROVE HostInv'
  BY <1>10 DEF PrintOutput
<1>11. CASE OpenOutput
  BY <1>11 DEF OpenOutput
<1>12. CASE WriteResults
  BY <1>12 DEF WriteResults, ServiceEnds
<1>13. CASE ServiceFails
  BY <1>13 DEF ServiceFails, ServiceEnds
<1>14. CASE Finished \/ UNCHANGED vars
  BY <1>14 DEF Finished, vars
<1> QED
  BY <1>1, <1>2, <1>3, <1>4, <1>5, <1>6, <1>7, <1>8, <1>9, <1>10, <1>11, <1>12, <1>13, <1>14
     DEF Next, Invocation, Service

(* Nobody else comes in between the steps of an invocation. *)
LEMMA TurnStep ==
    ASSUME TypeOK, HostInv, TurnInv, [Next]_vars, OneAfterTheOther'
    PROVE  TurnInv'
<1> USE DEF TypeOK, Steps, Over, Goto, Fatal, LeavesBehind, host, history, Active, OneAfterTheOther,
            HostInv, TurnInv, OwnsUnit, IsLoaded, Quiet, NotStarted, HasRead
<1>1. ASSUME NEW r \in Runs, Begin(r) PROVE TurnInv'
  BY <1>1, MaxOverlapsAssumption DEF Begin
<1>2. ASSUME NEW r \in Runs, CopyFile(r) PROVE TurnInv'
  <2>1. CASE service = NoRun
    BY <1>2, <2>1 DEF CopyFile
  <2>2. CASE service # NoRun
    BY <1>2, <2>2 DEF CopyFile
  <2> QED
    BY <2>1, <2>2
<1>3. ASSUME NEW r \in Runs, WriteSystemdUnit(r) PROVE TurnInv'
  BY <1>3 DEF WriteSystemdUnit
<1>4. ASSUME NEW r \in Runs, Reload(r) PROVE TurnInv'
  BY <1>4 DEF Reload
<1>5. ASSUME NEW r \in Runs, StartUnit(r) PROVE TurnInv'
  <2>1. service = NoRun /\ loaded = r /\ unit = r /\ r # NoRun
    BY <1>5, NoRunAssumption DEF StartUnit
  <2>2. CASE Fatal(r)
    BY <1>5, <2>2 DEF StartUnit
  <2>3. CASE ~Fatal(r)
    <3>1. /\ service' = r /\ pc' = [pc EXCEPT ![r] = "wait"]
          /\ UNCHANGED <<output, unit, loaded, out, outExists, wrote, history>>
      BY <1>5, <2>1, <2>3 DEF StartUnit
    <3> QED
      BY <1>5, <2>1, <3>1 DEF StartUnit
  <2> QED
    BY <2>2, <2>3
<1>6. ASSUME NEW r \in Runs, WaitTimeout(r) \/ Killed(r) PROVE TurnInv'
  BY <1>6 DEF WaitTimeout, Killed
<1>7. ASSUME NEW r \in Runs, ReadOutputs(r) PROVE TurnInv'
  <2>1. pc' = [pc EXCEPT ![r] = "rmUnit"] \/ pc' = [pc EXCEPT ![r] = "fatal"]
    BY <1>7 DEF ReadOutputs
  <2>2. pc[r] = "read" /\ UNCHANGED host
    BY <1>7 DEF ReadOutputs
  <2>3. \A t \in Runs : Active(t)' => Active(t)
    BY <2>1, <2>2
  <2>4. \A q, t \in Runs : Active(q)' /\ Active(t)' => q = t
    BY <2>3
  <2>5. CASE pc' = [pc EXCEPT ![r] = "rmUnit"]
    BY <2>2, <2>4, <2>5, NoRunAssumption
  <2>6. CASE pc' = [pc EXCEPT ![r] = "fatal"]
    BY <2>2, <2>4, <2>6
  <2> QED
    BY <2>1, <2>5, <2>6
<1>8. ASSUME NEW r \in Runs, RemoveSystemdUnit(r) PROVE TurnInv'
  BY <1>8 DEF RemoveSystemdUnit
<1>9. ASSUME NEW r \in Runs, RemoveOutput(r) PROVE TurnInv'
  BY <1>9 DEF RemoveOutput
<1>10. ASSUME NEW r \in Runs, PrintOutput(r) PROVE TurnInv'
  BY <1>10 DEF PrintOutput
<1>11. CASE OpenOutput
  BY <1>11 DEF OpenOutput
<1>12. CASE WriteResults
  <2>1. \A t \in Runs : pc'[t] = pc[t] \/ (pc[t] = "wait" /\ pc'[t] = "read")
    BY <1>12 DEF WriteResults, ServiceEnds
  <2>2. service' = NoRun /\ UNCHANGED <<unit, loaded, outExists>>
    BY <1>12 DEF WriteResults, ServiceEnds
  <2>3. \A t \in Runs : Active(t)' <=> Active(t)
    BY <2>1
  <2>4. \A q, t \in Runs : Active(q)' /\ Active(t)' => q = t
    BY <2>3
  <2> QED
    BY <2>1, <2>2, <2>4, NoRunAssumption
<1>13. CASE ServiceFails
  <2>1. \A t \in Runs : pc'[t] = pc[t] \/ (pc[t] = "wait" /\ pc'[t] = "read")
    BY <1>13 DEF ServiceFails, ServiceEnds
  <2>2. service' = NoRun /\ UNCHANGED <<unit, loaded, outExists>>
    BY <1>13 DEF ServiceFails, ServiceEnds
  <2>3. \A t \in Runs : Active(t)' <=> Active(t)
    BY <2>1
  <2>4. \A q, t \in Runs : Active(q)' /\ Active(t)' => q = t
    BY <2>3
  <2> QED
    BY <2>1, <2>2, <2>4, NoRunAssumption
<1>14. CASE Finished \/ UNCHANGED vars
  BY <1>14 DEF Finished, vars
<1> QED
  BY <1>1, <1>2, <1>3, <1>4, <1>5, <1>6, <1>7, <1>8, <1>9, <1>10, <1>11, <1>12, <1>13, <1>14
     DEF Next, Invocation, Service

LEMMA LastOfAppend ==
    ASSUME NEW S, NEW q \in Seq(S), NEW e \in S
    PROVE  Append(q, e) # <<>> /\ Last(Append(q, e)) = e
<1>1. Len(Append(q, e)) = Len(q) + 1 /\ Append(q, e)[Len(q) + 1] = e /\ Len(q) \in Nat
  OBVIOUS
<1>2. Len(<<>>) = 0
  OBVIOUS
<1>3. Append(q, e) # <<>>
  BY <1>1, <1>2
<1> QED
  BY <1>1, <1>3 DEF Last

LEMMA ElementsOfAppend ==
    ASSUME NEW S, NEW q \in Seq(S), NEW e \in S
    PROVE  \A i \in DOMAIN Append(q, e) :
             Append(q, e)[i] = e \/ (i \in DOMAIN q /\ Append(q, e)[i] = q[i])
<1>1. Len(q) \in Nat /\ DOMAIN q = 1..Len(q) /\ DOMAIN Append(q, e) = 1..(Len(q) + 1)
  OBVIOUS
<1>2. \A i \in 1..Len(q) : Append(q, e)[i] = q[i]
  OBVIOUS
<1>3. Append(q, e)[Len(q) + 1] = e
  OBVIOUS
<1>4. ASSUME NEW i \in DOMAIN Append(q, e)
      PROVE  Append(q, e)[i] = e \/ (i \in DOMAIN q /\ Append(q, e)[i] = q[i])
  <2>1. CASE i \in 1..Len(q)
    BY <1>1, <1>2, <2>1
  <2>2. CASE i = Len(q) + 1
    BY <1>3, <2>2
  <2> QED
    BY <1>1, <2>1, <2>2
<1> QED
  BY <1>4, Zenon

(* What an invocation reads ends with the document of its own service. *)
LEMMA LastStep ==
    ASSUME TypeOK, TurnInv, HostInv, LastInv, [Next]_vars, OneAfterTheOther'
    PROVE  LastInv'
<1> USE DEF TypeOK, Steps, Over, Goto, Fatal, LeavesBehind, host, history, Active, OneAfterTheOther,
            HostInv, TurnInv, LastInv, IsLoaded, Quiet, NotStarted, HasRead
<1>1. ASSUME NEW r \in Runs, Begin(r) PROVE LastInv'
  BY <1>1 DEF Begin
<1>2. ASSUME NEW r \in Runs, CopyFile(r) PROVE LastInv'
  BY <1>2 DEF CopyFile
<1>3. ASSUME NEW r \in Runs, WriteSystemdUnit(r) PROVE LastInv'
  BY <1>3 DEF WriteSystemdUnit
<1>4. ASSUME NEW r \in Runs, Reload(r) PROVE LastInv'
  BY <1>4 DEF Reload
<1>5. ASSUME NEW r \in Runs, StartUnit(r) PROVE LastInv'
  BY <1>5 DEF StartUnit
<1>6. ASSUME NEW r \in Runs, WaitTimeout(r) \/ Killed(r) PROVE LastInv'
  BY <1>6 DEF WaitTimeout, Killed
<1>7. ASSUME NEW r \in Runs, ReadOutputs(r) PROVE LastInv'
  BY <1>7 DEF ReadOutputs
<1>8. ASSUME NEW r \in Runs, RemoveSystemdUnit(r) PROVE LastInv'
  BY <1>8 DEF RemoveSystemdUnit
<1>9. ASSUME NEW r \in Runs, RemoveOutput(r) PROVE LastInv'
  BY <1>9 DEF RemoveOutput
<1>10. ASSUME NEW r \in Runs, PrintOutput(r) PROVE LastInv'
  BY <1>10 DEF PrintOutput
<1>11. CASE OpenOutput
  BY <1>11 DEF OpenOutput
<1>12. CASE WriteResults
  <2> DEFINE s == service
  <2>1. /\ s \in Runs /\ out' = Append(out, s) /\ wrote' = wrote \cup {s}
        /\ UNCHANGED <<output, history>>
    BY <1>12 DEF WriteResults, ServiceEnds
  <2>2. \A t \in Runs : pc'[t] = pc[t] \/ (pc[t] = "wait" /\ pc'[t] = "read")
    BY <1>12 DEF WriteResults, ServiceEnds
  <2>3. \A t \in Runs : pc[t] \in {"wait", "read"} => t = s
    BY <1>12, <2>1, NoRunAssumption DEF WriteResults
  <2>4. out' # <<>> /\ Last(out') = s
    <3>1. out \in Seq(Runs) /\ s \in Runs
      BY <2>1
    <3>2. Append(out, s) # <<>> /\ Last(Append(out, s)) = s
      <4> HIDE DEF TypeOK, TurnInv, HostInv, LastInv, s
      <4> QED
        BY ONLY <3>1, LastOfAppend
    <3>3. out' = Append(out, s)
      BY <2>1
    <3> QED
      BY <3>2, <3>3
  <2>5. pc[s] \notin NotStarted \cup HasRead
    BY <2>1
  <2> HIDE DEF s
  <2> QED
    BY <2>1, <2>2, <2>3, <2>4, <2>5
<1>13. CASE ServiceFails
  BY <1>13 DEF ServiceFails, ServiceEnds
<1>14. CASE Finished \/ UNCHANGED vars
  BY <1>14 DEF Finished, vars
<1> QED
  BY <1>1, <1>2, <1>3, <1>4, <1>5, <1>6, <1>7, <1>8, <1>9, <1>10, <1>11, <1>12, <1>13, <1>14
     DEF Next, Invocation, Service

(* A document comes into the file from a service that somebody answers for, and
   leaves it before that invocation is done. *)
LEMMA StaleStep ==
    ASSUME TypeOK, TurnInv, HostInv, StaleInv, [Next]_vars, OneAfterTheOther'
    PROVE  StaleInv'
<1> USE DEF TypeOK, Steps, Over, Goto, Fatal, LeavesBehind, host, history, Active, OneAfterTheOther,
            HostInv, TurnInv, StaleInv, Answers, OwnsUnit, IsLoaded, Quiet, NotStarted, HasRead
<1>o. \A i \in DOMAIN out : out[i] \in Runs
  OBVIOUS
<1>e. ASSUME NEW r \in Runs, LeavesBehind(r), pc[r] \in Steps PROVE StaleInv'
  <2>1. \A t \in Runs : pc[t] \in Answers => pc'[t] \in Answers \/ t \in uncleaned'
    BY <1>e
  <2>2. uncleaned \subseteq uncleaned' /\ uncleaned' # {}
    BY <1>e
  <2>3. service # NoRun => service \in uncleaned' \/ pc'[service] = "wait"
    BY <1>e
  <2> QED
    BY <1>e, <1>o, <2>1, <2>2, <2>3
<1>f. ASSUME NEW r \in Runs, Fatal(r), pc[r] \in Steps \ Answers PROVE StaleInv'
  <2>1. \A t \in Runs : pc[t] \in Answers => pc'[t] = pc[t]
    BY <1>f
  <2> QED
    BY <1>f, <1>o, <2>1
<1>g. ASSUME NEW r \in Runs, Fatal(r), pc[r] \in {"read", "rmUnit", "rmOut"}, ~outExists PROVE StaleInv'
  <2>1. out = <<>>
    BY <1>g
  <2>2. service # NoRun => service # r
    BY <1>g
  <2> QED
    BY <1>g, <2>1, <2>2
<1>1. ASSUME NEW r \in Runs, Begin(r) PROVE StaleInv'
  <2>1. \A t \in Runs : pc[t] \in Answers => pc'[t] = pc[t]
    BY <1>1 DEF Begin
  <2> QED
    BY <1>1, <1>o, <2>1 DEF Begin
<1>2. ASSUME NEW r \in Runs, CopyFile(r), ~Fatal(r) PROVE StaleInv'
  <2>1. pc' = [pc EXCEPT ![r] = "unit"] /\ pc[r] \notin Answers
        /\ UNCHANGED <<output, host, history>>
    BY <1>2 DEF CopyFile
  <2>2. \A t \in Runs : pc[t] \in Answers => pc'[t] = pc[t]
    BY <2>1
  <2> QED
    BY <1>o, <2>1, <2>2
<1>3. ASSUME NEW r \in Runs, WriteSystemdUnit(r), ~Fatal(r) PROVE StaleInv'
  <2>1. pc' = [pc EXCEPT ![r] = "reload"] /\ pc[r] \notin Answers
        /\ UNCHANGED <<output, loaded, service, svcFile, out, outExists, wrote, history>>
    BY <1>3 DEF WriteSystemdUnit
  <2>2. \A t \in Runs : pc[t] \in Answers => pc'[t] = pc[t]
    BY <2>1
  <2> QED
    BY <1>o, <2>1, <2>2
<1>4. ASSUME NEW r \in Runs, Reload(r), ~Fatal(r) PROVE StaleInv'
  <2>1. pc' = [pc EXCEPT ![r] = "start"] /\ pc[r] \notin Answers
        /\ UNCHANGED <<output, unit, service, svcFile, out, outExists, wrote, history>>
    BY <1>4 DEF Reload
  <2>2. \A t \in Runs : pc[t] \in Answers => pc'[t] = pc[t]
    BY <2>1
  <2> QED
    BY <1>o, <2>1, <2>2
<1>5. ASSUME NEW r \in Runs, StartUnit(r), ~Fatal(r) PROVE StaleInv'
  <2>1. /\ loaded = r /\ r # NoRun /\ service' = r /\ pc' = [pc EXCEPT ![r] = "wait"]
        /\ UNCHANGED <<output, unit, loaded, out, outExists, wrote, history>>
    BY <1>5, NoRunAssumption DEF StartUnit
  <2>2. \A t \in Runs : pc[t] \in Answers => pc'[t] \in Answers
    BY <2>1
  <2>3. pc'[r] = "wait"
    BY <2>1
  <2> QED
    BY <1>o, <2>1, <2>2, <2>3
<1>7. ASSUME NEW r \in Runs, ReadOutputs(r), ~(Fatal(r) \/ LeavesBehind(r)) PROVE StaleInv'
  <2>1. /\ output' = [output EXCEPT ![r] = out] /\ pc' = [pc EXCEPT ![r] = "rmUnit"]
        /\ UNCHANGED <<host, history>> /\ pc[r] = "read"
    BY <1>7 DEF ReadOutputs
  <2>2. \A t \in Runs : pc[t] \in Answers => t = r /\ pc'[t] \in Answers
    BY <2>1
  <2>3. \A i \in DOMAIN out : out[i] \in {r} \cup uncleaned
    BY <1>o, <2>2
  <2>4. \A t \in Runs : \A i \in DOMAIN output'[t] : output'[t][i] \in {t} \cup uncleaned
    BY <2>1, <2>3
  <2>5. service # NoRun => service \in uncleaned
    BY <2>1
  <2> QED
    BY <1>o, <2>1, <2>2, <2>4, <2>5
<1>8. ASSUME NEW r \in Runs, RemoveSystemdUnit(r), ~(Fatal(r) \/ LeavesBehind(r)) PROVE StaleInv'
  <2>1. /\ pc' = [pc EXCEPT ![r] = "rmOut"] /\ pc[r] = "rmUnit"
        /\ UNCHANGED <<output, loaded, service, svcFile, out, outExists, wrote, history>>
    BY <1>8 DEF RemoveSystemdUnit
  <2>2. \A t \in Runs : pc[t] \in Answers => pc'[t] \in Answers
    BY <2>1
  <2> QED
    BY <1>o, <2>1, <2>2
<1>9. ASSUME NEW r \in Runs, RemoveOutput(r), ~(Fatal(r) \/ LeavesBehind(r)) PROVE StaleInv'
  <2>1. /\ pc' = [pc EXCEPT ![r] = "print"] /\ pc[r] = "rmOut"
        /\ out' = <<>> /\ ~outExists'
        /\ UNCHANGED <<output, unit, loaded, service, wrote, history>>
    BY <1>9 DEF RemoveOutput
  <2> QED
    BY <2>1
<1>10. ASSUME NEW r \in Runs, PrintOutput(r) PROVE StaleInv'
  <2>1. \A t \in Runs : pc[t] \in Answers => pc'[t] = pc[t]
    BY <1>10 DEF PrintOutput
  <2> QED
    BY <1>10, <1>o, <2>1 DEF PrintOutput
<1>11. CASE OpenOutput
  <2>1. uncleaned # {} \/ \E t \in Runs : pc[t] \in Answers
    BY <1>11 DEF OpenOutput
  <2> QED
    BY <1>11, <2>1 DEF OpenOutput
<1>s. ASSUME WriteResults \/ ServiceFails
      PROVE  /\ service' = NoRun /\ UNCHANGED <<output, history, outExists>>
             /\ \A t \in Runs : pc[t] \in Answers => pc'[t] \in Answers
  BY <1>s DEF WriteResults, ServiceFails, ServiceEnds
<1>12. CASE WriteResults
  <2>1. service \in Runs /\ (out' = out \/ out' = Append(out, service))
    BY <1>12 DEF WriteResults
  <2>2. \A i \in DOMAIN out' : out'[i] = service \/ (i \in DOMAIN out /\ out'[i] = out[i])
    <3>1. service \in Runs /\ out \in Seq(Runs)
      BY <2>1
    <3>2. \A i \in DOMAIN Append(out, service) :
            Append(out, service)[i] = service \/ (i \in DOMAIN out /\ Append(out, service)[i] = out[i])
      BY ONLY <3>1, ElementsOfAppend
    <3> QED
      BY <2>1, <3>2
  <2>3. service \in uncleaned \/ pc[service] \in Answers
    BY <1>12 DEF WriteResults
  <2>4. \A i \in DOMAIN out' : out'[i] \in uncleaned' \/ pc'[out'[i]] \in Answers
    BY <1>o, <1>s, <1>12, <2>1, <2>2, <2>3
  <2> QED
    BY <1>s, <1>12, <2>4
<1>13. CASE ServiceFails
  <2>1. UNCHANGED out
    BY <1>13 DEF ServiceFails
  <2> QED
    BY <1>o, <1>s, <1>13, <2>1
<1>14. CASE Finished \/ UNCHANGED vars
  BY <1>14 DEF Finished, vars
<1>15. ASSUME NEW r \in Runs, Invocation(r) \/ Killed(r) PROVE StaleInv'
  <2>1. CASE Fatal(r) /\ ~LeavesBehind(r)
    <3>1. pc'[r] = "fatal" /\ pc[r] \in {"idle"} \cup Steps
      BY <1>15, <2>1 DEF Invocation, Begin, CopyFile, WriteSystemdUnit, Reload, StartUnit, WaitTimeout,
         ReadOutputs, RemoveSystemdUnit, RemoveOutput, PrintOutput, Killed
    <3>2. ~Begin(r) /\ ~PrintOutput(r) /\ ~WaitTimeout(r) /\ ~Killed(r)
      BY <2>1, <3>1 DEF Begin, PrintOutput, WaitTimeout, Killed
    <3>3. CASE CopyFile(r) \/ WriteSystemdUnit(r) \/ Reload(r) \/ StartUnit(r)
      <4>1. pc[r] \in Steps \ Answers
        BY <3>3 DEF CopyFile, WriteSystemdUnit, Reload, StartUnit
      <4> QED
        BY <2>1, <4>1, <1>f
    <3>4. CASE ReadOutputs(r) \/ RemoveSystemdUnit(r) \/ RemoveOutput(r)
      <4>1. pc[r] \in {"read", "rmUnit", "rmOut"}
        BY <3>4 DEF ReadOutputs, RemoveSystemdUnit, RemoveOutput
      <4>2. ~outExists
        <5>1. ~ReadOutputs(r) \/ ~outExists
          BY <2>1, <3>1 DEF ReadOutputs
        <5>2. ~RemoveSystemdUnit(r) \/ ~outExists
          BY <2>1, <3>1 DEF RemoveSystemdUnit
        <5>3. ~RemoveOutput(r) \/ ~outExists
          BY <2>1, <3>1 DEF RemoveOutput
        <5> QED
          BY <3>4, <5>1, <5>2, <5>3
      <4> QED
        BY <2>1, <4>1, <4>2, <1>g
    <3> QED
      BY <1>15, <3>2, <3>3, <3>4 DEF Invocation
  <2>2. CASE LeavesBehind(r)
    <3>1. pc[r] \in Steps
      BY <1>15, <2>2 DEF Invocation, Begin, CopyFile, WriteSystemdUnit, Reload, StartUnit, WaitTimeout,
         ReadOutputs, RemoveSystemdUnit, RemoveOutput, PrintOutput, Killed
    <3> QED
      BY <2>2, <3>1, <1>e
  <2>3. CASE ~(Fatal(r) \/ LeavesBehind(r))
    <3>1. ~WaitTimeout(r) /\ ~Killed(r)
      BY <2>3 DEF WaitTimeout, Killed
    <3> QED
      BY <1>15, <2>3, <3>1, <1>1, <1>2, <1>3, <1>4, <1>5, <1>7, <1>8, <1>9, <1>10 DEF Invocation
  <2> QED
    BY <2>1, <2>2, <2>3
<1> QED
  BY <1>11, <1>12, <1>13, <1>14, <1>15 DEF Next, Service
-----------------------------------------------------------------------------
(* Overlaps are counted and never forgotten. *)
LEMMA OverlapStep ==
    ASSUME TypeOK, [Next]_vars, OneAfterTheOther'
    PROVE  OneAfterTheOther
<1>1. \/ overlaps' = overlaps + 1
      \/ overlaps' = overlaps
  BY DEF Next, Invocation, Service, Finished, Killed, Begin, CopyFile, WriteSystemdUnit, Reload,
         StartUnit, WaitTimeout, ReadOutputs, RemoveSystemdUnit, RemoveOutput, PrintOutput,
         OpenOutput, WriteResults, ServiceFails, ServiceEnds, Goto, Fatal, LeavesBehind, host, history, vars
<1> QED
  BY <1>1, MaxOverlapsAssumption DEF TypeOK, OneAfterTheOther

LEMMA HostInductive == IInv /\ [Next]_vars => IInv'
<1> SUFFICES ASSUME IInv, [Next]_vars PROVE IInv'
  OBVIOUS
<1>1. TypeOK /\ TypeOK'
  BY TypeStep DEF IInv
<1>2. ASSUME OneAfterTheOther' PROVE Inv'
  <2>1. Inv
    BY <1>1, <1>2, OverlapStep DEF IInv
  <2> QED
    BY <1>1, <1>2, <2>1, HostStep, TurnStep, LastStep, StaleStep DEF Inv
<1> QED
  BY <1>1, <1>2 DEF IInv

LEMMA HostInvariant == Spec => []IInv
BY HostInit, HostInductive, PTL DEF Spec

(* Every variable of the host and its invocations keeps its type. *)
THEOREM TypeOKHolds == Spec => []TypeOK
<1>1. IInv => TypeOK
  BY DEF IInv
<1> QED
  BY <1>1, HostInvariant, PTL

(* cmd/run-as-host/main.go: without overlap, every document that an invocation
   prints besides its own was left by one that was killed, gave up its wait, or
   could not read or remove its files. *)
THEOREM OnlyLeftOversAreStaleHolds == Spec => []OnlyLeftOversAreStale
<1>1. IInv => OnlyLeftOversAreStale
  BY DEF IInv, Inv, StaleInv, OnlyLeftOversAreStale, ToSet
<1> QED
  BY <1>1, HostInvariant, PTL

(* RemoveSystemdUnit, RemoveOutput: an invocation that comes to print has cleaned
   the host, after any number of interrupted or failed ones. *)
THEOREM SuccessCleansHolds == Spec => []SuccessCleans
<1>1. IInv => SuccessCleans
  BY DEF IInv, Inv, TurnInv, Quiet, SuccessCleans
<1> QED
  BY <1>1, HostInvariant, PTL

(* O_APPEND: what earlier invocations left in the file comes before the document
   of this one, which is therefore the last it prints. *)
THEOREM LastIsOwnHolds == Spec => []LastIsOwn
<1>1. IInv => LastIsOwn
  BY DEF IInv, Inv, LastInv, HasRead, LastIsOwn
<1> QED
  BY <1>1, HostInvariant, PTL

(* Between invocations that do not overlap there is no output file, and no service
   to write one, unless one of them was killed, gave up its wait, or could not
   read or remove its files: a failed service or an error before the start leaves
   nothing. *)
THEOREM LeavesNoOutputHolds == Spec => []LeavesNoOutput
<1>1. IInv => LeavesNoOutput
  BY DEF IInv, Inv, StaleInv, Answers, Active, Steps, LeavesNoOutput, TypeOK
<1> QED
  BY <1>1, HostInvariant, PTL
=============================================================================
