---------------------------- MODULE PodTaskProofs ----------------------------
(***************************************************************************)
(* executeTask is in time: for every polling interval, timeout, TTL and    *)
(* latency that satisfy TtlAssumption it ends within MaxDuration, and it   *)
(* reads the log of a job that completes before the TTL controller removes *)
(* it. The argument is one table: how far behind the end of the    *)
(* job the deadline of each step can be.                                   *)
(***************************************************************************)
EXTENDS PodTask, TLAPS

(* The clock stays within the step, and no step is longer than it should be. *)
StepLength == [s \in Steps |-> IF s = "sleep" THEN Poll + Latency ELSE Latency]
ClockInv == pc \in Steps => now <= due /\ due <= now + StepLength[pc]

(* The deadline of each step, counted from the beginning. *)
DueInv ==
    /\ start <= 2 * Latency
    /\ pc = "create"  => due <= Latency
    /\ pc = "created" => due <= 2 * Latency
    /\ pc = "sleep"   => due <= Timeout + Poll + 3 * Latency
    /\ pc = "get"     => due <= Timeout + Poll + 4 * Latency
    /\ pc = "got"     => due <= Timeout + Poll + 5 * Latency
    /\ pc = "list"    => due <= Timeout + Poll + 6 * Latency
    /\ pc = "logs"    => due <= Timeout + Poll + 7 * Latency
    /\ pc = "decode"  => due <= Timeout + Poll + 8 * Latency
    /\ pc \in Ended   => now <= MaxDuration

(* The deadline of each step, counted from the completion of the job. *)
LagInv ==
    job = "complete" =>
        /\ pc = "created" => due <= endedAt + Latency
        /\ pc = "sleep"   => due <= endedAt + Poll + 2 * Latency
        /\ pc = "get"     => due <= endedAt + Poll + 3 * Latency
        /\ pc = "got" /\ seen # "complete" => due <= endedAt + Latency
        /\ pc = "got"     => due <= endedAt + Poll + 4 * Latency
        /\ pc = "list"    => due <= endedAt + Poll + 5 * Latency
        /\ pc = "logs"    => due <= endedAt + Poll + 6 * Latency
        /\ pc = "decode"  => due <= endedAt + Poll + 7 * Latency

(* What executeTask knows of the job is true of it. *)
JobInv ==
    /\ pc = "create" => job = "none"
    /\ pc \in Steps \ {"create"} => job # "none"
    /\ pc \in Steps => result = "none"
    /\ job = "none" => ~present
    /\ job = "active" => present
    /\ job = "complete" /\ pc \in Steps => present
    /\ pc = "got" /\ seen = "complete" => job = "complete"
    /\ pc = "got" /\ seen = "missing" => job = "failed"
    /\ pc \in {"list", "logs", "decode"} => job = "complete"
    /\ result = "results" => job = "complete" /\ log # "empty"
    /\ job = "complete" <=> log \in {"own", "other", "empty"}
    /\ log = "own" => ran
    /\ log # "none" /\ mode = "container" => log = "own"

(* How executeTask can end when nothing fails. *)
ReliableInv ==
    Reliable =>
        /\ job = "complete" /\ present => pod = "finished"
        /\ pc # "panicked"
        /\ pc = "done" =>
             \/ result = "results"
             \/ result = "decodeErr" /\ log = "empty" /\ job = "complete"
             \/ result = "getErr" /\ job = "failed"
             \/ /\ result = "timeout" /\ now >= start + Timeout
                /\ job # "none"
                /\ job = "complete" => endedAt + Latency >= start + Timeout

IInv == TypeOK /\ ClockInv /\ DueInv /\ LagInv /\ JobInv /\ ReliableInv

LEMMA TaskInit == Init => IInv
<1> SUFFICES ASSUME Init PROVE IInv
  OBVIOUS
<1> USE DurationsAssumption DEF Init
<1>1. present = FALSE /\ present \in BOOLEAN /\ ran = FALSE /\ ran \in BOOLEAN
  BY Zenon
<1>2. TypeOK
  BY <1>1 DEF TypeOK, Steps, Ended
<1>3. ClockInv /\ DueInv /\ LagInv
  BY DEF ClockInv, DueInv, LagInv, StepLength, Steps, Ended
<1>4. JobInv /\ ReliableInv
  BY <1>1 DEF JobInv, ReliableInv, Reliable, Steps
<1> QED
  BY <1>2, <1>3, <1>4 DEF IInv

LEMMA TaskStep == IInv /\ [Next]_vars => IInv'
<1> SUFFICES ASSUME IInv, [Next]_vars PROVE IInv'
  OBVIOUS
<1> USE DurationsAssumption, TtlAssumption
    DEF IInv, TypeOK, ClockInv, DueInv, LagInv, JobInv, ReliableInv, StepLength, Steps, Ended,
        MaxDuration, Reliable, Enter, Return, Sleep, clusterVars, clientVars, podVars
<1>1. CASE CreateJob
  BY <1>1 DEF CreateJob
<1>2. CASE CreateFails
  BY <1>2 DEF CreateFails
<1>3. CASE StartWait
  BY <1>3 DEF StartWait
<1>4. CASE WakeUp
  BY <1>4 DEF WakeUp
<1>5. CASE GetJob
  BY <1>5 DEF GetJob
<1>6. CASE GetFails
  BY <1>6 DEF GetFails
<1>7. CASE JobIsComplete
  BY <1>7 DEF JobIsComplete, IsJobCompleted
<1>8. CASE GiveUp
  BY <1>8 DEF GiveUp, IsJobCompleted, TimedOut
<1>9. CASE PollAgain
  BY <1>9 DEF PollAgain, IsJobCompleted, TimedOut
<1>10. CASE ListPods
  BY <1>10 DEF ListPods
<1>11. CASE ListFails
  BY <1>11 DEF ListFails
<1>12. CASE StreamLogs
  BY <1>12 DEF StreamLogs
<1>13. CASE StreamFails
  BY <1>13 DEF StreamFails
<1>14. CASE Decode
  BY <1>14 DEF Decode
<1>15. CASE PodStarts
  BY <1>15 DEF PodStarts
<1>16. CASE JobCompletes
  <2>1. /\ job = "active" /\ pod = "running" /\ job' = "complete" /\ endedAt' = now
        /\ pod' = "finished" /\ UNCHANGED <<now, clientVars, present, mode, fault>>
    BY <1>16 DEF JobCompletes
  <2>2. ran' \in BOOLEAN /\ log' \in {"own", "other", "empty"}
    BY <1>16 DEF JobCompletes, HostLog
  <2>3. log' = "own" => ran'
    BY <1>16 DEF JobCompletes, HostLog
  <2>4. mode = "container" => log' = "own"
    BY <1>16 DEF JobCompletes
  <2>5. pc \in Steps \cup Ended /\ pc # "create"
    BY <2>1
  <2> QED
    BY <2>1, <2>2, <2>3, <2>4, <2>5
<1>17. CASE JobFails
  BY <1>17 DEF JobFails
<1>18. CASE JobExpires
  <2>1. present' \in BOOLEAN /\ ~present'
    BY <1>18, Zenon DEF JobExpires
  <2>2. UNCHANGED <<now, clientVars, job, endedAt, pod, podVars, fault>> /\ job \in {"complete", "failed"}
    BY <1>18 DEF JobExpires
  <2>3. job = "complete" => pc \notin Steps
    BY <1>18 DEF JobExpires
  <2> QED
    BY <2>1, <2>2, <2>3
<1>19. CASE PodIsCollected
  BY <1>19 DEF PodIsCollected
<1>20. CASE Tick
  BY <1>20 DEF Tick
<1>22. CASE KdebugEnds
  <2>1. ran' = TRUE /\ UNCHANGED <<now, clientVars, job, present, endedAt, pod, mode, log, fault>>
    BY <1>22 DEF KdebugEnds
  <2> QED
    BY <2>1
<1>21. CASE UNCHANGED vars
  BY <1>21 DEF vars
<1> QED
  BY <1>1, <1>2, <1>3, <1>4, <1>5, <1>6, <1>7, <1>8, <1>9, <1>10, <1>11, <1>12, <1>13, <1>14,
     <1>15, <1>16, <1>17, <1>18, <1>19, <1>20, <1>21, <1>22
     DEF Next, Client, Cluster, Finished

(* IInv holds throughout. *)
LEMMA TaskInvariant == Spec => []IInv
BY TaskInit, TaskStep, PTL DEF Spec

(* Every variable of executeTask and of the cluster keeps its type. *)
THEOREM TypeOKHolds == Spec => []TypeOK
<1>1. IInv => TypeOK
  BY DEF IInv
<1> QED
  BY TaskInvariant, <1>1, PTL

(* executeTask keeps a worker no longer than MaxDuration, whatever happens to
   the job, its pod and the calls. *)
THEOREM BoundedWaitHolds == Spec => []BoundedWait
<1>1. IInv => BoundedWait
  BY DurationsAssumption DEF IInv, TypeOK, ClockInv, DueInv, BoundedWait, MaxDuration, Steps
<1> QED
  BY TaskInvariant, <1>1, PTL

(* Without faults the log of a job that completes in time is read, and what it holds
   is returned: neither the TTL controller nor the timeout of executeTask is
   faster, and an error is left only when host mode has left the log empty. *)
THEOREM CompletedJobIsReadHolds == Spec => []CompletedJobIsRead
<1>1. IInv => CompletedJobIsRead
  BY DurationsAssumption DEF IInv, TypeOK, JobInv, ReliableInv, CompletedJobIsRead
<1> QED
  BY TaskInvariant, <1>1, PTL

(* What executeTask reports as results comes from a job that completed, and in
   container mode from a kdebug of this task that ran to its end. *)
THEOREM ResultsAreFromCompletedJobHolds == Spec => []ResultsAreFromCompletedJob
<1>1. IInv => ResultsAreFromCompletedJob
  BY DEF IInv, JobInv, ResultsAreFromCompletedJob
<1> QED
  BY TaskInvariant, <1>1, PTL

(* Every step of executeTask and of the cluster is a step of the task that the
   worker knows, or none at all: its result is returned once, and check results
   only of a kdebug that has written them: the one of this task in container mode,
   this or another batch's on the same machine in host mode. *)
THEOREM RefinesTaskHolds == Spec => RefinesTask
<1>1. Init => Task!Init
  BY Zenon DEF Init, Task!Init, TaskState, SomeKdebugRan
<1>2. IInv /\ IInv' /\ [Next]_vars => [Task!Next]_(Task!vars)
  <2> SUFFICES ASSUME IInv, IInv', [Next]_vars PROVE [Task!Next]_(Task!vars)
    OBVIOUS
  <2> USE DEF TaskState, Task!Next, Task!RunEnds, Task!ReturnResults, Task!ReturnError, Task!Panic, Task!vars
  <2>1. CASE JobCompletes \/ KdebugEnds
    <3>1. UNCHANGED TaskState
      BY <2>1 DEF JobCompletes, KdebugEnds, clientVars
    <3>2. SomeKdebugRan' \in {SomeKdebugRan, TRUE}
      <4>1. ran' = TRUE \/ (UNCHANGED ran /\ log' \in {"own", "other", "empty"} /\ log = "none")
        <5>1. log = "none" \/ ~JobCompletes
          BY DEF JobCompletes, IInv, JobInv, TypeOK
        <5>2. JobCompletes => ran' = TRUE \/ (UNCHANGED ran /\ log' \in {"own", "other", "empty"})
          BY DEF JobCompletes, HostLog
        <5>3. KdebugEnds => ran' = TRUE
          BY DEF KdebugEnds
        <5> QED
          BY <2>1, <5>1, <5>2, <5>3
      <4>2. CASE ran' = TRUE
        BY <4>2 DEF SomeKdebugRan
      <4>3. CASE UNCHANGED ran /\ log = "none"
        BY <4>3 DEF SomeKdebugRan
      <4> QED
        BY <4>1, <4>2, <4>3
    <3> QED
      BY <3>1, <3>2
  <2>2. CASE Decode
    <3>1. UNCHANGED SomeKdebugRan /\ TaskState = "running"
      BY <2>2 DEF Decode, Return, clusterVars, podVars, SomeKdebugRan
    <3>2. CASE result' = "results"
      <4>1. log \in {"own", "other"}
        BY <2>2, <3>2 DEF Decode, Return, IInv, JobInv, clusterVars, podVars
      <4>2. SomeKdebugRan
        BY <4>1 DEF IInv, JobInv, SomeKdebugRan
      <4>3. SomeKdebugRan' = TRUE
        BY <3>1, <4>2 DEF SomeKdebugRan
      <4>4. TaskState' = "results"
        BY <2>2, <3>2 DEF Decode, Return
      <4> QED
        BY <3>1, <4>3, <4>4
    <3>3. CASE result' # "results"
      <4>1. TaskState' = "error"
        BY <2>2, <3>3 DEF Decode, Return
      <4> QED
        BY <3>1, <4>1
    <3> QED
      BY <3>2, <3>3
  <2>3. CASE CreateFails \/ GetFails \/ GiveUp \/ ListFails \/ StreamFails
    <3>1. pc \in Steps /\ pc' = "done" /\ result' # "results" /\ UNCHANGED SomeKdebugRan
      BY <2>3 DEF CreateFails, GetFails, GiveUp, ListFails, StreamFails, Return, clusterVars, podVars, Steps,
         SomeKdebugRan
    <3> QED
      BY <3>1 DEF Steps
  <2>4. CASE ListPods
    <3>1. pc = "list" /\ pc' \in {"panicked", "logs"} /\ UNCHANGED SomeKdebugRan
      BY <2>4 DEF ListPods, Enter, clusterVars, podVars, SomeKdebugRan
    <3> QED
      BY <3>1
  <2>5. CASE CreateJob \/ StartWait \/ WakeUp \/ GetJob \/ JobIsComplete \/ PollAgain \/ StreamLogs
    <3>1. pc \in Steps /\ pc' \in Steps /\ UNCHANGED SomeKdebugRan
      BY <2>5 DEF CreateJob, StartWait, WakeUp, GetJob, JobIsComplete, PollAgain, StreamLogs, Sleep, Enter,
         clusterVars, podVars, Steps, SomeKdebugRan
    <3> QED
      BY <3>1 DEF Steps
  <2>6. CASE PodStarts \/ JobFails \/ JobExpires \/ PodIsCollected \/ Tick \/ UNCHANGED vars
    <3>1. UNCHANGED <<pc, result, SomeKdebugRan>>
      BY <2>6 DEF PodStarts, JobFails, JobExpires, PodIsCollected, Tick, clientVars, clusterVars, podVars,
         vars, SomeKdebugRan
    <3> QED
      BY <3>1
  <2> QED
    BY <2>1, <2>2, <2>3, <2>4, <2>5, <2>6 DEF Next, Client, Cluster, Finished
<1> QED
  BY TaskInvariant, <1>1, <1>2, PTL DEF Spec, RefinesTask, Task!Spec
=============================================================================
