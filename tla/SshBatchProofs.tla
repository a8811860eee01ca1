--------------------------- MODULE SshBatchProofs ----------------------------
(***************************************************************************)
(* The SSH executor as a whole is the worker pool of BatchExecutor and the *)
(* tasks of SshTask: every step of the composition is a step of either, so *)
(* what is proved of these two holds of it as well.                        *)
(***************************************************************************)
EXTENDS SshBatch, TLAPS

PoolProofs == INSTANCE BatchExecutorProofs WITH
    Outcomes <- {"results", "error"}, NoOutcome <- "none", Kind <- "ssh"

SshProofs == INSTANCE SshTaskProofs

-----------------------------------------------------------------------------
(* The tasks. *)

(* A step of a batch is a step of the tasks, or leaves them alone. *)
LEMMA SshSteps == [Next]_vars => [Ssh!Next]_(Ssh!vars)
<1> SUFFICES ASSUME [Next]_vars PROVE Ssh!Next \/ UNCHANGED sshVars
  BY DEF sshVars, Ssh!vars, Ssh!local, Ssh!remote, Ssh!history
<1>1. ASSUME NEW w \in Workers, NEW t \in Tasks, Receive(w, t) PROVE Ssh!Next
  BY <1>1 DEF Receive, Ssh!Next
<1>2. ASSUME NEW w \in Workers, NEW t \in Tasks, TaskReturns(w, t) PROVE UNCHANGED sshVars
  BY <1>2 DEF TaskReturns
<1>3. CASE PoolOnly
  BY <1>3 DEF PoolOnly
<1>4. CASE SshOnly
  BY <1>4 DEF SshOnly, Ssh!Next
<1>5. CASE Finished \/ UNCHANGED vars
  BY <1>5 DEF Finished, vars
<1> QED
  BY <1>1, <1>2, <1>3, <1>4, <1>5 DEF Next, Worker

(* The two instances of SshTask are one. *)
LEMMA SameSshNext == Ssh!Next => SshProofs!Next
<1> USE DEF Ssh!Goto, SshProofs!Goto, Ssh!Return, SshProofs!Return, Ssh!Disturb, SshProofs!Disturb,
            Ssh!On, SshProofs!On, Ssh!Answers, SshProofs!Answers, Ssh!Decoded, SshProofs!Decoded,
            Ssh!local, SshProofs!local, Ssh!remote, SshProofs!remote, Ssh!history,
            SshProofs!history, Ssh!Machines, SshProofs!Machines, Ssh!Damaged, SshProofs!Damaged,
            Ssh!Contents, SshProofs!Contents, Ssh!Cardinality, SshProofs!Cardinality
<1>1. ASSUME NEW t \in Tasks PROVE Ssh!Start(t) => SshProofs!Start(t)
  BY DEF Ssh!Start, SshProofs!Start
<1>2. ASSUME NEW t \in Tasks PROVE Ssh!Connect(t) => SshProofs!Connect(t)
  BY DEF Ssh!Connect, SshProofs!Connect
<1>3. ASSUME NEW t \in Tasks PROVE Ssh!StepFails(t) => SshProofs!StepFails(t)
  BY DEF Ssh!StepFails, SshProofs!StepFails
<1>4. ASSUME NEW t \in Tasks PROVE Ssh!OpenCopy(t) => SshProofs!OpenCopy(t)
  BY DEF Ssh!OpenCopy, SshProofs!OpenCopy
<1>5. ASSUME NEW t \in Tasks PROVE Ssh!FinishCopy(t) => SshProofs!FinishCopy(t)
  BY DEF Ssh!FinishCopy, SshProofs!FinishCopy
<1>6. ASSUME NEW t \in Tasks PROVE Ssh!CopyTimesOut(t) => SshProofs!CopyTimesOut(t)
  BY DEF Ssh!CopyTimesOut, SshProofs!CopyTimesOut
<1>7. ASSUME NEW t \in Tasks PROVE Ssh!StartRun(t) => SshProofs!StartRun(t)
  BY DEF Ssh!StartRun, SshProofs!StartRun
<1>8. ASSUME NEW t \in Tasks PROVE Ssh!RunEnds(t) => SshProofs!RunEnds(t)
  BY DEF Ssh!RunEnds, SshProofs!RunEnds
<1>9. ASSUME NEW t \in Tasks PROVE Ssh!RunFails(t) => SshProofs!RunFails(t)
  BY DEF Ssh!RunFails, SshProofs!RunFails
<1>10. ASSUME NEW t \in Tasks PROVE Ssh!ForeignCopy(t) => SshProofs!ForeignCopy(t)
  BY DEF Ssh!ForeignCopy, SshProofs!ForeignCopy
<1>11. ASSUME NEW t \in Tasks PROVE Ssh!OrphanEnds(t) => SshProofs!OrphanEnds(t)
  BY DEF Ssh!OrphanEnds, SshProofs!OrphanEnds
<1>12. ASSUME NEW m \in Ssh!Machines PROVE Ssh!Hang(m) => SshProofs!Hang(m)
  BY DEF Ssh!Hang, SshProofs!Hang
<1> QED
  BY <1>1, <1>2, <1>3, <1>4, <1>5, <1>6, <1>7, <1>8, <1>9, <1>10, <1>11, <1>12
     DEF Ssh!Next, SshProofs!Next, Ssh!ExecuteTask, SshProofs!ExecuteTask, Ssh!Progress,
         SshProofs!Progress, Ssh!Failure, SshProofs!Failure, Ssh!Environment,
         SshProofs!Environment

(* A batch is a behaviour of the tasks. *)
LEMMA ImplementsSsh == Spec => SshProofs!Spec
<1>1. Init => SshProofs!Init
  BY DEF Init, Ssh!Init, SshProofs!Init, Ssh!Machines, SshProofs!Machines
<1>2. [Next]_vars => [SshProofs!Next]_(SshProofs!vars)
  <2> SUFFICES ASSUME [Next]_vars PROVE [SshProofs!Next]_(SshProofs!vars)
    OBVIOUS
  <2>1. CASE Ssh!Next
    BY <2>1, SameSshNext
  <2>2. CASE UNCHANGED Ssh!vars
    BY <2>2 DEF Ssh!vars, SshProofs!vars, Ssh!local, SshProofs!local, Ssh!remote,
                SshProofs!remote, Ssh!history, SshProofs!history
  <2> QED
    BY <2>1, <2>2, SshSteps
<1> QED
  BY <1>1, <1>2, PTL DEF Spec, SshProofs!Spec

(* In every batch, whatever its list and however its workers interleave, no task
   executes the kdebug of an earlier batch or one it has itself damaged. *)
THEOREM RunsWhatWasCopiedHolds == Spec => []RunsWhatWasCopied
<1>1. SshProofs!RunsWhatWasCopied => RunsWhatWasCopied
  BY DEF RunsWhatWasCopied, Ssh!RunsWhatWasCopied, SshProofs!RunsWhatWasCopied, Ssh!On,
         SshProofs!On, Ssh!Alone, SshProofs!Alone
<1>2. SshProofs!Spec => []SshProofs!RunsWhatWasCopied
  BY SshProofs!RunsWhatWasCopiedHolds
<1> QED
  BY <1>1, <1>2, ImplementsSsh, PTL

(* A task that is alone on its machine and meets no failure has results, in a
   batch of any size. *)
THEOREM AloneSucceedsHolds == Spec => []AloneSucceeds
<1>1. SshProofs!AloneSucceeds => AloneSucceeds
  BY DEF AloneSucceeds, Ssh!AloneSucceeds, SshProofs!AloneSucceeds, Ssh!Alone, SshProofs!Alone
<1>2. SshProofs!Spec => []SshProofs!AloneSucceeds
  BY SshProofs!AloneSucceedsHolds
<1> QED
  BY <1>1, <1>2, ImplementsSsh, PTL

(* Each task of a batch returns once, with the results of a kdebug that has run
   to its end or with an error. *)
THEOREM TasksImplementHolds == Spec => TasksImplement
<1>1. SshProofs!Spec => SshProofs!TasksImplement
  BY SshProofs!TasksImplementHolds
<1>2. (\A t \in Tasks : SshProofs!Task(t)!Init) => \A t \in Tasks : Ssh!Task(t)!Init
  BY DEF Ssh!Task!Init, SshProofs!Task!Init
<1>3. [SshProofs!TaskSteps]_(SshProofs!vars) => [Ssh!TaskSteps]_(Ssh!vars)
  BY DEF Ssh!TaskSteps, SshProofs!TaskSteps, Ssh!Task!Next, SshProofs!Task!Next, Ssh!Task!vars,
         SshProofs!Task!vars, Ssh!Task!RunEnds, SshProofs!Task!RunEnds, Ssh!Task!ReturnResults,
         SshProofs!Task!ReturnResults, Ssh!Task!ReturnError, SshProofs!Task!ReturnError,
         Ssh!Task!Panic, SshProofs!Task!Panic, Ssh!vars, SshProofs!vars, Ssh!local,
         SshProofs!local, Ssh!remote, SshProofs!remote, Ssh!history, SshProofs!history
<1> QED
  BY <1>1, <1>2, <1>3, ImplementsSsh, PTL
     DEF TasksImplement, Ssh!TasksImplement, SshProofs!TasksImplement

-----------------------------------------------------------------------------
(* The pool. *)

LEMMA PoolSteps == SshProofs!IInv /\ [Next]_vars => [Pool!Next]_(Pool!vars)
<1> SUFFICES ASSUME SshProofs!IInv, [Next]_vars PROVE Pool!Next \/ UNCHANGED poolVars
  BY DEF poolVars, Pool!vars, Pool!mainVars, Pool!workVars
<1>1. ASSUME NEW w \in Workers, NEW t \in Tasks, Receive(w, t) PROVE Pool!Next
  BY <1>1 DEF Receive, Pool!Next, Pool!Worker
<1>2. ASSUME NEW w \in Workers, NEW t \in Tasks, TaskReturns(w, t) PROVE Pool!Next
  <2>1. verdict[t] \in {"results", "error"}
    BY <1>2 DEF TaskReturns, SshProofs!IInv, SshProofs!TypeOK, SshProofs!StepInv, SshProofs!Steps
  <2>2. Pool!ExecuteTask(w, verdict[t])
    BY <1>2 DEF TaskReturns
  <2> QED
    BY <2>1, <2>2 DEF Pool!Next, Pool!Worker
<1>3. CASE PoolOnly
  BY <1>3 DEF PoolOnly, Pool!Next, Pool!Worker, Tasks, Pool!Tasks
<1>4. CASE SshOnly
  BY <1>4 DEF SshOnly
<1>5. CASE Finished \/ UNCHANGED vars
  BY <1>5 DEF Finished, vars
<1> QED
  BY <1>1, <1>2, <1>3, <1>4, <1>5 DEF Next, Worker

(* The SSH executor is the worker pool: nothing a task or a machine does can
   make the channels, the workers or Execute itself behave differently. *)
THEOREM ImplementsPoolHolds == Spec => ImplementsPool
<1>1. Init => Pool!Init
  BY DEF Init
<1>2. SshProofs!Spec => []SshProofs!IInv
  BY SshProofs!SshInvariant
<1> QED
  BY <1>1, <1>2, PoolSteps, ImplementsSsh, PTL DEF Spec, ImplementsPool, Pool!Spec

(* The two instances of BatchExecutor are one. *)
LEMMA SamePoolNext == Pool!Next => PoolProofs!Next
<1> USE DEF Pool!Alive, PoolProofs!Alive, Pool!Done, PoolProofs!Done, Pool!Tasks, PoolProofs!Tasks,
            Pool!Concurrency, PoolProofs!Concurrency, Pool!Cardinality, PoolProofs!Cardinality,
            Pool!NoTask, PoolProofs!NoTask, Pool!mainVars, PoolProofs!mainVars, Pool!workVars,
            PoolProofs!workVars, Pool!vars, PoolProofs!vars
<1>1. Pool!CreateNamespace => PoolProofs!CreateNamespace
  BY DEF Pool!CreateNamespace, PoolProofs!CreateNamespace
<1>2. Pool!FailNamespace => PoolProofs!FailNamespace
  BY DEF Pool!FailNamespace, PoolProofs!FailNamespace
<1>3. Pool!SpawnSender => PoolProofs!SpawnSender
  BY DEF Pool!SpawnSender, PoolProofs!SpawnSender
<1>4. Pool!StartCollecting => PoolProofs!StartCollecting
  BY DEF Pool!StartCollecting, PoolProofs!StartCollecting
<1>5. Pool!Collect => PoolProofs!Collect
  BY DEF Pool!Collect, PoolProofs!Collect
<1>6. Pool!CloseAndReturn => PoolProofs!CloseAndReturn
  BY DEF Pool!CloseAndReturn, PoolProofs!CloseAndReturn
<1>7. Pool!Finished => PoolProofs!Finished
  BY DEF Pool!Finished, PoolProofs!Finished
<1>8. ASSUME NEW t \in Pool!Tasks PROVE Pool!Send(t) => PoolProofs!Send(t)
  BY DEF Pool!Send, PoolProofs!Send
<1>9. ASSUME NEW w \in Workers PROVE Pool!SpawnWorker(w) => PoolProofs!SpawnWorker(w)
  BY DEF Pool!SpawnWorker, PoolProofs!SpawnWorker
<1>10. ASSUME NEW w \in Workers PROVE Pool!Receive(w) => PoolProofs!Receive(w)
  BY DEF Pool!Receive, PoolProofs!Receive
<1>11. ASSUME NEW w \in Workers PROVE Pool!PanicInTask(w) => PoolProofs!PanicInTask(w)
  BY DEF Pool!PanicInTask, PoolProofs!PanicInTask
<1>12. ASSUME NEW w \in Workers PROVE Pool!SendResult(w) => PoolProofs!SendResult(w)
  BY DEF Pool!SendResult, PoolProofs!SendResult
<1>13. ASSUME NEW w \in Workers PROVE Pool!WorkerExit(w) => PoolProofs!WorkerExit(w)
  BY DEF Pool!WorkerExit, PoolProofs!WorkerExit
<1>14. ASSUME NEW w \in Workers, NEW o \in {"results", "error"}
      PROVE  Pool!ExecuteTask(w, o) => PoolProofs!ExecuteTask(w, o)
  BY DEF Pool!ExecuteTask, PoolProofs!ExecuteTask
<1> QED
  BY <1>1, <1>2, <1>3, <1>4, <1>5, <1>6, <1>7, <1>8, <1>9, <1>10, <1>11, <1>12, <1>13, <1>14
     DEF Pool!Next, PoolProofs!Next, Pool!Main, PoolProofs!Main, Pool!Worker, PoolProofs!Worker

(* A batch is a behaviour of the pool. *)
LEMMA ImplementsPoolProofs == Spec => PoolProofs!Spec
<1>1. Pool!Init => PoolProofs!Init
  BY DEF Pool!Init, PoolProofs!Init, Pool!Tasks, PoolProofs!Tasks, Pool!NoTask, PoolProofs!NoTask
<1>2. [Pool!Next]_(Pool!vars) => [PoolProofs!Next]_(PoolProofs!vars)
  BY SamePoolNext DEF Pool!vars, PoolProofs!vars, Pool!mainVars, PoolProofs!mainVars,
                      Pool!workVars, PoolProofs!workVars
<1> QED
  BY <1>1, <1>2, ImplementsPoolHolds, PTL DEF ImplementsPool, Pool!Spec, PoolProofs!Spec

(* The assumptions of BatchExecutor hold of the SSH executor. *)
LEMMA PoolAssumptions ==
    /\ N \in Nat
    /\ PoolProofs!IsFiniteSet(Workers) /\ Workers # {}
    /\ "none" \notin {"results", "error"}
    /\ "ssh" \in {"pod", "ssh"}
BY ListAssumption, PoolAssumption DEF IsFiniteSet, PoolProofs!IsFiniteSet

(* Every variable of the pool and of the tasks keeps its type. *)
THEOREM TypeOKHolds == Spec => []TypeOK
<1>1. PoolProofs!TypeOK /\ SshProofs!TypeOK => TypeOK
  BY DEF TypeOK, Pool!TypeOK, PoolProofs!TypeOK, Pool!Tasks, PoolProofs!Tasks, Pool!NoTask,
         PoolProofs!NoTask, Pool!Concurrency, PoolProofs!Concurrency, Pool!Cardinality,
         PoolProofs!Cardinality, Ssh!TypeOK, SshProofs!TypeOK, Ssh!Steps, SshProofs!Steps,
         Ssh!Contents, SshProofs!Contents, Ssh!Damaged, SshProofs!Damaged, Ssh!Machines,
         SshProofs!Machines
<1>2. PoolProofs!Spec => []PoolProofs!TypeOK
  BY PoolProofs!TypeCorrect, PoolAssumptions
<1>3. SshProofs!Spec => []SshProofs!TypeOK
  BY SshProofs!TypeOKHolds
<1> QED
  BY <1>1, <1>2, <1>3, ImplementsSsh, ImplementsPoolProofs, PTL

(* What is proved of the pool holds of a batch. *)
THEOREM PoolIsSafeHolds == Spec => []PoolIsSafe
<1>1. PoolProofs!Spec => []PoolProofs!Conservation
  BY PoolProofs!ConservationHolds, PoolAssumptions
<1>2. PoolProofs!Spec => []PoolProofs!ResultsAreReal
  BY PoolProofs!ResultsAreRealHolds, PoolAssumptions
<1>3. PoolProofs!Spec => []PoolProofs!NoSendOnClosed
  BY PoolProofs!NoSendOnClosedHolds, PoolAssumptions
<1>4. PoolProofs!Spec => []PoolProofs!CompleteOnReturn
  BY PoolProofs!CompleteOnReturnHolds, PoolAssumptions
<1>5. PoolProofs!Conservation /\ PoolProofs!ResultsAreReal /\ PoolProofs!NoSendOnClosed
        /\ PoolProofs!CompleteOnReturn => PoolIsSafe
  <2> USE DEF Pool!Started, PoolProofs!Started, Pool!Holders, PoolProofs!Holders, Pool!Held,
              PoolProofs!Held, Pool!Located, PoolProofs!Located, Pool!ToSet, PoolProofs!ToSet,
              Pool!IsInjective, PoolProofs!IsInjective, Pool!Tasks, PoolProofs!Tasks, Pool!NoTask,
              PoolProofs!NoTask
  <2>1. PoolProofs!NoDuplicate => Pool!NoDuplicate
    BY DEF Pool!NoDuplicate, PoolProofs!NoDuplicate
  <2>2. PoolProofs!Conservation => Pool!Conservation
    BY <2>1 DEF Pool!Conservation, PoolProofs!Conservation
  <2>3. PoolProofs!ResultsAreReal => Pool!ResultsAreReal
    BY DEF Pool!ResultsAreReal, PoolProofs!ResultsAreReal
  <2>4. PoolProofs!NoSendOnClosed => Pool!NoSendOnClosed
    BY DEF Pool!NoSendOnClosed, PoolProofs!NoSendOnClosed
  <2>5. PoolProofs!CompleteOnReturn => Pool!CompleteOnReturn
    BY DEF Pool!CompleteOnReturn, PoolProofs!CompleteOnReturn
  <2> QED
    BY <2>2, <2>3, <2>4, <2>5 DEF PoolIsSafe
<1> QED
  BY <1>1, <1>2, <1>3, <1>4, <1>5, ImplementsPoolProofs, PTL

-----------------------------------------------------------------------------
(* What the caller is shown. *)

OutcomeInv == \A t \in Tasks : outcome[t] = "results" => t \in ended

LEMMA OutcomeInit == Init => OutcomeInv
BY DEF Init, Pool!Init, OutcomeInv, Tasks, Pool!Tasks

(* A kdebug that has run to its end stays so, and a task that has begun does not become idle. *)
LEMMA EndedStays ==
    SshProofs!IInv /\ [Ssh!Next]_(Ssh!vars) =>
        /\ ended \subseteq ended'
        /\ \A t \in Tasks : step[t] # "idle" => step'[t] # "idle"
<1> SUFFICES ASSUME SshProofs!IInv, [SshProofs!Next]_(SshProofs!vars), NEW t \in Tasks
             PROVE  (t \in ended => t \in ended') /\ (step[t] # "idle" => step'[t] # "idle")
  BY SameSshNext DEF SshProofs!IInv, SshProofs!TypeOK, Ssh!vars, SshProofs!vars, Ssh!local,
     SshProofs!local, Ssh!remote, SshProofs!remote, Ssh!history, SshProofs!history
<1> QED
  BY SshProofs!StepEffect

LEMMA OutcomeStep ==
    ASSUME PoolProofs!TypeOK, SshProofs!IInv, OutcomeInv, [Next]_vars PROVE OutcomeInv'
<1>1. ended \subseteq ended'
  BY SshSteps, EndedStays
<1>2. ASSUME NEW w \in Workers, NEW t \in Tasks, TaskReturns(w, t) PROVE OutcomeInv'
  <2>1. outcome' = [outcome EXCEPT ![t] = verdict[t]]
    BY <1>2 DEF TaskReturns, Pool!ExecuteTask
  <2>2. verdict[t] = "results" => t \in ended
    BY DEF SshProofs!IInv, SshProofs!StepInv
  <2>3. outcome \in [Tasks -> {"results", "error", "none"}]
    BY DEF PoolProofs!TypeOK, PoolProofs!Tasks, Tasks
  <2> QED
    BY <1>1, <2>1, <2>2, <2>3 DEF OutcomeInv
<1>3. ASSUME NEW w \in Workers, NEW t \in Tasks, Receive(w, t) PROVE OutcomeInv'
  BY <1>1, <1>3 DEF Receive, Pool!Receive, OutcomeInv
<1>4. CASE PoolOnly \/ SshOnly
  <2>1. UNCHANGED outcome
    BY <1>4 DEF PoolOnly, SshOnly, poolVars, Pool!Main, Pool!CreateNamespace, Pool!FailNamespace,
       Pool!SpawnWorker, Pool!SpawnSender, Pool!StartCollecting, Pool!Collect,
       Pool!CloseAndReturn, Pool!Send, Pool!SendResult, Pool!WorkerExit, Pool!workVars
  <2> QED
    BY <1>1, <2>1 DEF OutcomeInv
<1>5. CASE Finished \/ UNCHANGED vars
  BY <1>1, <1>5 DEF Finished, vars, poolVars, OutcomeInv
<1> QED
  BY <1>2, <1>3, <1>4, <1>5 DEF Next, Worker

(* The check results that Execute hands out were printed by a kdebug that ran to
   its end on that machine, for that entry of the list. *)
THEOREM ResultsAreOfRunsHolds == Spec => []ResultsAreOfRuns
<1>1. PoolProofs!Spec => []PoolProofs!TypeOK
  BY PoolProofs!TypeCorrect, PoolAssumptions
<1>2. SshProofs!Spec => []SshProofs!IInv
  BY SshProofs!SshInvariant
<1>3. PoolProofs!TypeOK /\ SshProofs!IInv /\ OutcomeInv /\ [Next]_vars => OutcomeInv'
  BY OutcomeStep
<1>4. PoolProofs!TypeOK /\ OutcomeInv => ResultsAreOfRuns
  <2> SUFFICES ASSUME PoolProofs!TypeOK, OutcomeInv, NEW i \in DOMAIN results
               PROVE  outcome[results[i]] = "results" => results[i] \in ended
    BY DEF ResultsAreOfRuns
  <2>1. results \in Seq(Tasks)
    BY DEF PoolProofs!TypeOK, PoolProofs!Tasks, Tasks
  <2>2. results[i] \in Tasks
    BY <2>1
  <2> QED
    BY <2>2 DEF OutcomeInv
<1> QED
  BY <1>1, <1>2, <1>3, <1>4, OutcomeInit, ImplementsSsh, ImplementsPoolProofs, PTL DEF Spec

-----------------------------------------------------------------------------
(* Machines that stop answering. *)

(* The task of a worker has begun, and Execute has not failed: it has no namespace to create
   and the tasks do not panic. *)
BegunInv ==
    /\ pc \in {"spawn", "collect", "returned"}
    /\ \A w \in Workers : wpc[w] = "exec" => step[held[w]] # "idle"

(* No task has begun that is still to be sent or to be taken from the channel. *)
WaitingInv ==
    \A t \in Tasks : step[t] # "idle" =>
        t <= nSenders /\ t \notin senders /\ t \notin PoolProofs!ToSet(taskChan)

(* Only a worker begins a task. *)
LEMMA IdleStays ==
    ASSUME SshProofs!IInv, SshOnly, NEW t \in Tasks, step[t] = "idle" PROVE step'[t] = "idle"
<1> USE DEF SshProofs!IInv, SshProofs!TypeOK, Ssh!Goto, Ssh!Return, Ssh!local
<1>1. CASE Ssh!Environment
  BY <1>1 DEF Ssh!Environment, Ssh!ForeignCopy, Ssh!OrphanEnds, Ssh!Hang
<1>2. ASSUME NEW u \in Tasks, Ssh!Failure(u) PROVE step'[t] = "idle"
  BY <1>2 DEF Ssh!Failure, Ssh!StepFails, Ssh!RunFails
<1>3. ASSUME NEW u \in Tasks, Ssh!Progress(u) PROVE step'[t] = "idle"
  BY <1>3 DEF Ssh!Progress, Ssh!Connect, Ssh!OpenCopy, Ssh!FinishCopy, Ssh!CopyTimesOut,
              Ssh!StartRun, Ssh!RunEnds
<1> QED
  BY <1>1, <1>2, <1>3 DEF SshOnly, Ssh!ExecuteTask

LEMMA BegunInit == Init => BegunInv
<1> SUFFICES ASSUME Init PROVE BegunInv
  OBVIOUS
<1>1. pc = "spawn"
  BY Zenon DEF Init, Pool!Init
<1>2. \A w \in Workers : wpc[w] = "unborn"
  BY DEF Init, Pool!Init
<1> QED
  BY <1>1, <1>2 DEF BegunInv

LEMMA BegunStep ==
    ASSUME PoolProofs!IInv, SshProofs!IInv, BegunInv, [Next]_vars PROVE BegunInv'
<1>1. \A t \in Tasks : step[t] # "idle" => step'[t] # "idle"
  BY SshSteps, EndedStays
<1>2. /\ wpc \in [Workers -> {"unborn", "recv", "exec", "send", "exited"}]
      /\ held \in [Workers -> Tasks \cup {0}]
      /\ step \in [Tasks -> {"connect", "open", "copy", "session", "run", "idle", "done"}]
      /\ \A w \in Workers : wpc[w] = "exec" => held[w] \in Tasks
  BY DEF PoolProofs!IInv, PoolProofs!TypeInv, PoolProofs!TypeOK, PoolProofs!HoldersHoldTasks,
         PoolProofs!Tasks, PoolProofs!NoTask, Tasks, SshProofs!IInv, SshProofs!TypeOK,
         SshProofs!Steps
<1>3. ASSUME NEW w \in Workers, NEW t \in Tasks, Receive(w, t) PROVE BegunInv'
  <2>1. step' = [step EXCEPT ![t] = "connect"]
    BY <1>3 DEF Receive, Ssh!Start, Ssh!Goto
  <2>2. held' = [held EXCEPT ![w] = t] /\ wpc' = [wpc EXCEPT ![w] = "exec"] /\ pc' = pc
    BY <1>3 DEF Receive, Pool!Receive, Pool!mainVars
  <2>3. step'[t] = "connect"
    BY <1>2, <2>1
  <2> QED
    BY <1>1, <1>2, <2>2, <2>3 DEF BegunInv
<1>4. ASSUME NEW w \in Workers, NEW t \in Tasks, TaskReturns(w, t) PROVE BegunInv'
  <2>1. held' = held /\ wpc' = [wpc EXCEPT ![w] = "send"] /\ pc' = pc
    BY <1>4 DEF TaskReturns, Pool!ExecuteTask, Pool!mainVars
  <2> QED
    BY <1>1, <1>2, <2>1 DEF BegunInv
<1>5. CASE PoolOnly
  <2>1. pc' \in {"spawn", "collect", "returned"}
    BY <1>5 DEF PoolOnly, BegunInv, Pool!Main, Pool!CreateNamespace, Pool!FailNamespace,
       Pool!SpawnWorker, Pool!SpawnSender, Pool!StartCollecting, Pool!Collect,
       Pool!CloseAndReturn, Pool!Send, Pool!SendResult, Pool!WorkerExit, Pool!mainVars
  <2>2. \A w \in Workers : wpc'[w] = "exec" => wpc[w] = "exec" /\ held'[w] = held[w]
    BY <1>2, <1>5 DEF PoolOnly, Pool!Main, Pool!CreateNamespace, Pool!FailNamespace,
       Pool!SpawnWorker, Pool!SpawnSender, Pool!StartCollecting, Pool!Collect,
       Pool!CloseAndReturn, Pool!Send, Pool!SendResult, Pool!WorkerExit, Pool!workVars
  <2> QED
    BY <1>1, <1>2, <2>1, <2>2 DEF BegunInv
<1>6. CASE SshOnly \/ Finished \/ UNCHANGED vars
  <2>1. pc' = pc /\ wpc' = wpc /\ held' = held
    BY <1>6 DEF SshOnly, Finished, vars, poolVars
  <2> QED
    BY <1>1, <1>2, <2>1 DEF BegunInv
<1> QED
  BY <1>3, <1>4, <1>5, <1>6 DEF Next, Worker

LEMMA WaitingInit == Init => WaitingInv
BY DEF Init, Ssh!Init, WaitingInv

LEMMA WaitingStep ==
    ASSUME PoolProofs!IInv, SshProofs!IInv, WaitingInv, [Next]_vars PROVE WaitingInv'
<1>1. /\ nSenders \in Nat /\ senders \subseteq Tasks /\ taskChan \in Seq(Tasks)
      /\ PoolProofs!IsInjective(taskChan)
      /\ step \in [Tasks -> {"connect", "open", "copy", "session", "run", "idle", "done"}]
      /\ senders \cap PoolProofs!ToSet(taskChan) = {}
      /\ \A t \in PoolProofs!ToSet(taskChan) \cup senders : t <= nSenders
  BY ListAssumption DEF PoolProofs!IInv, PoolProofs!TypeInv, PoolProofs!TypeOK, PoolProofs!Conservation,
     PoolProofs!NoDuplicate, PoolProofs!Located, PoolProofs!Started, PoolProofs!Tasks, Tasks,
     SshProofs!IInv, SshProofs!TypeOK, SshProofs!Steps
<1>2. ASSUME NEW w \in Workers, NEW t \in Tasks, Receive(w, t) PROVE WaitingInv'
  <2>1. taskChan # <<>> /\ t = Head(taskChan) /\ taskChan' = Tail(taskChan)
        /\ senders' = senders /\ nSenders' = nSenders
    BY <1>2 DEF Receive, Pool!Receive, Pool!mainVars
  <2>2. t \in PoolProofs!ToSet(taskChan) /\ PoolProofs!ToSet(taskChan') = PoolProofs!ToSet(taskChan) \ {t}
    BY <1>1, <2>1, PoolProofs!ReceiveLemma, PoolAssumptions
  <2>3. step' = [step EXCEPT ![t] = "connect"]
    BY <1>2 DEF Receive, Ssh!Start, Ssh!Goto
  <2> QED
    BY <1>1, <2>1, <2>2, <2>3 DEF WaitingInv
<1>3. ASSUME NEW t \in Tasks, Pool!Send(t), UNCHANGED sshVars PROVE WaitingInv'
  <2>1. t \in senders /\ taskChan' = Append(taskChan, t) /\ senders' = senders \ {t}
        /\ nSenders' = nSenders /\ step' = step
    BY <1>3 DEF Pool!Send, Pool!mainVars, sshVars
  <2>2. PoolProofs!ToSet(taskChan') = PoolProofs!ToSet(taskChan) \cup {t}
    BY <1>1, <2>1, PoolProofs!SendLemma, PoolAssumptions
  <2> QED
    BY <1>1, <2>1, <2>2 DEF WaitingInv
<1>4. CASE Pool!SpawnSender /\ UNCHANGED sshVars
  BY <1>1, <1>4 DEF Pool!SpawnSender, sshVars, WaitingInv
<1>5. CASE SshOnly
  <2>1. UNCHANGED <<nSenders, senders, taskChan>>
    BY <1>5 DEF SshOnly, poolVars
  <2> QED
    BY <1>5, <2>1, IdleStays DEF WaitingInv
<1>6. ASSUME UNCHANGED <<nSenders, senders, taskChan, step>> PROVE WaitingInv'
  BY <1>6 DEF WaitingInv
<1>7. ASSUME NEW w \in Workers, NEW t \in Tasks, TaskReturns(w, t) PROVE WaitingInv'
  BY <1>6, <1>7 DEF TaskReturns, Pool!ExecuteTask, Pool!mainVars, sshVars
<1>8. ASSUME UNCHANGED sshVars,
             \/ Pool!CreateNamespace \/ Pool!FailNamespace \/ (\E w \in Workers : Pool!SpawnWorker(w))
             \/ Pool!StartCollecting \/ Pool!Collect \/ Pool!CloseAndReturn
             \/ (\E w \in Workers : Pool!SendResult(w) \/ Pool!WorkerExit(w))
      PROVE  WaitingInv'
  BY <1>6, <1>8 DEF Pool!CreateNamespace, Pool!FailNamespace, Pool!SpawnWorker,
     Pool!StartCollecting, Pool!Collect, Pool!CloseAndReturn, Pool!SendResult, Pool!WorkerExit,
     Pool!mainVars, Pool!workVars, sshVars
<1>9. CASE Finished \/ UNCHANGED vars
  BY <1>6, <1>9 DEF Finished, vars, poolVars, sshVars
<1> QED
  BY <1>2, <1>3, <1>4, <1>5, <1>7, <1>8, <1>9 DEF Next, Worker, PoolOnly, Pool!Main

(* What a worker and its task need for their next step: the guards of Receive, TaskReturns and
   Ssh!Progress, among them that of the time-out of scp. *)
TaskMoves(t) ==
    \/ step[t] \in {"done", "copy"}
    \/ step[t] \in {"connect", "open", "session", "run"} /\ Ssh!Answers(t)

WorkerMoves(w) ==
    \/ wpc[w] = "recv" /\ IF taskChan = <<>> THEN closed ELSE step[Head(taskChan)] = "idle"
    \/ wpc[w] = "exec" /\ TaskMoves(held[w])
    \/ wpc[w] = "send" /\ Len(resultChan) < Cardinality(Workers)

OthersGoOn ==
    Cardinality(StuckTasks) < Cardinality(Workers) =>
        \/ PoolProofs!MainMoves \/ PoolProofs!SenderMoves \/ \E w \in Workers : WorkerMoves(w)
        \/ pc = "returned" /\ \A w \in Workers : wpc[w] = "exited"
        \/ StuckTasks # {} /\ Tasks \ StuckTasks \subseteq {results[i] : i \in DOMAIN results}

(* ssh_executor.go:36: as long as there are fewer entries for machines that have stopped
   answering than workers, in every reachable state somebody can go on, or Execute has
   returned, or all other entries have their results: what OthersAreServed needs besides
   fairness, for every list and every number of workers. *)
THEOREM OthersGoOnHolds == Spec => []OthersGoOn
<1>1. PoolProofs!Spec => []PoolProofs!IInv
  BY PoolProofs!PoolInvariant, PoolAssumptions
<1>2. PoolProofs!Spec => []PoolProofs!OthersMove
  BY PoolProofs!StuckTasksHoldUpNoOthers, PoolAssumptions
<1>3. SshProofs!Spec => []SshProofs!IInv
  BY SshProofs!SshInvariant
<1>4. PoolProofs!IInv /\ SshProofs!IInv /\ BegunInv /\ [Next]_vars => BegunInv'
  BY BegunStep
<1>5. PoolProofs!IInv /\ SshProofs!IInv /\ WaitingInv /\ [Next]_vars => WaitingInv'
  BY WaitingStep
<1>6. PoolProofs!IInv /\ PoolProofs!OthersMove /\ SshProofs!IInv /\ BegunInv /\ WaitingInv => OthersGoOn
  <2> SUFFICES ASSUME PoolProofs!IInv, PoolProofs!OthersMove, SshProofs!IInv, BegunInv, WaitingInv,
                      Cardinality(StuckTasks) < Cardinality(Workers)
               PROVE  \/ PoolProofs!MainMoves \/ PoolProofs!SenderMoves \/ \E w \in Workers : WorkerMoves(w)
                      \/ pc = "returned" /\ \A w \in Workers : wpc[w] = "exited"
                      \/ StuckTasks # {} /\ Tasks \ StuckTasks \subseteq {results[i] : i \in DOMAIN results}
    BY DEF OthersGoOn
  <2>1. StuckTasks \in SUBSET PoolProofs!Tasks
    BY DEF StuckTasks, Tasks, PoolProofs!Tasks
  <2>2. PoolProofs!Cardinality(StuckTasks) < PoolProofs!Concurrency
    BY DEF PoolProofs!Concurrency, PoolProofs!Cardinality, Cardinality
  <2>3. PoolProofs!Done \/ PoolProofs!Moves(StuckTasks) \/ PoolProofs!OthersServed(StuckTasks)
    BY <2>1, <2>2 DEF PoolProofs!OthersMove
  <2>4. CASE PoolProofs!Done
    BY <2>4 DEF PoolProofs!Done, BegunInv
  <2>5. CASE PoolProofs!OthersServed(StuckTasks)
    BY <2>5 DEF PoolProofs!OthersServed, PoolProofs!ToSet, Tasks, PoolProofs!Tasks
  <2>6. ASSUME NEW w \in Workers, wpc[w] = "exec", held[w] \notin StuckTasks PROVE WorkerMoves(w)
    <3>1. held[w] \in Tasks
      BY <2>6 DEF PoolProofs!IInv, PoolProofs!TypeInv, PoolProofs!HoldersHoldTasks,
                  PoolProofs!Tasks, Tasks
    <3>2. Ssh!Answers(held[w])
      BY <2>6, <3>1 DEF StuckTasks, Ssh!Answers
    <3>3. step[held[w]] \in {"connect", "open", "copy", "session", "run", "done"}
      BY <2>6, <3>1 DEF BegunInv, SshProofs!IInv, SshProofs!TypeOK, SshProofs!Steps
    <3> QED
      BY <2>6, <3>2, <3>3 DEF WorkerMoves, TaskMoves
  <2>7. taskChan # <<>> => step[Head(taskChan)] = "idle"
    <3> SUFFICES ASSUME taskChan # <<>> PROVE step[Head(taskChan)] = "idle"
      OBVIOUS
    <3>1. taskChan \in Seq(Tasks) /\ PoolProofs!IsInjective(taskChan)
      BY DEF PoolProofs!IInv, PoolProofs!TypeInv, PoolProofs!TypeOK, PoolProofs!Conservation,
             PoolProofs!NoDuplicate, PoolProofs!Tasks, Tasks
    <3>2. Head(taskChan) \in Tasks /\ Head(taskChan) \in PoolProofs!ToSet(taskChan)
      BY <3>1, PoolProofs!ReceiveLemma, PoolAssumptions
    <3> QED
      BY <3>2 DEF WaitingInv
  <2>8. CASE PoolProofs!Moves(StuckTasks)
    BY <2>6, <2>7, <2>8 DEF PoolProofs!Moves, PoolProofs!WorkerMoves, WorkerMoves,
                      PoolProofs!Concurrency, PoolProofs!Cardinality, Cardinality
  <2> QED
    BY <2>3, <2>4, <2>5, <2>8
<1> QED
  BY <1>1, <1>2, <1>3, <1>4, <1>5, <1>6, BegunInit, WaitingInit, ImplementsSsh, ImplementsPoolProofs, PTL
     DEF Spec
=============================================================================
