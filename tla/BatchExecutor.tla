---------------------------- MODULE BatchExecutor ----------------------------
(***************************************************************************)
(* The worker pool both batch executors share: PodBatchExecutor.Execute    *)
(* (pkg/batch/pod_executor.go) and SshBatchExecutor.Execute                *)
(* (pkg/batch/ssh_executor.go) differ only in the namespace the first      *)
(* creates up front and in executeTask.                                    *)
(*                                                                         *)
(* Execute starts Concurrency workers and, for every machine, a goroutine  *)
(* that sends one task; then it collects as many results as there are      *)
(* machines, closes the task channel and returns. Every send, receive and  *)
(* task execution of every goroutine is a step of its own. A task is       *)
(* identified by its position in the machine list: the list may hold the   *)
(* same machine twice.                                                     *)
(***************************************************************************)
EXTENDS Naturals, SequencesExt, FiniteSets

CONSTANTS N,          \* len(opts.Machines)
          Workers,    \* the worker goroutines; opts.Concurrency of them
          Outcomes,   \* what executeTask can leave in a BatchResult
          NoOutcome,  \* there is no BatchResult yet
          Kind        \* the executor: "pod" or "ssh"

ASSUME NAssumption == N \in Nat
(* cmd/batch.go never passes a concurrency below 1. *)
ASSUME WorkersAssumption == IsFiniteSet(Workers) /\ Workers # {}
ASSUME OutcomesAssumption == NoOutcome \notin Outcomes
ASSUME KindAssumption == Kind \in {"pod", "ssh"}

Tasks == 1 .. N
Concurrency == Cardinality(Workers)
NoTask == 0

VARIABLES
    pc,           \* Execute: "namespace", "spawn", "collect", "returned", "failed", "crashed"
    nSenders,     \* how many sender goroutines Execute has started
    senders,      \* the tasks whose sender goroutine has not delivered yet
    taskChan,     \* the tasks buffered in taskChan
    closed,       \* close(taskChan) was called
    wpc,          \* worker: "unborn", "recv", "exec", "send", "exited"
    held,         \* the task a worker took from taskChan
    outcome,      \* the content of the BatchResult of a task, once executed
    resultChan,   \* the results buffered in resultChan, by task
    results       \* the slice Execute returns, by task

mainVars == <<pc, nSenders, closed, results>>
workVars == <<wpc, held, outcome>>
vars == <<mainVars, senders, taskChan, workVars, resultChan>>

(* The process is alive: a panic in any goroutine ends all of them. *)
Alive == pc # "crashed"

Init ==
    /\ pc = IF Kind = "pod" THEN "namespace" ELSE "spawn"
    /\ nSenders = 0
    /\ senders = {}
    /\ taskChan = <<>>
    /\ closed = FALSE
    /\ wpc = [w \in Workers |-> "unborn"]
    /\ held = [w \in Workers |-> NoTask]
    /\ outcome = [t \in Tasks |-> NoOutcome]
    /\ resultChan = <<>>
    /\ results = <<>>

-----------------------------------------------------------------------------
(* Execute itself. *)

(* The namespace exists already or was created. *)
CreateNamespace ==
    /\ pc = "namespace"
    /\ pc' = "spawn"
    /\ UNCHANGED <<nSenders, closed, results, senders, taskChan, workVars, resultChan>>

(* Any other error of the call: Execute returns it. *)
FailNamespace ==
    /\ pc = "namespace"
    /\ pc' = "failed"
    /\ UNCHANGED <<nSenders, closed, results, senders, taskChan, workVars, resultChan>>

(* go e.startWorker(...): the worker waits for its first task. *)
SpawnWorker(w) ==
    /\ pc = "spawn"
    /\ wpc[w] = "unborn"
    /\ wpc' = [wpc EXCEPT ![w] = "recv"]
    /\ UNCHANGED <<mainVars, senders, taskChan, held, outcome, resultChan>>

(* Mutant: `<=` in the loop over the machines. *)
SpawnSender_OneMore ==
    /\ pc = "spawn"
    /\ \A w \in Workers : wpc[w] # "unborn"
    /\ nSenders <= N
    /\ nSenders' = nSenders + 1
    /\ senders' = senders \cup {nSenders'}
    /\ UNCHANGED <<pc, closed, results, taskChan, workVars, resultChan>>

(* Mutant: Execute sends the tasks itself, without a goroutine per machine. *)
SpawnSender_Inline ==
    /\ pc = "spawn"
    /\ \A w \in Workers : wpc[w] # "unborn"
    /\ nSenders < N
    /\ Len(taskChan) < Concurrency
    /\ nSenders' = nSenders + 1
    /\ taskChan' = Append(taskChan, nSenders')
    /\ UNCHANGED <<pc, closed, results, senders, workVars, resultChan>>

(* All workers are started: start the sender of the next machine. *)
SpawnSender ==
    /\ pc = "spawn"
    /\ \A w \in Workers : wpc[w] # "unborn"
    /\ nSenders < N
    /\ nSenders' = nSenders + 1
    /\ senders' = senders \cup {nSenders'}
    /\ UNCHANGED <<pc, closed, results, taskChan, workVars, resultChan>>

(* Mutant: taskChan is closed as soon as every sender is started. *)
StartCollecting_CloseEarly ==
    /\ pc = "spawn"
    /\ \A w \in Workers : wpc[w] # "unborn"
    /\ nSenders = N
    /\ pc' = "collect"
    /\ closed' = TRUE
    /\ UNCHANGED <<nSenders, results, senders, taskChan, workVars, resultChan>>

(* Every sender is started: Execute turns to the results. *)
StartCollecting ==
    /\ pc = "spawn"
    /\ \A w \in Workers : wpc[w] # "unborn"
    /\ nSenders = N
    /\ pc' = "collect"
    /\ UNCHANGED <<nSenders, closed, results, senders, taskChan, workVars, resultChan>>

(* result := <-resultChan, appended and passed to Reporter.OnResult. *)
Collect ==
    /\ pc = "collect"
    /\ Len(results) < N
    /\ resultChan # <<>>
    /\ results' = Append(results, Head(resultChan))
    /\ resultChan' = Tail(resultChan)
    /\ UNCHANGED <<pc, nSenders, closed, senders, taskChan, workVars>>

(* Mutant: the loop waits for one result too few. *)
CloseAndReturn_OneShort ==
    /\ pc = "collect"
    /\ Len(results) + 1 >= N
    /\ closed' = TRUE
    /\ pc' = "returned"
    /\ UNCHANGED <<nSenders, results, senders, taskChan, workVars, resultChan>>

(* Mutant: taskChan is never closed. *)
CloseAndReturn_NoClose ==
    /\ pc = "collect"
    /\ Len(results) = N
    /\ pc' = "returned"
    /\ UNCHANGED <<nSenders, closed, results, senders, taskChan, workVars, resultChan>>

(* The loop is over: close(taskChan) and return. *)
CloseAndReturn ==
    /\ pc = "collect"
    /\ Len(results) = N
    /\ closed' = TRUE
    /\ pc' = "returned"
    /\ UNCHANGED <<nSenders, results, senders, taskChan, workVars, resultChan>>

-----------------------------------------------------------------------------
(* The goroutines. They keep running when Execute has returned. *)

(* Mutant: the goroutine captures the loop variable instead of taking the
   machine as its argument, and sends what the variable holds by then. *)
Send_LoopVariable(t) ==
    /\ Alive
    /\ t \in senders
    /\ Len(taskChan) < Concurrency
    /\ taskChan' = Append(taskChan, nSenders)
    /\ senders' = senders \ {t}
    /\ UNCHANGED <<mainVars, workVars, resultChan>>

(* A sender's taskChan <- task, once there is room. *)
Send(t) ==
    /\ Alive
    /\ t \in senders
    /\ Len(taskChan) < Concurrency
    /\ taskChan' = Append(taskChan, t)
    /\ senders' = senders \ {t}
    /\ UNCHANGED <<mainVars, workVars, resultChan>>

(* for task := range taskChan: a buffered task, even when the channel is closed. *)
Receive(w) ==
    /\ Alive
    /\ wpc[w] = "recv"
    /\ taskChan # <<>>
    /\ held' = [held EXCEPT ![w] = Head(taskChan)]
    /\ taskChan' = Tail(taskChan)
    /\ wpc' = [wpc EXCEPT ![w] = "exec"]
    /\ UNCHANGED <<mainVars, senders, outcome, resultChan>>

(* e.executeTask(task) returns a result. *)
ExecuteTask(w, o) ==
    /\ Alive
    /\ wpc[w] = "exec"
    /\ outcome' = [outcome EXCEPT ![held[w]] = o]
    /\ wpc' = [wpc EXCEPT ![w] = "send"]
    /\ UNCHANGED <<mainVars, senders, taskChan, held, resultChan>>

(* The pod executor's executeTask indexes the pod list of its job without
   looking at its length: an empty list is a panic. *)
PanicInTask(w) ==
    /\ Alive
    /\ Kind = "pod"
    /\ wpc[w] = "exec"
    /\ pc' = "crashed"
    /\ UNCHANGED <<nSenders, closed, results, senders, taskChan, workVars, resultChan>>

(* resultChan <- result, once there is room. *)
SendResult(w) ==
    /\ Alive
    /\ wpc[w] = "send"
    /\ Len(resultChan) < Concurrency
    /\ resultChan' = Append(resultChan, held[w])
    /\ held' = [held EXCEPT ![w] = NoTask]
    /\ wpc' = [wpc EXCEPT ![w] = "recv"]
    /\ UNCHANGED <<mainVars, senders, taskChan, outcome>>

(* The range loop ends on a closed and empty channel. *)
WorkerExit(w) ==
    /\ Alive
    /\ wpc[w] = "recv"
    /\ closed
    /\ taskChan = <<>>
    /\ wpc' = [wpc EXCEPT ![w] = "exited"]
    /\ UNCHANGED <<mainVars, senders, taskChan, held, outcome, resultChan>>

-----------------------------------------------------------------------------
(* Execute gave up or crashed, or it returned and no worker is left. *)
Done ==
    \/ pc \in {"failed", "crashed"}
    \/ pc = "returned" /\ \A w \in Workers : wpc[w] = "exited"

(* The only states in which nothing more happens. *)
Finished == Done /\ UNCHANGED vars

Main ==
    \/ CreateNamespace \/ FailNamespace
    \/ \E w \in Workers : SpawnWorker(w)
    \/ SpawnSender \/ StartCollecting \/ Collect \/ CloseAndReturn

Worker(w) ==
    \/ Receive(w)
    \/ \E o \in Outcomes : ExecuteTask(w, o)
    \/ PanicInTask(w)
    \/ SendResult(w)
    \/ WorkerExit(w)

Next ==
    \/ Main
    \/ \E t \in Tasks : Send(t)
    \/ \E w \in Workers : Worker(w)
    \/ Finished

Spec == Init /\ [][Next]_vars

(* Go schedules every runnable goroutine. That executeTask returns is an
   assumption here: the pod executor bounds its wait (module PodTask), the
   SSH executor sets no deadline at all. *)
Fairness ==
    /\ WF_vars(Main)
    /\ \A t \in Tasks : WF_vars(Send(t))
    /\ \A w \in Workers : WF_vars(Worker(w))

FairSpec == Spec /\ Fairness
-----------------------------------------------------------------------------
(* Every variable has its type; no channel holds more than its capacity. *)
TypeOK ==
    /\ pc \in {"namespace", "spawn", "collect", "returned", "failed", "crashed"}
    /\ nSenders \in 0 .. N
    /\ senders \subseteq Tasks
    /\ taskChan \in Seq(Tasks) /\ Len(taskChan) <= Concurrency
    /\ closed \in BOOLEAN
    /\ wpc \in [Workers -> {"unborn", "recv", "exec", "send", "exited"}]
    /\ held \in [Workers -> Tasks \cup {NoTask}]
    /\ outcome \in [Tasks -> Outcomes \cup {NoOutcome}]
    /\ resultChan \in Seq(Tasks) /\ Len(resultChan) <= Concurrency
    /\ results \in Seq(Tasks)

Started == 1 .. nSenders
Holders == {w \in Workers : wpc[w] \in {"exec", "send"}}
Held == {held[w] : w \in Holders}

(* The tasks whose sender, queue slot, worker, result slot or result exists. *)
Located == senders \cup ToSet(taskChan) \cup Held \cup ToSet(resultChan) \cup ToSet(results)

(* No task is in two places, nor twice in one. *)
NoDuplicate ==
    /\ IsInjective(taskChan) /\ IsInjective(resultChan) /\ IsInjective(results)
    /\ \A v, w \in Holders : held[v] = held[w] => v = w
    /\ senders \cap (ToSet(taskChan) \cup Held \cup ToSet(resultChan) \cup ToSet(results)) = {}
    /\ ToSet(taskChan) \cap (Held \cup ToSet(resultChan) \cup ToSet(results)) = {}
    /\ Held \cap (ToSet(resultChan) \cup ToSet(results)) = {}
    /\ ToSet(resultChan) \cap ToSet(results) = {}

(* From the moment its sender is started, a task is in exactly one place on the
   way from Execute through taskChan, a worker and resultChan to the results:
   none is lost, none is executed or reported twice, whatever the interleaving
   of the goroutines. *)
Conservation == Located = Started /\ NoDuplicate

(* The tasks that were executed, and no others, have a result to show. *)
ResultsAreReal ==
    /\ \A t \in ToSet(resultChan) \cup ToSet(results) : outcome[t] \in Outcomes
    /\ \A w \in Holders : wpc[w] = "send" <=> outcome[held[w]] \in Outcomes

(* Sending on a closed channel is a panic in Go, for a blocked sender too: when
   Execute closes taskChan no sender may be left, delivered or blocked. *)
NoSendOnClosed == closed => senders = {}

(* Execute returns one result for every machine, each from an executed task,
   and leaves no task behind in a channel or a worker. *)
CompleteOnReturn ==
    pc = "returned" =>
        /\ Len(results) = N
        /\ ToSet(results) = Tasks
        /\ \A t \in Tasks : outcome[t] \in Outcomes
        /\ taskChan = <<>> /\ resultChan = <<>> /\ Holders = {}

(* A task is executed once: what executeTask put into its result is final.
   (A second execution would create the job again, or copy the binary again.) *)
ExecutedOnce ==
    [][\A w \in Workers : (wpc[w] = "exec" /\ wpc'[w] = "send") => outcome[held[w]] = NoOutcome]_vars

(* The pool hands out the results the abstract specification promises. *)
Status == IF pc \in {"namespace", "spawn", "collect"} THEN "running" ELSE pc

Batch == INSTANCE BatchSpec WITH
    report <- [t \in ToSet(results) |-> outcome[t]],
    status <- Status

RefinesBatch == Batch!Spec

(* Execute comes to an end: sender, worker and collector never wait for each
   other in a circle, although both channels are smaller than the machine list. *)
Terminates == <>(pc \in {"returned", "failed", "crashed"})

(* A worker outlives Execute only to find the channel closed. *)
WorkersExit == (pc = "returned") ~> (\A w \in Workers : wpc[w] = "exited")

=============================================================================
