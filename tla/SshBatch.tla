------------------------------ MODULE SshBatch -------------------------------
(***************************************************************************)
(* A batch of the SSH executor as a whole: the worker pool of module       *)
(* BatchExecutor, in which executeTask is no single step but the steps of  *)
(* module SshTask, on machines that may stop answering.                    *)
(***************************************************************************)
EXTENDS Naturals, Sequences, FiniteSets

CONSTANTS N, Workers,      \* of BatchExecutor
          MachineOf, MaxDisturbed, MaxHung    \* of SshTask

ASSUME ListAssumption == N \in Nat
(* cmd/batch.go never passes a concurrency below 1. *)
ASSUME PoolAssumption == IsFiniteSet(Workers) /\ Workers # {}

Tasks == 1 .. N

VARIABLES
    pc, nSenders, senders, taskChan, closed, wpc, held, outcome, resultChan, results,
    step, verdict, executed, binary, clash, writers, procs, hung, ended, disturbed

Pool == INSTANCE BatchExecutor WITH
    Outcomes <- {"results", "error"}, NoOutcome <- "none", Kind <- "ssh"

Ssh == INSTANCE SshTask

poolVars == <<pc, nSenders, senders, taskChan, closed, wpc, held, outcome, resultChan, results>>
sshVars == <<step, verdict, executed, binary, clash, writers, procs, hung, ended, disturbed>>
vars == <<poolVars, sshVars>>

Init == Pool!Init /\ Ssh!Init

-----------------------------------------------------------------------------
(* The worker takes a task and calls executeTask ... *)
Receive(w, t) == Pool!Receive(w) /\ t = Head(taskChan) /\ Ssh!Start(t)

(* Mutant: an early return leaves the result empty. *)
TaskReturns_Empty(w, t) ==
    /\ wpc[w] = "exec" /\ held[w] = t /\ step[t] = "done"
    /\ wpc' = [wpc EXCEPT ![w] = "send"]
    /\ UNCHANGED <<pc, nSenders, senders, taskChan, closed, held, outcome, resultChan, results, sshVars>>

(* Mutant: a worker drops a task that failed, for a retry that never comes. *)
TaskReturns_ResultsOnly(w, t) ==
    /\ held[w] = t /\ step[t] = "done" /\ verdict[t] = "results"
    /\ Pool!ExecuteTask(w, verdict[t])
    /\ UNCHANGED sshVars

(* ... which returns when its steps are over, with what they have found. *)
TaskReturns(w, t) ==
    /\ held[w] = t /\ step[t] = "done"
    /\ Pool!ExecuteTask(w, verdict[t])
    /\ UNCHANGED sshVars

Worker(w) == \E t \in Tasks : Receive(w, t) \/ TaskReturns(w, t)

(* The rest of the pool knows nothing of SSH. *)
PoolOnly ==
    /\ \/ Pool!Main
       \/ \E t \in Tasks : Pool!Send(t)
       \/ \E w \in Workers : Pool!SendResult(w) \/ Pool!WorkerExit(w)
    /\ UNCHANGED sshVars

SshOnly ==
    /\ (\E t \in Tasks : Ssh!ExecuteTask(t)) \/ Ssh!Environment
    /\ UNCHANGED poolVars

Finished == Pool!Done /\ UNCHANGED vars

Next ==
    \/ \E w \in Workers : Worker(w)
    \/ PoolOnly \/ SshOnly
    \/ Finished

Spec == Init /\ [][Next]_vars

(* Go schedules every goroutine that can go on. A task goes on when its machine
   answers or the scp client times out; nothing else in the code gives it up. *)
Fairness ==
    /\ WF_vars(PoolOnly)
    /\ \A w \in Workers : WF_vars(Worker(w))
    /\ \A t \in Tasks : WF_vars(Ssh!Progress(t) /\ UNCHANGED poolVars)

FairSpec == Spec /\ Fairness

-----------------------------------------------------------------------------
TypeOK == Pool!TypeOK /\ Ssh!TypeOK

(* The composition is a worker pool ... *)
ImplementsPool == Pool!Spec

(* ... of tasks that are what the pool takes them for. *)
TasksImplement == Ssh!TasksImplement
AloneSucceeds == Ssh!AloneSucceeds
RunsWhatWasCopied == Ssh!RunsWhatWasCopied

(* Two workers at once change nothing of what is true of the pool: each task is
   in one place, its result is collected once, nobody sends on the closed channel,
   and nothing is left when Execute returns. *)
PoolIsSafe ==
    Pool!Conservation /\ Pool!ResultsAreReal /\ Pool!NoSendOnClosed /\ Pool!CompleteOnReturn

(* What the caller of Execute is shown as check results was printed by a kdebug
   that ran to its end on that machine, for that entry of the list. *)
ResultsAreOfRuns ==
    \A i \in DOMAIN results : outcome[results[i]] = "results" => results[i] \in ended

(* Machines that stop answering hold their workers for ever. As long as there
   are fewer such entries than workers, every other entry is served and its
   result is collected; and without any Execute returns. *)
StuckTasks == {t \in Tasks : MachineOf[t] \in hung}
OthersAreServed ==
    [](Cardinality(StuckTasks) < Cardinality(Workers)) =>
        <>(/\ Tasks \ StuckTasks \subseteq {results[i] : i \in DOMAIN results}
           /\ StuckTasks = {} => pc = "returned")
=============================================================================
