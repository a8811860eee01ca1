------------------------------- MODULE PodTask -------------------------------
(***************************************************************************)
(* PodBatchExecutor.executeTask (pkg/batch/pod_executor.go): create a      *)
(* Kubernetes job that runs kdebug on one node, poll it every Poll         *)
(* seconds for at most Timeout, then read the results from the log of its  *)
(* pod. The job, its pod and the controllers that complete, fail and       *)
(* expire them are the environment; they race with the polling.            *)
(*                                                                         *)
(* Time is a counter. A step of executeTask (a request reaching the API    *)
(* server, its response coming back, the oversleeping of time.Sleep) takes *)
(* at most Latency: the clock cannot pass `due'. The code itself sets no   *)
(* deadline on its API calls (context.Background()).                       *)
(***************************************************************************)
EXTENDS Naturals

CONSTANTS Poll,       \* time.Sleep(5 * time.Second)
          Timeout,    \* timeout := 5 * time.Minute
          TTL,        \* ttl := int32(300), TTLSecondsAfterFinished
          Latency     \* the longest a request or a response takes

ASSUME DurationsAssumption == {Poll, Timeout, TTL, Latency} \subseteq Nat
(* In the code 5 s of polling against 300 s of TTL: any latency up to 42 s. *)
ASSUME TtlAssumption == Poll + 7 * Latency < TTL

VARIABLES
    now,       \* the clock
    pc,        \* the step executeTask is in
    due,       \* the latest time at which that step ends
    wake,      \* the earliest time at which time.Sleep returns
    start,     \* startTime
    seen,      \* the job as the last Get saw it
    result,    \* result.Error, or "results" when there is none
    job,       \* the job: "none", "active", "complete", "failed"
    present,   \* the job object exists on the API server
    endedAt,   \* when the job completed or failed
    pod,       \* its pod: "absent", "running", "finished"
    mode,      \* e.Mode: "container", or "host" (the default): the pod runs run-as-host
    ran,       \* the kdebug of this task has run to its end
    log,       \* the first document in the pod's log, once the job is complete
    fault      \* the last call that failed or pod that was lost, if any

clientVars == <<pc, due, wake, start, seen, result>>
podVars == <<mode, ran, log>>
clusterVars == <<job, present, endedAt, pod, podVars>>
vars == <<now, clientVars, clusterVars, fault>>

Ended == {"done", "panicked"}

Init ==
    /\ now = 0
    /\ pc = "create" /\ due = Latency
    /\ wake = 0 /\ start = 0
    /\ seen = "none" /\ result = "none"
    /\ job = "none" /\ present = FALSE /\ endedAt = 0
    /\ pod = "absent"
    /\ mode \in {"container", "host"} /\ ran = FALSE /\ log = "none"
    /\ fault = "none"

(* The next step of executeTask takes at most d. *)
Enter(step, d) == pc' = step /\ due' = now + d

(* return result *)
Return(r) ==
    /\ pc' = "done" /\ result' = r
    /\ UNCHANGED <<due, wake, start>>

-----------------------------------------------------------------------------
(* executeTask *)

(* The Create request reaches the API server. *)
CreateJob ==
    /\ pc = "create"
    /\ job' = "active" /\ present' = TRUE
    /\ Enter("created", Latency)
    /\ UNCHANGED <<now, wake, start, seen, result, endedAt, pod, podVars, fault>>

(* Create fails: refused, or accepted and the response lost. *)
CreateFails ==
    /\ pc \in {"create", "created"}
    /\ Return("createErr")
    /\ fault' = "api"
    /\ UNCHANGED <<now, seen, clusterVars>>

(* Mutant: the sleep is counted back from now. *)
Sleep_Negative == Enter("sleep", Poll + Latency) /\ wake' = now - Poll

(* time.Sleep at the head of the loop *)
Sleep == Enter("sleep", Poll + Latency) /\ wake' = now + Poll

(* Create has returned: the wait begins. *)
StartWait ==
    /\ pc = "created"
    /\ start' = now
    /\ Sleep
    /\ UNCHANGED <<now, seen, result, clusterVars, fault>>

(* Mutant: wait for an event of the job instead of polling it. *)
WakeUp_OnEvent ==
    /\ pc = "sleep"
    /\ now >= wake
    /\ job # "active"
    /\ Enter("get", Latency)
    /\ UNCHANGED <<now, wake, start, seen, result, clusterVars, fault>>

WakeUp ==
    /\ pc = "sleep"
    /\ now >= wake
    /\ Enter("get", Latency)
    /\ UNCHANGED <<now, wake, start, seen, result, clusterVars, fault>>

(* The Get request reaches the API server, which reads the job. *)
GetJob ==
    /\ pc = "get"
    /\ seen' = IF present THEN job ELSE "missing"
    /\ Enter("got", Latency)
    /\ UNCHANGED <<now, wake, start, result, clusterVars, fault>>

(* Get returns an error: the call failed, or the job is gone. *)
GetFails ==
    /\ \/ pc \in {"get", "got"} /\ fault' = "api"
       \/ pc = "got" /\ seen = "missing" /\ UNCHANGED fault
    /\ Return("getErr")
    /\ UNCHANGED <<now, seen, clusterVars>>

(* Mutant: a job that failed counts as completed too. *)
IsJobCompleted_AnyEnd == seen \in {"complete", "failed"}

(* isJobCompleted looks for the condition Complete, and for no other. *)
IsJobCompleted == seen = "complete"

JobIsComplete ==
    /\ pc = "got"
    /\ IsJobCompleted
    /\ Enter("list", Latency)
    /\ UNCHANGED <<now, wake, start, seen, result, clusterVars, fault>>

(* time.Now().Sub(startTime) >= timeout *)
TimedOut == now - start >= Timeout

GiveUp ==
    /\ pc = "got"
    /\ seen # "missing" /\ ~IsJobCompleted
    /\ TimedOut
    /\ Return("timeout")
    /\ UNCHANGED <<now, seen, clusterVars, fault>>

(* Mutant: startTime is taken inside the loop. *)
PollAgain_ResetsStart ==
    /\ pc = "got"
    /\ seen # "missing" /\ ~IsJobCompleted
    /\ ~TimedOut
    /\ start' = now
    /\ Sleep
    /\ UNCHANGED <<now, seen, result, clusterVars, fault>>

(* Mutant: the polling interval backs off to the time already waited. *)
PollAgain_Backoff ==
    /\ pc = "got"
    /\ seen # "missing" /\ ~IsJobCompleted
    /\ ~TimedOut
    /\ Enter("sleep", now - start + Latency)
    /\ wake' = now + (now - start)
    /\ UNCHANGED <<now, start, seen, result, clusterVars, fault>>

PollAgain ==
    /\ pc = "got"
    /\ seen # "missing" /\ ~IsJobCompleted
    /\ ~TimedOut
    /\ Sleep
    /\ UNCHANGED <<now, start, seen, result, clusterVars, fault>>

(* Pods().List, and pods.Items[0] of what it returns. *)
ListPods ==
    /\ pc = "list"
    /\ IF pod = "absent"
         THEN pc' = "panicked" /\ UNCHANGED due
         ELSE Enter("logs", Latency)
    /\ UNCHANGED <<now, wake, start, seen, result, clusterVars, fault>>

ListFails ==
    /\ pc = "list"
    /\ Return("listErr")
    /\ fault' = "api"
    /\ UNCHANGED <<now, seen, clusterVars>>

(* GetLogs(...).Stream: the pod may be gone since it was listed. *)
StreamLogs ==
    /\ pc = "logs"
    /\ pod # "absent"
    /\ Enter("decode", Latency)
    /\ UNCHANGED <<now, wake, start, seen, result, clusterVars, fault>>

StreamFails ==
    /\ pc = "logs"
    /\ \/ pod = "absent" /\ UNCHANGED fault
       \/ fault' = "api"
    /\ Return("logErr")
    /\ UNCHANGED <<now, seen, clusterVars>>

(* decoder.Decode takes the first document of the log, whatever follows it and
   whoever wrote it. It fails where there is none (io.EOF), or is cut off. *)
Decode ==
    /\ pc = "decode"
    /\ \/ log # "empty" /\ Return("results") /\ UNCHANGED fault
       \/ log = "empty" /\ Return("decodeErr") /\ UNCHANGED fault
       \/ Return("decodeErr") /\ fault' = "api"
    /\ UNCHANGED <<now, seen, clusterVars>>

-----------------------------------------------------------------------------
(* The cluster. The job allows no retry (backoff := int32(0)) and carries no
   deadline of its own: a pod that cannot start keeps it active for ever. *)

PodStarts ==
    /\ job = "active" /\ pod = "absent"
    /\ pod' = "running"
    /\ UNCHANGED <<now, clientVars, job, present, endedAt, podVars, fault>>

(* In host mode kdebug is a service of the host: it may also come to its end when
   the pod is gone. *)
KdebugEnds ==
    /\ mode = "host" /\ ~ran
    /\ pod = "running" \/ job \in {"complete", "failed"}
    /\ ran' = TRUE
    /\ UNCHANGED <<now, clientVars, job, present, endedAt, pod, mode, log, fault>>

(* What run-as-host prints: nothing when kdebug died after it had opened its
   output, a document that an earlier or another batch left in the file (see
   RunAsHost), or its own. *)
HostLog == {"empty", "other"} \cup (IF ran THEN {"own"} ELSE {})

(* The main process of the pod exits with 0. For kdebug itself that means that it
   has written its results; run-as-host looks at no verdict of its service. *)
JobCompletes ==
    /\ job = "active" /\ pod = "running"
    /\ job' = "complete" /\ endedAt' = now
    /\ pod' = "finished"
    /\ \/ mode = "container" /\ ran' = TRUE /\ log' = "own"
       \/ mode = "host" /\ log' \in HostLog /\ UNCHANGED ran
    /\ UNCHANGED <<now, clientVars, present, mode, fault>>

(* kdebug or run-as-host exits with an error, or the pod is evicted or deleted. *)
JobFails ==
    /\ job = "active" /\ pod = "running"
    /\ job' = "failed" /\ endedAt' = now
    /\ pod' \in {"finished", "absent"}
    /\ UNCHANGED <<now, clientVars, present, podVars, fault>>

(* The TTL controller removes the job ... *)
JobExpires ==
    /\ present /\ job \in {"complete", "failed"}
    /\ now >= endedAt + TTL
    /\ present' = FALSE
    /\ UNCHANGED <<now, clientVars, job, endedAt, pod, podVars, fault>>

(* ... and the garbage collector its pod. A pod may also be lost with its node. *)
PodIsCollected ==
    /\ pod = "finished"
    /\ pod' = "absent"
    /\ fault' = IF present THEN "pod" ELSE fault
    /\ UNCHANGED <<now, clientVars, job, present, endedAt, podVars>>

Tick ==
    /\ pc \notin Ended
    /\ now < due
    /\ now' = now + 1
    /\ UNCHANGED <<clientVars, clusterVars, fault>>

-----------------------------------------------------------------------------
Client ==
    \/ CreateJob \/ CreateFails \/ StartWait \/ WakeUp
    \/ GetJob \/ GetFails \/ JobIsComplete \/ GiveUp \/ PollAgain
    \/ ListPods \/ ListFails \/ StreamLogs \/ StreamFails \/ Decode

Cluster ==
    \/ PodStarts \/ KdebugEnds \/ JobCompletes \/ JobFails
    \/ JobExpires \/ PodIsCollected

(* executeTask has returned. *)
Finished == pc \in Ended /\ UNCHANGED vars

Next == Client \/ Cluster \/ Tick \/ Finished

Spec == Init /\ [][Next]_vars

(* The clock advances and executeTask takes its steps when their time is up.
   The cluster owes nothing: a job may stay active for ever. *)
FairSpec == Spec /\ WF_vars(Client) /\ WF_vars(Tick)

-----------------------------------------------------------------------------
Steps == {"create", "created", "sleep", "get", "got", "list", "logs", "decode"}

TypeOK ==
    /\ {now, due, wake, start, endedAt} \subseteq Nat
    /\ pc \in Steps \cup Ended
    /\ seen \in {"none", "active", "complete", "failed", "missing"}
    /\ result \in {"none", "results", "createErr", "getErr", "timeout", "listErr", "logErr", "decodeErr"}
    /\ job \in {"none", "active", "complete", "failed"}
    /\ present \in BOOLEAN
    /\ pod \in {"absent", "running", "finished"}
    /\ mode \in {"container", "host"}
    /\ ran \in BOOLEAN
    /\ log \in {"none", "own", "other", "empty"}
    /\ fault \in {"none", "api", "pod"}

(* executeTask is over within the timeout, one polling interval and eight
   latencies: the timeout is tested only after a sleep and a Get, and a job that
   completes in the last one still has its log read. A worker of the pool is
   blocked no longer, even when the job never ends. *)
MaxDuration == Timeout + Poll + 8 * Latency
BoundedWait == now <= MaxDuration

(* When calls succeed and no pod is lost, the log of a job that completes in time
   is read: the job is seen, and its pod is listed and its log read, before the TTL
   controller takes both away, so executeTask does not panic on an empty pod list.
   It then returns what the log holds, and the one error left is that of a log
   without a document, which only host mode can produce. A completed job is
   reported as a timeout only when it completed at the very end of the wait.
   Nothing but their lengths keeps polling, timeout and TTL apart: they run on
   clocks of their own. *)
Reliable == fault = "none"
CompletedJobIsRead ==
    Reliable =>
        /\ pc # "panicked"
        /\ pc = "done" /\ job = "complete" =>
             \/ result = "results" /\ log # "empty"
             \/ result = "decodeErr" /\ log = "empty" /\ mode = "host"
             \/ result = "timeout" /\ endedAt + Latency >= start + Timeout

(* The results come from a job that completed, whatever fails in between, and in
   container mode from the kdebug of this task. In host mode they are its own only
   when its document is the first in the log. *)
ResultsAreFromCompletedJob ==
    result = "results" =>
        /\ job = "complete"
        /\ mode = "container" \/ log = "own" => ran

(* The error "timeout waiting for Kubernetes job" is about a job that had not
   finished when executeTask last looked at it. *)
TimeoutMeansUnfinished == result = "timeout" => seen = "active"

(* The task is what its worker expects: it returns once, and results only of a
   kdebug that wrote them. In container mode that is the kdebug of this task. In
   host mode it may be one of another batch, whose document precedes this one's or
   stands in its place: the promise of TaskSpec holds there with `ran' read as
   "some kdebug on that machine has written the document in the log". *)
TaskState ==
    IF pc = "done" THEN IF result = "results" THEN "results" ELSE "error"
    ELSE IF pc = "panicked" THEN "panicked" ELSE "running"

SomeKdebugRan == ran \/ log = "other"

Task == INSTANCE TaskSpec WITH state <- TaskState, ran <- SomeKdebugRan

RefinesTask == Task!Spec

(* executeTask returns (or panics), whatever becomes of the job. *)
TaskEnds == <>(pc \in Ended)
=============================================================================
