# A verification development for kdebug

kdebug runs diagnostic checks on a Kubernetes node, or on a batch of nodes from
somewhere else. This directory holds TLA+ models of the parts of it in which
several actors meet, the TLC runs that check them on small instances, and TLAPS
proofs that hold for every instance. Paths are relative to the repository.

## 1. Inventory

| component | source | state | operations | what is hard |
|---|---|---|---|---|
| entry point | `cmd/main.go`, `cmd/pause.go` | options, output file | parse, choose mode, check / batch / tool, exit code | order of mode decisions, output appended, exit code |
| batch front end | `cmd/batch.go`, `pkg/batch/*_discoverer.go` | machine list | discover, choose executor, concurrency, report | duplicates and blank lines in the list, API timeout, formatter that cannot print a batch |
| worker pool | `Execute`, `startWorker` of `pkg/batch/pod_executor.go` and `ssh_executor.go` | two bounded channels, goroutines, result slice | spawn, send, receive, execute, collect, close | interleaving of senders, workers and collector; send on a closed channel; lost or repeated tasks; circular waits; a panic in one worker |
| pod task | `executeTask` of `pkg/batch/pod_executor.go` | job, pod, clock | create, poll, time out, list, read log, decode | timeout against late completion, TTL controller, stale reads, failed API calls, empty pod list |
| ssh task | `executeTask`, `copyExecutable` of `pkg/batch/ssh_executor.go` | `/tmp/kdebug` on the machine | dial, copy, run, decode | no timeout; a machine named twice; a copy cut off or overlapping another; a command that outlives its connection |
| run-as-host | `cmd/run-as-host/main.go` | systemd unit, output file and service of the host | copy, write unit, reload, start, wait, read, remove, print | killed half way, left-over files, overlapping invocations, lost D-Bus signal |
| checkers | `pkg/checkers/**` | per-checker counters and target lists | `Check` of each | fan-out goroutines (tcp, icmp), unsigned differences (system load), order dependence (pod schedule), one bad record hiding the others (oom) |
| formatters | `pkg/formatters` | none | text, json, oneline, each for results and batch results | results that are dropped |
| environment | `pkg/env` | flags | detection | what is read may be absent, fail or change while it is read |
| tools: aadssh | `pkg/tools/aadssh` | key, public key and certificate files, ssh agent | load or create key, load or acquire certificate, add to agent | concurrent first runs, torn file, certificate of another key, unsigned lifetime |
| tools: others | `pkg/tools/{tcpdump,netexec,upgradeinspector,vmrebootdetector}` | none | refuse arguments, run one program after another, parse output | the namespace a program runs in; a first program that fails; a filter joined from three endpoints |

How they interact: `cmd/main.go` chooses one of three modes. In batch mode
`cmd/batch.go` takes a machine list from a discoverer and hands it to an
executor. The executor's pool calls `executeTask` once per machine. The pod
executor's task makes the cluster start a pod on the node, which runs kdebug
itself or, in host mode, `run-as-host`, which makes the host's systemd run
kdebug with `--output`; the results come back as JSON through the output file,
the pod's log and `json.Decoder`. The components communicate by Go channels
(pool), by polling an API (pod task), over SSH (ssh task), and by files that outlive the process
(run-as-host, aadssh).

What makes each correct:

* worker pool: one result per machine, each machine executed once, no send on a
  closed channel, no circular wait, no worker left behind;
* pod task: bounded time; results are of a completed job; the log of one that
  completes in time is never lost to the TTL; the error says what happened;
* ssh task: what it runs is what it copied; results are of a command that ended;
  a machine that hangs costs a worker and no other machine;
* run-as-host: what it prints is of its own command; the host is clean
  afterwards; it ends;
* aadssh: key, public key and certificate in use belong together; the agent
  forgets the key when the certificate expires;
* checkers: each result is a function of the machine's state, not of the order
  in which records or answers arrive; repeated checks agree;
* tools: nothing is started after a failure; a program runs in the namespace that
  was asked for; the filter shows what was asked for.

## 2. Modules

| module | models | abstracts |
|---|---|---|
| `BatchSpec` | what `BatchExecutor.Execute` promises: a partial report that grows by one machine at a time and is complete on return | everything inside |
| `BatchExecutor` | both `Execute` functions and `startWorker` | a machine is its position in the list, `executeTask` is one step with any outcome |
| `BatchExecutorProofs` | theorems about the pool | |
| `TaskSpec` | what `executeTask` of either executor promises its worker: results only of a kdebug that ran to its end (in host mode any kdebug of that machine), or an error | everything inside |
| `PodTask` | the pod executor's `executeTask`, the job, TTL and garbage collection controllers, and time | job and pod are their phase; of the log only whose document comes first, if any does |
| `PodTaskProofs` | theorems about the task | |
| `SshTask` | the SSH executor's `executeTask` for any number of tasks on machines that several of them may share, with the file, the writers and the processes there | a kdebug is the file it was started from: this one, an old one, somebody else's, a damaged one |
| `SshTaskProofs` | theorems about the tasks | |
| `SshBatch` | `BatchExecutor` and `SshTask` composed: `executeTask` takes many steps | |
| `MCSshBatch` | a list that names one machine twice | |
| `SshBatchProofs` | theorems about the composition | |
| `RunAsHost` | `cmd/run-as-host` and the host's systemd, for several invocations | a document is the invocation whose unit produced it |
| `RunAsHostProofs` | theorems about invocations that do not overlap | |
| `AadSsh` | `Run` of `pkg/tools/aadssh`, for several runs over one home directory, with time | a key is the run that generated it; a public key and a certificate are the key they belong to |
| `AadToken` | `acquireCertificate`, `acquireTokenByAzureCLI` and `RoundTrip`: every way in which a certificate is asked for and that ends | a token is usable or not, a request is its path and the key in it |
| `AadSshProofs` | theorems about runs that do not overlap | |
| `Checkers` | what `Check` of each of the fourteen checkers can return, as sets of outcomes | a result is passed or failed; what was measured is any value |
| `PingFanout` | the goroutines and the channel of the tcp and ping checkers | an answer is the target it is about and whether it succeeded |
| `PingFanoutProofs` | lemmas: no question is lost or answered twice | |
| `SystemLoad` | the arithmetic of the system load checker, in unsigned words | counters of the CPU are idle, busy and guest |
| `Environment` | the flags of `pkg/env` as a function of what is found on the host | |
| `Tools` | the tools: arguments refused, programs started, tcpdump's filter, what upgradesinspect lists | a log line is old, recent or broken off; a packet is two endpoints and whether it is TCP |
| `Kdebug` | one process from its options to its exit code: `cmd/main.go`, `cmd/batch.go`, `pkg/checkers/checker.go`, the discoverers and formatters; extends `Checkers`, `PingFanout`, `Environment` and `Tools` | `Execute` is one step with what `BatchSpec` allows; a document is its numbers |
| `KdebugProofs` | theorems about one process | |
| `MCKdebug` | command lines and machines to check it on | |

### BatchExecutor

`pc` is where `Execute` stands, `senders` are the goroutines of the loop over
`opts.Machines` that still hold their task, `taskChan` and `resultChan` are the
buffered channels (a sequence with the capacity as guard of a send), `wpc` and
`held` are the workers, `outcome` is what a `BatchResult` points to, `results`
is the returned slice. One action is one channel operation, spawn or task
execution. The collecting loop's receive, append and `OnResult` are one action:
nobody else reads the slice, and the progress bar only counts. `PanicInTask` ends
the process for the pod executor, whose `executeTask` can panic (module
`PodTask`). After `Execute` has returned the workers go on until they see the
closed channel.

### PodTask

Every step of `executeTask` is an action that must be taken before the clock
passes `due`, so a step takes between no time and `Latency` (the sleep: between
`Poll` and `Poll + Latency`). That bound is an assumption: the code passes
`context.Background()` to every call. A call is split where it matters: `Create` and `Get` have a
step at the API server and one at the return, so that a lost response and a
stale answer are possible. Any call may fail and the pod of a finished job may
be taken away; the history variable `fault` records that this has happened, for
the properties that hold of a run without it. The cluster's controllers are
external and as free as Kubernetes leaves them: a job may stay active for ever,
may fail at any time, is deleted at any time after its TTL, its pod at any time
after that.
The clock stops when `executeTask` returns.

What a completed job means depends on `mode`, container or host (the default). In
container mode the pod's process is kdebug itself, which exits with 0 only after it has
written its results. In host mode it is `run-as-host`, which looks at no verdict of its
service: kdebug may have died after it opened its output, so that the log is empty, or
the file may have begun with another kdebug's document (`RunAsHost`, run `host_stale`).
`ran` is whether this task's kdebug has run to its end, `log` whose document is first in
the log: "own", "other", or "empty". `Decode` takes what is first and fails on an empty
log. `CompletedJobIsRead` hence promises that the log is read, and names this one error;
and `Task` (an instance of `TaskSpec`) takes `TaskState` for its state and
`SomeKdebugRan` for its `ran`: this task's kdebug, or in host mode the one whose document
was found. In container mode that is the task's own, which `ResultsAreFromCompletedJob`
states by itself.

### SshTask and SshBatch

`step` is where each `executeTask` stands; `binary`, `writers`, `procs` and `clash`
are `/tmp/kdebug` of each machine, the scp processes that have it open, the kdebug
processes that execute it, and the machines on which copies overlapped. The
kernel refuses to write a file that is being executed and to execute one that is
being written, and both refusals end a task with an error. `OpenCopy` truncates,
`FinishCopy` completes: in between the file is cut, and after an overlap it may be
mixed. Every step may fail (`StepFails`, `RunFails`); a failed run may leave its
process behind (`OrphanEnds`). `ForeignCopy` is another user's batch that replaces
the file. A machine may hang for ever; only scp has a deadline (a minute, in the
client library). `disturbed` and `ended` are history: the tasks that met a failure,
and those whose kdebug ran to its end.

`SshBatch` instantiates both modules over the same variables. `Receive` of the pool
is `Start` of the task, `ExecuteTask` of the pool is the step in which the worker
takes over the task's verdict; in between the pool stands still for that worker
and the task takes its steps. `ImplementsPool` says that this is the pool of
`BatchExecutor`, `TasksImplement` that each task is what `TaskSpec` promises.

### RunAsHost

The host's state (`unit`, `loaded`, `service`, `svcFile`, `out`, `outExists`)
outlives the invocations. `log.Fatalf` is `Fatal`: the process stops and cleans
nothing. Each call of `main` may fail, the reading and the two removals at the end
included. The service opens its output file for appending some time after it was
started and writes one document at the end, or none (`ServiceFails`: kdebug's
own failure, or systemd's `TimeoutSec=60`); `svcFile` records that the file it
opened has been removed meanwhile. A pod can be killed at any step, and the end
of the service may come too late or its signal get lost, so that the 75 s timer
fires. `uncleaned` (history) records the invocations that ended in one of these ways, or
because they could not read or remove a file while the output was there
(`LeavesBehind`): the only ones that can leave a document for the next.
`overlaps` counts the invocations that
began while another was under way, up to `MaxOverlaps`. Copying and writing
the unit are single steps; two invocations write the same binary.
systemd's rules used here: a unit that is not loaded cannot be started, a start
of a unit that is starting is merged with the one under way, every waiting
client is told of the end.

### AadSsh

`keyFile`, `pubFile` and `certFile` are `id_rsa`, `id_rsa.pub` and
`id_rsa-cert.pub` under `~/.aad-ssh`; `key` and `cert` are what a run has in
memory; `agent` is what was added to the ssh agent, when, and for how long (0 is for ever to the
agent). A certificate is valid `from` a time `until` a time; AAD's clock may be ahead by
up to `MaxSkew`, so that one just acquired may not be valid yet for the next run.
Each run goes through `Run` one file operation at a time, because each is a point
at which another run can come in between or the user can interrupt: the test for
the key and its creation are two steps, and so are the creation (which truncates)
and the write of each file, between which a killed run leaves it torn. The lifetime
handed to the agent is computed modulo `Modulus`, which stands for `2^32`. That
Azure AD refuses a certificate or the agent refuses the key is an external
choice, recorded in `refused`. `AadToken!Outcomes` are the ways in which
`acquireCertificate` can end, over every configuration and token cache: a
certificate, a refusal, an unsupported cloud, no token, an access token that is no
certificate, a panic on an account without a dot. A map of Go yields its entries in
any order, so any entry of the right type may be the one that is taken.

### Kdebug

`pc` goes through the stages of `main` in the order of its early returns; each
action ends with `Goto` (the next stage) or `Exit` (an exit code: `log.Fatal` is
1, a panic in the pod executor 2). `todo` and `results` are the two slices of
`Check`; `documents` and `shown` are what the formatters wrote. The tcp and ping
checkers leave the sequential control and run `PingFanout`, one goroutine per
target; `kept` is the target list inside the ping checker, the only state a
checker carries from one `Check` to the next. Every other checker returns one
element of `Outcomes`. `ran` and `ioFailed` are history for the properties.

`Flags` is what `Environment!GetFlags` finds on the host of the process. In tool mode
`ParseToolArgs` refuses what the tool's parser refuses, `RunProgram` starts the next
of `Programs` and ends the process when it fails (unless it is ssh, whose end is not
looked at), `ToolReturns` prints and ends, `ToolPanics` is an index out of range.
`started` lists the programs with the network namespace each runs in.

`SystemLoad` compares percentages without dividing (the code computes them in
floating point from the same unsigned differences). `Modulus` stands for `2^64`.

## 3. Runs

| run | question | instance | why it is enough |
|---|---|---|---|
| `batch_pool` | safety of the pool, does `Execute` return, do the workers exit, does it implement `BatchSpec` | 5 machines, 1 worker, 2 outcomes, pod executor | 5 tasks exceed the 3 places of the two channels and the worker, so every kind of wait occurs; `FailNamespace` and `PanicInTask` included. Competing workers are in `ssh_batch`, and the safety proofs hold for any number |
| `ssh_batch` | the pool with the steps of the SSH task inside it | 3 entries of which two name the same machine, 2 workers, one failure, one machine that hangs | two tasks meet on one machine in every pair of steps while another task is alone; a failure or a hang hits any of them |
| `pod_task` | races of polling, timeout and TTL, with failing calls and lost pods, in container and host mode | `Poll` 2, `Latency` 1, `Timeout` = `TTL` = 10 | `Poll + 7 * Latency` is TTL - 1, the tightest instance the assumption allows; TTL = Timeout as in the code (300 s) |
| `pod_task_timeout` (violation) | is "timeout waiting for Kubernetes job" true when it is said | same | |
| `host` | invocations any of which may fail or be killed at any step, at most one overlap: which documents are printed, what is left, do all end | 3 invocations, 1 overlap | the second meets what the first left, the third what the second left; each pair of steps of two invocations and the service meets |
| `host_stale` (violation) | is the first document printed one's own, after an interruption or a failed removal | 2 invocations | |
| `aad_killed` | runs one after the other, killed at any step, with a certificate that expires | 3 runs, clock up to 4, certificates valid for 2, `MaxSkew` 1, `Modulus` 16 | the second run meets every torn or missing file, the third what the second repaired; a certificate expires during and between runs |
| `aad_concurrent` (violation) | does the certificate in use certify the key in use | 2 runs at once | |
| `aad_lifetime` (violation) | does the agent forget the key with its certificate | 1 run | |
| `kdebug` | what is written, what is started and the exit code, in every mode | four machines (two idle cores on a laptop, nodes inside and outside Azure, one with guests or broken counters), 2744 initial states: all combinations of the mode options and of the batch options; every tool with arguments it takes and refuses; all 14 checkers, repeated and unknown names; two items of whatever a checker looks at, three pods | ping named twice has four goroutines, two of them for targets kept from before; a count of two of everything tells none, one and many apart; every subset of the parts of tcpdump's endpoints against every packet of two addresses and ports; `Modulus` 65536 is above every product |
| `tool_namespace` (violation) | does a command started with `--pid` run in that process's network namespace | same | |
| `tool_filter` (violation) | does `--host=<ip>:<port>` show packets of that one end only | same | |

`batch_pool`, `ssh_batch`, `host` and `kdebug` switch the deadlock check off: there
a state in which nobody can move is what the liveness property itself excludes
(in `ssh_batch` a batch really stops when every worker holds a machine that hangs).
Everywhere else the normal end is an explicit stuttering action (`Finished`),
and any other state without a successor is an error.

`TimeoutMeansUnfinished` and the other properties of the violation runs are what the
code's own text says; the runs show that it is not so.

Fairness. `BatchExecutor!Fairness`: the Go scheduler runs every goroutine that
can run (weak fairness of `Execute`, of each sender and of each worker). That
`executeTask` returns is part of a worker's fairness: justified for the pod
executor by `PodTask` (under its `Latency`), an assumption for the SSH executor,
which sets no deadline. `SshBatch!Fairness` drops it: a worker inside `executeTask`
goes on only as `Ssh!Progress` does, fair for a machine that answers, and for scp
on one that does not; failures, hanging and other users are not fair. `PodTask!FairSpec`: the clock advances and
`executeTask` takes its steps; the cluster is not fair. `RunAsHost!FairSpec`:
each invocation's process and timers run, systemd ends the service
(`TimeoutSec`); being killed is not fair. `Kdebug!FairSpec`: the process takes its
steps, and every goroutine of a fan-out has its answer or its timeout (1 s in
both checkers) and sends it. `MayWait` is excepted, and with it in `MainEnds`: a
paused process that no signal comes to, a tool whose program goes on (tcpdump does), and
a batch over SSH, because `ssh.Dial` and `sess.Output` have no timeout
(`OthersAreServed` is what holds of such a batch). That a sequential checker ends is
assumed, and that a pod batch does, which is what `PodTask!TaskEnds` (under its
`Latency`) and `BatchExecutor!Terminates` say.

### What the violation runs show

* `pod_task_timeout`: `isJobCompleted` looks for the condition `Complete` only.
  A job whose pod fails, which with `backoffLimit: 0` is final, is polled for
  five minutes and reported as a timeout.
* `host_stale`: an invocation that ends in `log.Fatalf` or is killed after its
  service was started, a failed removal of the unit or of the output included, leaves `/tmp/kdebug.stdout.log` behind; kdebug appends to it, so
  the next invocation prints the old document first, and the pod executor
  decodes the first one. `LastIsOwn` (run `host`) shows that the last
  one would be right, `OnlyLeftOversAreStale` that nothing else leaves a document behind.
* `aad_concurrent`: between the test for the key and the write of it, another
  first run can write its own. The certificate is accepted by its dates only, so
  a run loads, and puts in the agent, a certificate of a key it does not have.
* `aad_lifetime`: the lifetime is `now - ValidBefore` instead of `ValidBefore - now`,
  negative for a valid certificate and, in 32 bits without sign, more than a
  century.
* `tool_namespace`: `nsenter -n -t <pid>` without a command moves itself and a shell
  that has no input and ends. `netexec` and `tcpdump` wait for it and then start
  the command, or tcpdump, themselves, in their own namespace.
* `tool_filter`: "`--host` matches either source or destination" (`README.md:162`), and
  the example there has an address and a port, `--host=10.0.0.1:1000`. The filter joins
  `host 10.0.0.1` and `port 1000`, each of which looks at either end: packets from
  10.0.0.1 to port 1000 of another machine are shown too. `FilterMatchesEachOption` (run
  `kdebug`) says what does hold: nothing that was asked for is hidden, and each part of
  each option holds of what is shown.

`FailsOnlyWhenRefused` (run `aad_killed`) excepts a torn private key: a run killed in
`os.WriteFile` leaves a file that every later run refuses, until the user deletes
it. Nothing in the repository promises otherwise, so it is not a finding.

Behaviour that the models show and that nothing in the repository promises
otherwise: `-f json` prints nothing of a batch and `-f oneline` refuses after the
batch has run; the text formatter loses a report it cannot write without an
error; naming ping n times makes its n-th `Check` ping every public target n
times; on Azure ping has no targets at all; two pods without a node count as
pods on the same node, and one pod without a node does or does not, depending on
its place in the list (`Checkers!SameNode`; `ScheduleIsOfNodes` is about pods that
have nodes); `getTotalTime` counts guest time twice, so that a machine with guests
may be called busy that is not (`LoadIsReported` says it errs on this side only);
netexec panics on a command of blanks, upgradesinspect on a line that was broken off,
aadssh on an Azure CLI account without a dot.

Disagreements that no run is needed for: `getBatchDiscoverer` counts the label selector
as a request for machines from the API server (`cmd/batch.go:15`), `IsBatchMode` does not
(`cmd/main.go:58`), so that alone it makes kdebug check the local machine; `README.md:166-195`
calls the tools `vmrebootdetector` and `upgradeinspector` that the registry calls
`vmrebootinspect` and `upgradesinspect`; `-A` and `-i` are put after the user's
arguments of ssh (`getSSHArgs`), where they belong to a remote command if there is
one.

## 4. Proofs

`BatchExecutorProofs` assumes what `BatchExecutor` assumes of its constants: `N`
is a natural number, `Workers` is finite and not empty (`cmd/batch.go` never
passes a concurrency below 1), `NoOutcome` is no outcome, `Kind` is one of two.

* `TypeInv` is `TypeOK` and that a worker that executes or sends holds a task;
  it is inductive by itself (`TypeInit`, `TypeStep`) and gives `TypeCorrect`.
* `IInv` adds `Conservation` (each started task is in exactly one of senders,
  task channel, workers, result channel, results), `OutcomeInv` (exactly the
  tasks past a worker's execution have an outcome) and `MainInv` (how many
  senders exist and results are there at each stage of `Execute`). None of the
  checked invariants is inductive alone: that nobody can send on the closed channel
  needs that `N` results without duplicates are all tasks, which needs
  injectivity of every stage before. Each action has a lemma that says which set
  a task leaves and which it enters; `SendLemma` and `ReceiveLemma` say it of a
  channel, `PigeonholeLemma` closes the argument (`AllCollected`).
* From `IInv`: `ConservationHolds`, `ResultsAreRealHolds`, `NoSendOnClosedHolds`,
  `CompleteOnReturnHolds`, `ExecutedOnceHolds` and the refinement
  `PoolRefinesBatch` (`Collect` is `Complete`, `CloseAndReturn` is `Return`,
  `FailNamespace` is `Fail`, `PanicInTask` is `Crash`, all else stutters).
* What liveness needs besides fairness is proved for every size too, as two safety
  properties. `StuckTasksHoldUpNoOthers`: in every reachable state all is over, or a
  goroutine can go on, or all tasks have results but those that never return, as long
  as these are fewer than the workers. `ENABLED` is beyond the prover, so what can go on
  is spelled out as the guards of the actions (`MainMoves`, `SenderMoves`, `WorkerMoves`);
  `WorkersInv` (all workers exist before the first task, none leaves an open channel) and
  a pigeonhole argument (the stuck tasks cannot hold all workers) are what it rests on.
  Without stuck tasks it says that the pool never deadlocks (`PoolNeverDeadlocks`).
  `PoolWorkIsBounded`: each step takes something off `Work`, a natural number that
  counts for each task and each worker what is still ahead of it. The pool hence stops
  after at most `3 + 6 * N + 2 * Cardinality(Workers)` steps, and only because it is done.

`PodTaskProofs` assumes that the four durations are natural numbers and that
`Poll + 7 * Latency < TTL`. `IInv` bounds the deadline of each step twice: from the
start (`DueInv`, giving `BoundedWaitHolds`) and from the completion of the job
(`LagInv`, giving with `ReliableInv` `CompletedJobIsReadHolds`: a completed job
cannot expire before its log is read; `JobInv` ties the log to the mode and to `ran`). The durations of the code (5 s, 300 s,
300 s) satisfy the assumption for every latency up to 42 s.

From the same invariants follow `TypeOKHolds`, `ResultsAreFromCompletedJobHolds` and
`RefinesTaskHolds`: the task implements `TaskSpec`, with `SomeKdebugRan` for its `ran`.

`SshTaskProofs` is about any set of tasks and any assignment of machines. `StepInv`
ties `writers`, `procs`, verdicts and `ended` to the steps of the tasks, `FileInv`
says how `/tmp/kdebug` has become what it is (cut only by a task that is copying or
was disturbed, mixed only where tasks share the machine), `AloneInv` what a task
that is alone and undisturbed finds at each step. `RunsWhatWasCopied` is not
inductive by itself, because it says nothing of the file before it is executed.
For `TasksImplementHolds`, a task that decodes results executed a kdebug that was
not damaged, whose end is recorded in the same step.

`SshBatchProofs` assumes what both modules assume. `ImplementsPoolHolds` maps every
step to a step of the pool or to none; with it the safety theorems of
`BatchExecutorProofs` hold of the composition (`PoolIsSafeHolds`), as do those of
`SshTaskProofs`, each of whose steps is one of the composition. `ResultsAreOfRunsHolds`
joins the two: an outcome in the pool is the verdict of that task. `OthersGoOnHolds` joins
`StuckTasksHoldUpNoOthers` with the guards of the tasks' own steps, where the stuck tasks are
those for machines that have stopped answering. It needs that a worker's task has begun
(`BegunInv`) and that no task in the channel has (`WaitingInv`).

`AadSshProofs` is about runs that do not overlap (`Concurrent = FALSE`), for any
number of them, any time and any modulus. The inductive invariant says of each
stage of the active run which of the files and of the values in its hands agree;
`BelongTogetherHolds`, `KeyIsStableHolds`, `FailsOnlyWhenRefusedHolds` and
`TypeOKHolds` follow. The first is false of overlapping runs, as `aad_concurrent`
shows.

`RunAsHostProofs` is about any number of invocations while `overlaps = 0`. Its invariant
is conditional on that, and inductive because overlaps are counted and never forgotten
(`OverlapStep`). `TurnInv` says that one invocation is under way at a time and finds the
unit, the loaded unit and the service as it left them: a service that an interrupted
invocation left running makes the next one fail at `CopyFile`, so it has ended before
anything else is touched. `LastInv` follows a document through the file into what is
read. `StaleInv` says whose documents are in the file and in what has been read: those of
the invocation that is waiting, reading or removing, and of invocations in `uncleaned`; a
file that exists needs one of these, which gives `LeavesNoOutputHolds` as well as
`OnlyLeftOversAreStaleHolds`.

`PingFanoutProofs` counts: the questions of each target are with a goroutine, in the
channel or among the answers, and a step moves one of them (`PlacesOfAppend` and
`PlacesOfTail` are the two ends of a channel). When as many answers have been received
as there are targets, the rest is empty (`FanDone`). By the same count the channel has room
for every answer that is under way, and while one is missing there is one under way or in
the channel (`FanoutNeverBlocks`, and `FanoutNeverWaitsForEver` of a process of kdebug).

`KdebugProofs` assumes that a command line has every option and that its
checkers and machines are finite lists
(`CommandLinesAssumption`) and that the nodes, the machine file and the processes of a
machine are finite lists (`MachinesAssumption`). `PlaceInv` says which mode each stage of `main` belongs to,
which is what makes the properties of one mode hold in all others; `ReportInv` is the
loop invariant of `Check` (checkers run plus checkers left are all, what is collected is
what was returned); `ExitInv` says what each exit code means and `ToolInv` that all
programs before the next one have succeeded. Nothing is assumed of what a checker
returns. `FilterMatchesEachOptionHolds` and `LoadIsReportedHolds` are about every filter and every
load, not about reachable states: the first from what a filter shows
(`WhatTheFilterShows`), the second from the fact that a number below `Modulus` is its own
remainder (`Small`).

Two loops of the program are functions defined by recursion, over the list of pods
(`SameNode`) and over the list of nodes (`NodeNames`). The prover has no induction
over an operator, so what they compute is proved by descent: among the lengths
for which the claim fails there would be a least one (`WFMin` and
`NatLessThanWellFounded`, which need a set only), and one turn of the loop contradicts it.
`SameNodeIsOneNode` and `NodeNamesAreOfTheSelected` are about all lists.
`BatchShowsEveryMachineHolds` follows a batch with an auxiliary invariant, `BatchInv`: the
machines of the batch are those discovered, what is shown of a machine is counted, and
counts survive the permutation in which the results come back. `TypeOKHolds` has one as well,
`TypeInv`: what each checker collects is a pair of natural numbers.

Only model-checked: liveness (`Terminates`, `WorkersExit`, `TaskEnds`,
`OthersAreServed`, `RunsEnd`, `MainEnds`), which needs fairness and `ENABLED` and is out of
the prover's reach. Every other property of a passing run is a theorem.

## 5. Plan

Done: `BatchSpec`, `BatchExecutor`; `TaskSpec`, `PodTask`, `SshTask`, `SshBatch`;
`RunAsHost`; `AadSsh`, `AadToken`; `Checkers`, `SystemLoad`, `PingFanout`,
`Environment`, `Tools`, `Kdebug`; proofs of every invariant and action property the runs
check, of the refinements, and of the safety halves of liveness for the pool, the SSH
executor and the probes of a ping.

Next: the safety half of `TaskEnds` and of `RunsEnd` (that a task and an invocation of
run-as-host always have a next step, and how many they take), and a measure for a whole
process of kdebug and for the composed SSH batch as there is for the pool.

## 6. Not modelled

* The pod templates (`getPodTemplateSpec*`): data, no control.
* The text of results and of batch reports, colours, the progress bar: layout.
* What the dns, http and disk usage checkers measure: the outcome of one probe
  each, which is any value; the description of a pod's restarts (kubepod), which is
  text.
* A unit file that a failed or interrupted write leaves truncated: the next invocation
  writes it anew before it loads it.
* Encoding of keys, of certificates and of the token request; ssh's arguments.
* Client code of Kubernetes, Azure, D-Bus, MSAL and scp: external, modelled only as
  far as the code in the repository depends on it.
