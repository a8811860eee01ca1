------------------------------ MODULE SshTask --------------------------------
(***************************************************************************)
(* SshBatchExecutor.executeTask (pkg/batch/ssh_executor.go): connect to    *)
(* the machine, copy the running kdebug to /tmp/kdebug there, execute it   *)
(* in a second session and decode what it printed. Tasks run in parallel   *)
(* and share the file when they are for the same machine, one that is      *)
(* named twice in the list, and with everybody else who runs a batch.      *)
(*                                                                         *)
(* The machine's kernel refuses to write a file that is being executed and *)
(* to execute one that is being written (ETXTBSY). scp writes in place: a  *)
(* copy that is cut off leaves a truncated file, two that overlap perhaps  *)
(* a mixed one. A lost connection does not end the process it has started. *)
(***************************************************************************)
EXTENDS Naturals, FiniteSets

CONSTANTS Tasks,
          MachineOf,    \* the machine of a task
          MaxDisturbed,    \* bound on the tasks that meet a failure,
          MaxHung       \* and on the machines that stop answering

Machines == {MachineOf[t] : t \in Tasks}

VARIABLES
    step,       \* the step each task is in
    verdict,    \* "results" or "error", once its result is returned
    executed,   \* what the machine executed for it
    binary,     \* /tmp/kdebug of each machine, see Contents
    clash,      \* the machines where copies overlap that are under way
    writers,    \* the tasks whose scp has the file open
    procs,      \* the tasks whose kdebug is running
    hung,       \* the machines that have stopped answering
    ended,      \* history: the tasks whose kdebug has run to its end
    disturbed   \* history: the tasks that met a failure, or whose copy was replaced

local == <<step, verdict, executed>>
remote == <<binary, clash, writers, procs>>
history == <<ended, disturbed>>
vars == <<local, remote, hung, history>>

(* This kdebug, that of an earlier batch or of somebody else, or what a copy
   leaves that was cut off or overlapped with another. *)
Damaged == {"cut", "mixed"}
Contents == {"this", "old", "foreign"} \cup Damaged

On(set, m) == {t \in set : MachineOf[t] = m}
Answers(t) == MachineOf[t] \notin hung

Init ==
    /\ step = [t \in Tasks |-> "idle"]
    /\ verdict = [t \in Tasks |-> "none"]
    /\ executed = [t \in Tasks |-> "none"]
    /\ binary = [m \in Machines |-> "old"]
    /\ clash = {} /\ writers = {} /\ procs = {} /\ hung = {}
    /\ ended = {} /\ disturbed = {}

Goto(t, s) == step' = [step EXCEPT ![t] = s] /\ UNCHANGED verdict

Return(t, v) ==
    /\ step' = [step EXCEPT ![t] = "done"]
    /\ verdict' = [verdict EXCEPT ![t] = v]

Disturb(t) ==
    /\ Cardinality(disturbed) < MaxDisturbed
    /\ disturbed' = disturbed \cup {t}
    /\ UNCHANGED ended

-----------------------------------------------------------------------------
(* A worker calls executeTask. *)
Start(t) ==
    /\ step[t] = "idle"
    /\ Goto(t, "connect")
    /\ UNCHANGED <<executed, remote, hung, history>>

(* createSshClient: the agent's socket, TCP, handshake, authentication. *)
Connect(t) ==
    /\ step[t] = "connect" /\ Answers(t)
    /\ Goto(t, "open")
    /\ UNCHANGED <<executed, remote, hung, history>>

(* Mutant: the error of copyExecutable is logged only. *)
StepFails_CopyIgnored(t) ==
    /\ step[t] \in {"connect", "open", "copy", "session"}
    /\ IF step[t] = "copy" THEN Goto(t, "session") ELSE Return(t, "error")
    /\ writers' = writers \ {t}
    /\ Disturb(t)
    /\ UNCHANGED <<executed, binary, clash, procs, hung>>

(* Any step up to the start of the command fails, or loses the connection. *)
StepFails(t) ==
    /\ step[t] \in {"connect", "open", "copy", "session"}
    /\ Return(t, "error")
    /\ writers' = writers \ {t}
    /\ Disturb(t)
    /\ UNCHANGED <<executed, binary, clash, procs, hung>>

(* copyExecutable: the remote scp opens /tmp/kdebug. *)
OpenCopy(t) ==
    LET m == MachineOf[t] IN
    /\ step[t] = "open" /\ Answers(t)
    /\ IF On(procs, m) # {}
         THEN Return(t, "error") /\ UNCHANGED <<binary, clash, writers>>
         ELSE /\ Goto(t, "copy")
              /\ binary' = [binary EXCEPT ![m] = "cut"]
              /\ writers' = writers \cup {t}
              /\ clash' = IF On(writers, m) = {} THEN clash \ {m} ELSE clash \cup {m}
    /\ UNCHANGED <<executed, procs, hung, history>>

(* The file is complete, unless somebody else wrote to it in between. *)
FinishCopy(t) ==
    LET m == MachineOf[t] IN
    /\ step[t] = "copy" /\ Answers(t)
    /\ Goto(t, "session")
    /\ \E content \in IF m \in clash THEN {"this", "mixed"} ELSE {"this"} :
           binary' = [binary EXCEPT ![m] = content]
    /\ writers' = writers \ {t}
    /\ UNCHANGED <<executed, clash, procs, hung, history>>

(* The scp client gives up after a minute, the only deadline of the task. *)
CopyTimesOut(t) ==
    /\ step[t] = "copy" /\ ~Answers(t)
    /\ Return(t, "error")
    /\ writers' = writers \ {t}
    /\ disturbed' = disturbed \cup {t}
    /\ UNCHANGED <<executed, binary, clash, procs, hung, ended>>

(* Mutant: the command is started without waiting for the copy. *)
StartRun_Early(t) ==
    LET m == MachineOf[t] IN
    /\ step[t] \in {"copy", "session"} /\ Answers(t)
    /\ IF On(writers, m) # {}
         THEN Return(t, "error") /\ UNCHANGED <<executed, procs>>
         ELSE /\ Goto(t, "run")
              /\ executed' = [executed EXCEPT ![t] = binary[m]]
              /\ procs' = procs \cup {t}
    /\ UNCHANGED <<binary, clash, writers, hung, history>>

(* NewSession, and the command of sess.Output is started. *)
StartRun(t) ==
    LET m == MachineOf[t] IN
    /\ step[t] = "session" /\ Answers(t)
    /\ IF On(writers, m) # {}
         THEN Return(t, "error") /\ UNCHANGED <<executed, procs>>
         ELSE /\ Goto(t, "run")
              /\ executed' = [executed EXCEPT ![t] = binary[m]]
              /\ procs' = procs \cup {t}
    /\ UNCHANGED <<binary, clash, writers, hung, history>>

(* Mutant: CheckResults are filled as far as the output can be decoded. *)
Decoded_Partial(t) == IF executed[t] = "this" THEN {"results"} ELSE {"partial"}

(* What json.Unmarshal makes of the output; another kdebug may print another. *)
Decoded(t) ==
    IF executed[t] = "this" THEN {"results"}
    ELSE IF executed[t] = "foreign" THEN {"results", "error"} ELSE {"error"}

(* Mutant: the output is taken for a result while the command is running. *)
RunEnds_Early(t) ==
    /\ step[t] = "run" /\ Answers(t)
    /\ \E v \in Decoded(t) : Return(t, v)
    /\ UNCHANGED <<executed, remote, hung, history>>

(* kdebug exits, and its output is decoded. A damaged one is no executable or
   breaks down. *)
RunEnds(t) ==
    /\ step[t] = "run" /\ Answers(t)
    /\ procs' = procs \ {t}
    /\ ended' = IF executed[t] \in Damaged THEN ended ELSE ended \cup {t}
    /\ \E v \in Decoded(t) : Return(t, v)
    /\ UNCHANGED <<executed, binary, clash, writers, hung, disturbed>>

(* sess.Output: the command is killed, or the connection is lost and the
   command goes on without it. *)
RunFails(t) ==
    /\ step[t] = "run"
    /\ Return(t, "error")
    /\ procs' \in {procs, procs \ {t}}
    /\ Disturb(t)
    /\ UNCHANGED <<executed, binary, clash, writers, hung>>

-----------------------------------------------------------------------------
(* The machines. *)

(* A command whose connection was lost ends some time later, unless it is damaged. *)
OrphanEnds(t) ==
    /\ t \in procs /\ step[t] = "done"
    /\ procs' = procs \ {t}
    /\ ended' = IF executed[t] \in Damaged THEN ended ELSE ended \cup {t}
    /\ UNCHANGED <<local, binary, clash, writers, hung, disturbed>>

(* Somebody else replaces the copy of a task by another kdebug, before the task
   executes it. (Earlier or later the task cannot tell.) *)
ForeignCopy(t) ==
    /\ step[t] = "session" /\ On(writers \cup procs, MachineOf[t]) = {}
    /\ binary' = [binary EXCEPT ![MachineOf[t]] = "foreign"]
    /\ Disturb(t)
    /\ UNCHANGED <<local, clash, writers, procs, hung>>

(* From now on the machine keeps its connections and says nothing. *)
Hang(m) ==
    /\ m \notin hung /\ Cardinality(hung) < MaxHung
    /\ hung' = hung \cup {m}
    /\ UNCHANGED <<local, remote, history>>

-----------------------------------------------------------------------------
(* What executeTask does when nothing fails, the time-out of scp included. *)
Progress(t) ==
    \/ Connect(t) \/ OpenCopy(t) \/ FinishCopy(t) \/ CopyTimesOut(t)
    \/ StartRun(t) \/ RunEnds(t)

Failure(t) == StepFails(t) \/ RunFails(t)

ExecuteTask(t) == Progress(t) \/ Failure(t)

Environment ==
    \/ \E t \in Tasks : ForeignCopy(t) \/ OrphanEnds(t)
    \/ \E m \in Machines : Hang(m)

Next ==
    \/ \E t \in Tasks : Start(t) \/ ExecuteTask(t)
    \/ Environment

Spec == Init /\ [][Next]_vars

-----------------------------------------------------------------------------
Steps == {"connect", "open", "copy", "session", "run"}

TypeOK ==
    /\ step \in [Tasks -> Steps \cup {"idle", "done"}]
    /\ verdict \in [Tasks -> {"none", "results", "error"}]
    /\ executed \in [Tasks -> Contents \cup {"none"}]
    /\ binary \in [Machines -> Contents]
    /\ {clash, hung} \subseteq SUBSET Machines
    /\ {writers, procs, ended, disturbed} \subseteq SUBSET Tasks

(* A task that is alone on its machine, meets no failure and whose copy nobody
   replaces ends with results: nothing it leaves behind itself (its
   open copy, its first session) is in the way of its next step. *)
Alone(t) == \A u \in Tasks \ {t} : MachineOf[u] # MachineOf[t]

AloneSucceeds ==
    \A t \in Tasks :
        Alone(t) /\ t \notin disturbed /\ step[t] = "done" =>
            verdict[t] = "results"

(* What is executed for a task is never the kdebug of an earlier batch, whatever
   fails; it is damaged only if another task's copy was cut off or overlapped
   with its own. An error of the copy is an error of the task, and nothing of it
   is executed, however the tasks of a machine interleave. *)
RunsWhatWasCopied ==
    \A t \in Tasks :
        /\ executed[t] # "old"
        /\ executed[t] = "cut" => On(disturbed \ {t}, MachineOf[t]) # {}
        /\ executed[t] = "mixed" => ~Alone(t)

(* Each task is what its worker expects. *)
Task(t) == INSTANCE TaskSpec WITH
    state <- IF step[t] = "done" THEN verdict[t] ELSE "running",
    ran <- t \in ended

TaskSteps == \A t \in Tasks : [Task(t)!Next]_(Task(t)!vars)

TasksImplement == (\A t \in Tasks : Task(t)!Init) /\ [][TaskSteps]_vars
=============================================================================
