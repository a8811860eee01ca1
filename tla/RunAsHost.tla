------------------------------ MODULE RunAsHost ------------------------------
(***************************************************************************)
(* cmd/run-as-host: what the pod executor's "host" mode runs in its pod.   *)
(* It copies kdebug to the host, writes a systemd unit that runs it with   *)
(* its output appended to a file, starts the unit over D-Bus, waits for    *)
(* the job, reads the file, removes unit and file, and prints what it read *)
(* (the pod executor decodes the first JSON value of that).                *)
(*                                                                         *)
(* The host outlives the pods: unit file, output file and service are      *)
(* shared by every invocation that ever ran on it, one after the other or  *)
(* (batches of two users) at the same time. A document kdebug writes is    *)
(* identified by the invocation whose unit started it.                     *)
(***************************************************************************)
EXTENDS Naturals, Sequences, SequencesExt

CONSTANTS Runs,         \* invocations of run-as-host on one host
          NoRun,
          MaxOverlaps   \* bound on the invocations that begin while others are under way

ASSUME NoRunAssumption == NoRun \notin Runs
ASSUME MaxOverlapsAssumption == MaxOverlaps \in Nat

VARIABLES
    pc,        \* the step each invocation is in
    output,    \* what each invocation has read
    unit,      \* whose command /etc/systemd/system/kdebug.service holds
    loaded,    \* whose command systemd has loaded
    service,   \* whose command the service is executing
    svcFile,   \* the service's output file: "none" opened, "open", "unlinked" since
    out,       \* the documents in /tmp/kdebug.stdout.log
    outExists, \* that file exists
    wrote,     \* the invocations whose command has written its document
    uncleaned, \* the invocations that ended and may have left output behind
    overlaps   \* how many invocations began while another was under way

host == <<unit, loaded, service, svcFile, out, outExists, wrote>>
history == <<uncleaned, overlaps>>
vars == <<pc, output, host, history>>

Over == {"done", "fatal"}
Steps == {"copy", "unit", "reload", "start", "wait", "read", "rmUnit", "rmOut", "print"}
Active(r) == pc[r] \in Steps

Init ==
    /\ pc = [r \in Runs |-> "idle"]
    /\ output = [r \in Runs |-> <<>>]
    /\ unit = NoRun /\ loaded = NoRun
    /\ service = NoRun /\ svcFile = "none"
    /\ out = <<>> /\ outExists = FALSE
    /\ wrote = {}
    /\ uncleaned = {} /\ overlaps = 0

Goto(r, step) == pc' = [pc EXCEPT ![r] = step]

(* log.Fatalf: the process exits where it is, without any cleanup. *)
Fatal(r) == Goto(r, "fatal") /\ UNCHANGED <<output, host, history>>

(* The same, at a point where the service may not be over or its output is there. *)
LeavesBehind(r) ==
    /\ Goto(r, "fatal")
    /\ uncleaned' = uncleaned \cup {r}
    /\ UNCHANGED <<output, host, overlaps>>

-----------------------------------------------------------------------------
(* The steps of main. *)

Begin(r) ==
    /\ pc[r] = "idle"
    /\ IF \A s \in Runs : ~Active(s)
         THEN UNCHANGED overlaps
         ELSE overlaps < MaxOverlaps /\ overlaps' = overlaps + 1
    /\ Goto(r, "copy")
    /\ UNCHANGED <<output, host, uncleaned>>

(* Each call may fail. Here it must while kdebug runs: the kernel refuses to
   open an executable for writing then. *)
CopyFile(r) ==
    /\ pc[r] = "copy"
    /\ \/ service = NoRun /\ Goto(r, "unit") /\ UNCHANGED <<output, host, history>>
       \/ Fatal(r)

(* Mutant: the placeholder of the template is not replaced. *)
WriteSystemdUnit_Template(r) ==
    /\ pc[r] = "unit"
    /\ unit' = "TODO_EXEC_START"
    /\ Goto(r, "reload")
    /\ UNCHANGED <<output, loaded, service, svcFile, out, outExists, wrote, history>>

WriteSystemdUnit(r) ==
    /\ pc[r] = "unit"
    /\ \/ /\ unit' = r
          /\ Goto(r, "reload")
          /\ UNCHANGED <<output, loaded, service, svcFile, out, outExists, wrote, history>>
       \/ Fatal(r)

(* The connection to systemd, and the reload. *)
Reload(r) ==
    /\ pc[r] = "reload"
    /\ \/ /\ loaded' = unit
          /\ Goto(r, "start")
          /\ UNCHANGED <<output, unit, service, svcFile, out, outExists, wrote, history>>
       \/ Fatal(r)

(* Mutant: the result is read without waiting for the job. *)
StartUnit_NoWait(r) ==
    /\ pc[r] = "start"
    /\ service = NoRun /\ loaded # NoRun
    /\ service' = loaded /\ svcFile' = "none"
    /\ Goto(r, "read")
    /\ UNCHANGED <<output, unit, loaded, out, outExists, wrote, history>>

(* A unit that is not loaded cannot be started. One that is starting already is
   not started again: the new job is merged with the one under way. (A call whose
   reply is lost is the unit started and the invocation killed.) *)
StartUnit(r) ==
    /\ pc[r] = "start"
    /\ \/ /\ loaded # NoRun /\ service = NoRun
          /\ service' = loaded /\ svcFile' = "none"
          /\ Goto(r, "wait")
          /\ UNCHANGED <<output, unit, loaded, out, outExists, wrote, history>>
       \/ /\ loaded # NoRun /\ service # NoRun
          /\ Goto(r, "wait")
          /\ UNCHANGED <<output, host, history>>
       \/ Fatal(r)

(* Mutant: no timeout next to the channel. *)
WaitTimeout_Missing(r) == FALSE /\ LeavesBehind(r)

(* 75 seconds are over: the service is still running or its end was not seen. *)
WaitTimeout(r) ==
    /\ pc[r] = "wait"
    /\ LeavesBehind(r)

(* os.Open and ioutil.ReadAll: any error is fatal, that there is no file among
   them, and what is there stays, the unit included. *)
ReadOutputs(r) ==
    /\ pc[r] = "read"
    /\ \/ /\ outExists
          /\ output' = [output EXCEPT ![r] = out]
          /\ Goto(r, "rmUnit")
          /\ UNCHANGED <<host, history>>
       \/ outExists /\ LeavesBehind(r)
       \/ ~outExists /\ Fatal(r)

(* Mutant: the unit is left behind. *)
RemoveSystemdUnit_Forgotten(r) ==
    /\ pc[r] = "rmUnit"
    /\ Goto(r, "rmOut")
    /\ UNCHANGED <<output, host, history>>

(* os.Remove fails on a file that another invocation has removed, and for any
   other reason: the output file has not been removed then. *)
RemoveSystemdUnit(r) ==
    /\ pc[r] = "rmUnit"
    /\ \/ /\ unit # NoRun
          /\ unit' = NoRun
          /\ Goto(r, "rmOut")
          /\ UNCHANGED <<output, loaded, service, svcFile, out, outExists, wrote, history>>
       \/ outExists /\ LeavesBehind(r)
       \/ ~outExists /\ Fatal(r)

(* Mutant: the output file is not removed. *)
RemoveOutput_Forgotten(r) ==
    /\ pc[r] = "rmOut"
    /\ Goto(r, "print")
    /\ UNCHANGED <<output, host, history>>

RemoveOutput(r) ==
    /\ pc[r] = "rmOut"
    /\ \/ /\ outExists
          /\ outExists' = FALSE /\ out' = <<>>
          /\ svcFile' = IF svcFile = "open" THEN "unlinked" ELSE svcFile
          /\ Goto(r, "print")
          /\ UNCHANGED <<output, unit, loaded, service, wrote, history>>
       \/ outExists /\ LeavesBehind(r)
       \/ ~outExists /\ Fatal(r)

(* os.Stdout.Write(output) *)
PrintOutput(r) ==
    /\ pc[r] = "print"
    /\ Goto(r, "done")
    /\ UNCHANGED <<output, host, history>>

(* The pod is deleted or evicted, at any point. *)
Killed(r) ==
    /\ Active(r)
    /\ LeavesBehind(r)

-----------------------------------------------------------------------------
(* The service: kdebug ... --output /tmp/kdebug.stdout.log *)

(* os.OpenFile(opts.Output, os.O_APPEND|os.O_CREATE|os.O_WRONLY, 0644) *)
OpenOutput ==
    /\ service # NoRun /\ svcFile = "none"
    /\ svcFile' = "open" /\ outExists' = TRUE
    /\ UNCHANGED <<pc, output, unit, loaded, service, out, wrote, history>>

(* The service has ended, with or without success: systemd notifies every
   invocation that waits for its job, and none of them looks at the verdict.
   With the bus connection the notification may be lost. *)
ServiceEnds ==
    /\ service' = NoRun
    /\ \E lost \in SUBSET Runs :
         pc' = [r \in Runs |-> IF pc[r] = "wait" /\ r \notin lost THEN "read" ELSE pc[r]]
    /\ UNCHANGED <<output, unit, loaded, history>>

(* formatter.WriteResults, and kdebug exits. *)
WriteResults ==
    /\ service # NoRun /\ svcFile # "none"
    /\ out' = IF svcFile = "open" THEN Append(out, service) ELSE out
    /\ wrote' = wrote \cup {service}
    /\ svcFile' = "none"
    /\ ServiceEnds
    /\ UNCHANGED outExists

(* kdebug fails, or systemd ends it after TimeoutSec=60. *)
ServiceFails ==
    /\ service # NoRun
    /\ svcFile' = "none"
    /\ ServiceEnds
    /\ UNCHANGED <<out, outExists, wrote>>

-----------------------------------------------------------------------------
Invocation(r) ==
    \/ Begin(r) \/ CopyFile(r) \/ WriteSystemdUnit(r) \/ Reload(r)
    \/ StartUnit(r) \/ WaitTimeout(r)
    \/ ReadOutputs(r) \/ RemoveSystemdUnit(r) \/ RemoveOutput(r) \/ PrintOutput(r)

Service == OpenOutput \/ WriteResults \/ ServiceFails

(* Every invocation is over and the host is quiet. *)
Finished == (\A r \in Runs : pc[r] \in Over) /\ service = NoRun /\ UNCHANGED vars

Next ==
    \/ \E r \in Runs : Invocation(r) \/ Killed(r)
    \/ Service
    \/ Finished

Spec == Init /\ [][Next]_vars

(* The operating system schedules every process and fires its timers; systemd
   ends a service that exceeds its TimeoutSec. *)
FairSpec == Spec /\ WF_vars(Service) /\ \A r \in Runs : WF_vars(Invocation(r))

-----------------------------------------------------------------------------
TypeOK ==
    /\ pc \in [Runs -> {"idle"} \cup Steps \cup Over]
    /\ output \in [Runs -> Seq(Runs)]
    /\ {unit, loaded, service} \subseteq Runs \cup {NoRun}
    /\ svcFile \in {"none", "open", "unlinked"}
    /\ out \in Seq(Runs)
    /\ outExists \in BOOLEAN
    /\ wrote \subseteq Runs /\ uncleaned \subseteq Runs
    /\ overlaps \in 0..MaxOverlaps

(* The first document an invocation prints, the one the pod executor decodes
   and shows as the result of this batch, is the one its own command wrote. *)
FreshOutput == \A r \in Runs : pc[r] = "done" /\ output[r] # <<>> => Head(output[r]) = r

(* Which of two overlapping invocations prints what is arbitrary. *)
OneAfterTheOther == overlaps = 0

(* ... as it is as long as the invocations on this host do not overlap and every
   document printed besides one's own was left by an invocation that was killed,
   did not see its service end, or could not read or remove a file (the Fatalf of
   main.go:122, 127 and 131, which come before the removal of the output). A failed
   service, a missing file or a failure before the service is started leave nothing. *)
OnlyLeftOversAreStale ==
    OneAfterTheOther =>
        \A r \in Runs : pc[r] = "done" => ToSet(output[r]) \subseteq {r} \cup uncleaned

(* When no invocation is under way or overlapped, and every one that ended early
   did so before its service was started or found no file to read, the output
   file is gone: the next one starts from nothing. *)
LeavesNoOutput ==
    OneAfterTheOther /\ uncleaned = {} /\ (\A r \in Runs : ~Active(r)) => ~outExists /\ service = NoRun

(* Without overlap, an invocation that comes to print its output has removed the unit and every
   document on the host, those left behind by interrupted or failed ones included. *)
SuccessCleans ==
    OneAfterTheOther =>
        \A r \in Runs : pc[r] = "print" => unit = NoRun /\ ~outExists /\ service = NoRun

(* Without overlap, if its command wrote a document, it is the last one an invocation
   prints, no matter what earlier invocations left in the file, whether they were
   interrupted or failed to remove it. *)
LastIsOwn ==
    OneAfterTheOther =>
        \A r \in Runs : pc[r] = "done" /\ r \in wrote => output[r] # <<>> /\ Last(output[r]) = r

(* Every invocation comes to an end, also when another one's job answers for
   its own, when that answer is lost, or when the files it is about to read or
   remove have been taken away by another one. *)
RunsEnd == <>(\A r \in Runs : pc[r] \in Over)
=============================================================================
