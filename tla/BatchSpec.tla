------------------------------ MODULE BatchSpec ------------------------------
(***************************************************************************)
(* What BatchExecutor.Execute (pkg/batch/batch.go) promises its caller,    *)
(* cmd/batch.go: one result for every entry of the machine list, none of   *)
(* them revised once it was handed to the reporter, and nothing returned   *)
(* before the last one is in. An execution may also fail before it starts  *)
(* (the pod executor's namespace) or be lost as a whole (a panic in any    *)
(* goroutine ends the process).                                            *)
(***************************************************************************)
CONSTANTS Tasks,        \* the entries of BatchOptions.Machines
          Outcomes      \* what a BatchResult can say of its machine

VARIABLES report,       \* the results handed out so far, a function on a subset of Tasks
          status        \* where Execute is, as its caller sees it

vars == <<report, status>>

Init ==
    /\ report = [t \in {} |-> t]
    /\ status = "running"

(* One more machine is done. *)
Complete(t, o) ==
    /\ status = "running"
    /\ t \notin DOMAIN report
    /\ report' = [u \in DOMAIN report \cup {t} |-> IF u = t THEN o ELSE report[u]]
    /\ UNCHANGED status

(* Execute returns its results. *)
Return ==
    /\ status = "running"
    /\ DOMAIN report = Tasks
    /\ status' = "returned"
    /\ UNCHANGED report

(* Execute returns an error: nothing was run. *)
Fail ==
    /\ status = "running"
    /\ report = [t \in {} |-> t]
    /\ status' = "failed"
    /\ UNCHANGED report

(* The process ends with a panic. *)
Crash ==
    /\ status = "running"
    /\ status' = "crashed"
    /\ UNCHANGED report

Next ==
    \/ \E t \in Tasks, o \in Outcomes : Complete(t, o)
    \/ Return
    \/ Fail
    \/ Crash

Spec == Init /\ [][Next]_vars
=============================================================================
