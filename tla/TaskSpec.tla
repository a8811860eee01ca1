------------------------------ MODULE TaskSpec -------------------------------
(***************************************************************************)
(* What executeTask of either executor promises the worker that calls it:  *)
(* a BatchResult (pkg/batch/batch.go) with the check results of a kdebug   *)
(* that ran to its end for this task, or else with an error. The remote    *)
(* kdebug is not tied to the task: it may also end when the task has given *)
(* up, and nobody stops it. A task may be lost with its process.           *)
(* (In the pod executor's host mode the promise is a weaker one, with a    *)
(* weaker `ran': see PodTask.)                                             *)
(***************************************************************************)
VARIABLES state,    \* of the task, as its worker sees it
          ran       \* a kdebug started for this task has run to its end

vars == <<state, ran>>

Init == state = "running" /\ ran = FALSE

RunEnds == ran' = TRUE /\ UNCHANGED state

ReturnResults == state = "running" /\ ran' = TRUE /\ state' = "results"

ReturnError == state = "running" /\ state' = "error" /\ ran' \in {ran, TRUE}

Panic == state = "running" /\ state' = "panicked" /\ UNCHANGED ran

Next == RunEnds \/ ReturnResults \/ ReturnError \/ Panic

Spec == Init /\ [][Next]_vars
=============================================================================
