----------------------------- MODULE PingFanout ------------------------------
(***************************************************************************)
(* The fan-out of the tcp and ping checkers: one goroutine per target, all *)
(* of them sending to one channel as large as the list of targets, and     *)
(* Check receiving as many answers as there are targets. A checker is one  *)
(* value in the registry, and ping keeps its targets in it: each further   *)
(* Check appends the public targets again.                                 *)
(***************************************************************************)
EXTENDS Naturals, FiniteSets, Sequences, SequencesExt

CONSTANT PublicTargets    \* of each checker, a sequence

PingCheckers == {"tcp", "ping"}

ASSUME PublicTargetsAssumption ==
    \A c \in PingCheckers : PublicTargets[c] \in Seq(Range(PublicTargets[c]))

VARIABLES
    kept,         \* the targets that the ping checker has accumulated
    targets,      \* the targets of the Check under way
    flight,       \* its goroutines (by target) that have not answered yet
    resultChan,
    answers       \* its `results'

pingVars == <<kept, targets, flight, resultChan, answers>>

FanoutInit ==
    /\ kept = <<>> /\ targets = <<>>
    /\ flight = {} /\ resultChan = <<>> /\ answers = <<>>

(* ping: c.targets = append(c.targets, PublicTargets...), except on Azure *)
KeptTargets(flags) == IF "azure" \in flags THEN kept ELSE kept \o PublicTargets["ping"]

(* tcp appends to the empty list of its checker and does not keep the result. *)
TargetsOf(c, flags) == IF c = "ping" THEN KeptTargets(flags) ELSE PublicTargets["tcp"]

(* The channel is made and the goroutines are started; none of it blocks. *)
StartFanout(c, flags) ==
    /\ targets' = TargetsOf(c, flags)
    /\ kept' = IF c = "ping" THEN KeptTargets(flags) ELSE kept
    /\ flight' = DOMAIN targets'
    /\ resultChan' = <<>> /\ answers' = <<>>

(* A goroutine has its answer or its timeout, and sends it. *)
Answer(i) ==
    /\ i \in flight
    /\ Len(resultChan) < Len(targets)
    /\ \E ok \in BOOLEAN : resultChan' = Append(resultChan, [target |-> targets[i], ok |-> ok])
    /\ flight' = flight \ {i}
    /\ UNCHANGED <<kept, targets, answers>>

(* Mutant: as many answers are awaited as there are public targets. *)
Collected_Public == Len(answers) = Len(targets) \/ Len(answers) = Len(PublicTargets["ping"])

(* Mutant: the receiving loop counts to len(targets) inclusively. *)
Collected_OneMore == Len(answers) = Len(targets) + 1

(* The receiving loop has counted to len(targets). *)
Collected == Len(answers) = Len(targets)

(* result := <-resultChan; results = append(results, result) *)
ReceiveAnswer ==
    /\ ~Collected
    /\ resultChan # <<>>
    /\ answers' = Append(answers, Head(resultChan))
    /\ resultChan' = Tail(resultChan)
    /\ UNCHANGED <<kept, targets, flight>>

Failed == Cardinality({i \in DOMAIN answers : ~answers[i].ok})
FanoutResults == [passed |-> Len(answers) - Failed, failed |-> Failed, err |-> FALSE]

-----------------------------------------------------------------------------
FanoutTypeOK ==
    LET Known == Range(PublicTargets["tcp"]) \cup Range(PublicTargets["ping"])
        Answers == [target : Known, ok : BOOLEAN]
    IN /\ kept \in Seq(Known) /\ targets \in Seq(Known)
       /\ flight \subseteq DOMAIN targets
       /\ resultChan \in Seq(Answers) /\ Len(resultChan) <= Len(targets)
       /\ answers \in Seq(Answers)

Asked(t) == Cardinality({i \in DOMAIN targets : targets[i] = t})
Answered(t) == Cardinality({i \in DOMAIN answers : answers[i].target = t})
=============================================================================
