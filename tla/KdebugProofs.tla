---------------------------- MODULE KdebugProofs -----------------------------
(***************************************************************************)
(* What one kdebug process writes, starts and returns, for every command   *)
(* line, every machine and every outcome of the checkers.                  *)
(***************************************************************************)
EXTENDS Kdebug, PingFanoutProofs, WellFoundedInduction

(* The options keep their names and, but for the list of checkers, their values; the
   process has an exit code as soon as it has ended. *)
WellFormed(o) ==
    /\ o = [name \in OptionNames |-> o[name]]
    /\ \A flag \in Flag : o[flag] \in BOOLEAN
    /\ o.checkers \in Seq(Range(o.checkers)) /\ o.machines \in Seq(Range(o.machines))

ShapeInv ==
    /\ WellFormed(opts)
    /\ todo \in Seq(Registry)
    /\ pc = "fan-out" => todo # <<>>
    /\ code \in {-1, 0, 1, 2}
    /\ pc = "exited" <=> code # -1
    /\ code = 1 => pc = "exited"

(* Where main stands tells which of its modes it is in. *)
PlaceInv ==
    /\ pc \in {"list", "pause", "help"} => opts.valid /\ Mode = pc
    /\ pc \in {"tool", "run tool"} => opts.valid /\ Mode = "tool"
    /\ pc \in {"prepare", "discover", "execute"} => opts.valid /\ Mode = "prepare"
    /\ pc \in {"discover", "execute"} => IsBatchMode
    /\ pc \in {"resolve", "check", "fan-out", "exit"} => IsCheckMode
    /\ pc \in {"check", "fan-out", "exit"} => AllKnown

NoneFailed(r) == ~(r.failed > 0)

(* Check is half way: what is still to run, and what the others have returned. *)
ReportInv ==
    /\ ran.checkers \in Nat
    /\ results = [passed |-> ran.passed, failed |-> ran.failed]
    /\ pc \in {"check", "fan-out"} => ran.checkers + Len(todo) = Len(opts.checkers)
    /\ pc = "exit" => ran.checkers = Len(opts.checkers)
    /\ pc \notin {"check", "fan-out", "exit", "exited"} => ran.checkers = 0 /\ NoneFailed(ran)
    /\ documents \in {<<>>, <<results>>}
    /\ pc \notin {"exit", "exited"} => documents = <<>>
    /\ documents # <<>> => ran.checkers = Len(opts.checkers)
    /\ ran.checkers # 0 \/ documents # <<>> => AllKnown

(* What an exit code says of the mode it comes from. *)
ExitInv ==
    /\ pc = "exited" /\ IsCheckMode /\ ~AllKnown => code = 1
    /\ code = 0 /\ ~opts.noSetExitCode => NoneFailed(ran)
    /\ pc = "exit" /\ opts.format = "json" => documents # <<>>
    /\ pc = "exit" /\ ~ioFailed => documents # <<>>
    /\ pc = "exited" /\ Remote => (code = 0 <=> documents # <<>>) /\ (code = 0 \/ ioFailed)

ToolRefused == Refused(opts.tool, opts.args, opts.help, machine.kube)

(* Of the programs, one that has failed is the last and gives the exit code. *)
FailureEnds(programs, status) ==
    \A i \in DOMAIN programs :
        ~programs[i].ok /\ programs[i].program # "ssh" => i = Len(programs) /\ status = 1

(* Nothing has failed before the program that is started next. *)
ToolInv ==
    /\ started \in Seq(Range(started))
    /\ FailureEnds(started, code)
    /\ started # <<>> \/ pc = "run tool" => ~ToolRefused
    /\ pc = "exited" /\ opts.valid /\ Mode = "tool" /\ ToolRefused => code = 1
    /\ pc \in {"options", "tool"} => started = <<>>

(* Outside of a fan-out the last one is over. *)
FanoutInv == FanInv /\ (pc # "fan-out" => Collected)

IInv == ShapeInv /\ PlaceInv /\ ReportInv /\ ExitInv /\ ToolInv /\ FanoutInv

-----------------------------------------------------------------------------
LEMMA AllNamesIsASequence == AllNames \in Seq(Range(AllNames))
BY DEF AllNames, Range

LEMMA SequenceOfMore ==
    ASSUME NEW S, NEW T, S \subseteq T, NEW q \in Seq(S)
    PROVE  q \in Seq(T)
OBVIOUS

LEMMA OneDocument == ASSUME NEW document PROVE Append(<<>>, document) = <<document>>
OBVIOUS

LEMMA AppendToOwn ==
    ASSUME NEW q, q \in Seq(Range(q)), NEW e
    PROVE  /\ Append(q, e) \in Seq(Range(Append(q, e)))
           /\ Append(q, e) # <<>>
           /\ Len(Append(q, e)) = Len(q) + 1 /\ DOMAIN Append(q, e) = 1..(Len(q) + 1)
           /\ Len(q) \in Nat /\ DOMAIN q = 1..Len(q)
           /\ \A i \in DOMAIN q : Append(q, e)[i] = q[i]
           /\ Append(q, e)[Len(q) + 1] = e
<1> DEFINE S == Range(q) \cup {e}
           a == Append(q, e)
<1>1. q \in Seq(S) /\ e \in S
  BY SequenceOfMore
<1> HIDE DEF S
<1>2. /\ a \in Seq(S) /\ Len(a) = Len(q) + 1 /\ DOMAIN a = 1..(Len(q) + 1)
      /\ Len(q) \in Nat /\ DOMAIN q = 1..Len(q)
      /\ \A i \in DOMAIN q : a[i] = q[i]
      /\ a[Len(q) + 1] = e
  BY <1>1
<1>3. a # <<>>
  BY <1>1
<1> HIDE DEF a
<1>4. a = [i \in 1..Len(a) |-> a[i]] /\ Len(a) \in Nat /\ DOMAIN a = 1..Len(a)
  BY <1>2
<1>5. \A i \in 1..Len(a) : a[i] \in Range(a)
  BY <1>4 DEF Range
<1>6. a \in Seq(Range(a))
  BY <1>4, <1>5
<1> QED
  BY <1>2, <1>3, <1>6 DEF a

LEMMA NoFailureYet ==
    ASSUME NEW programs, NEW status, status # 1, FailureEnds(programs, status), NEW later
    PROVE  FailureEnds(programs, later)
BY DEF FailureEnds

LEMMA NextProgram ==
    ASSUME NEW programs, programs \in Seq(Range(programs)), NEW e, NEW status, NEW later,
           status # 1, FailureEnds(programs, status),
           e.ok \/ e.program = "ssh" \/ later = 1
    PROVE  FailureEnds(Append(programs, e), later)
BY AppendToOwn DEF FailureEnds

(* A list of checkers is replaced, the other options stay. *)
LEMMA CheckersReplaced ==
    ASSUME NEW o, WellFormed(o), NEW names, names \in Seq(Range(names))
    PROVE  WellFormed([o EXCEPT !.checkers = names])
<1> DEFINE n == [o EXCEPT !.checkers = names]
<1>1. DOMAIN o = OptionNames /\ "checkers" \in OptionNames
  BY DEF WellFormed, OptionNames
<1>2. DOMAIN n = OptionNames /\ n = [name \in DOMAIN o |-> IF name = "checkers" THEN names ELSE o[name]]
  BY <1>1
<1>3. n.checkers = names
  BY <1>1, <1>2
<1>4. \A flag \in Flag : n[flag] = o[flag]
  BY <1>1, <1>2 DEF Flag, OptionNames
<1>5. n = [name \in OptionNames |-> n[name]]
  BY <1>2
<1>6. n.machines = o.machines
  BY <1>1, <1>2 DEF OptionNames
<1> HIDE DEF n
<1>7. WellFormed(n)
  BY <1>3, <1>4, <1>5, <1>6 DEF WellFormed
<1> QED
  BY <1>7 DEF n

(* Only processOptions touches the options. *)
LEMMA ShapeStep ==
    ASSUME ShapeInv, [Next]_vars
    PROVE  ShapeInv'
<1> USE DEF Stage, Goto, Exit, vars, mainVars, ShapeInv
<1>1. CASE RejectOptions
  BY <1>1 DEF RejectOptions
<1>2. CASE ProcessOptions
  <2>1. WellFormed([opts EXCEPT !.checkers = AllNames])
    BY CheckersReplaced, AllNamesIsASequence
  <2>2. WellFormed([opts EXCEPT !.checkers = opts.checkers])
    BY CheckersReplaced DEF WellFormed
  <2>3. WellFormed(opts')
    BY <1>2, <2>1, <2>2 DEF ProcessOptions
  <2>4. WellFormed(opts)'
    BY <2>3
  <2> QED
    BY <1>2, <2>4 DEF ProcessOptions, Mode
<1>3. CASE ListAllNames
  BY <1>3 DEF ListAllNames, Leave
<1>4. CASE WriteHelp
  BY <1>4 DEF WriteHelp, Leave
<1>5. CASE Interrupt
  BY <1>5 DEF Interrupt, Leave
<1>6. CASE ParseToolArgs
  <2>1. UNCHANGED <<opts, todo>>
    BY <1>6 DEF ParseToolArgs
  <2>2. \/ UNCHANGED code /\ pc' \notin {"exited", "fan-out"} /\ pc # "exited"
        \/ pc' = "exited" /\ code' \in {0, 1, 2}
    BY <1>6 DEF ParseToolArgs
  <2> QED
    BY <2>1, <2>2
<1>7. CASE RunProgram
  <2>1. UNCHANGED <<opts, todo>>
    BY <1>7 DEF RunProgram, ToolStage, StartProgram
  <2>2. \/ UNCHANGED code /\ pc' \notin {"exited", "fan-out"} /\ pc # "exited"
        \/ pc' = "exited" /\ code' \in {0, 1, 2}
    BY <1>7 DEF RunProgram, ToolStage, StartProgram
  <2> QED
    BY <2>1, <2>2
<1>8. CASE ToolPanics
  <2>1. UNCHANGED <<opts, todo>>
    BY <1>8 DEF ToolPanics, ToolStage
  <2>2. \/ UNCHANGED code /\ pc' \notin {"exited", "fan-out"} /\ pc # "exited"
        \/ pc' = "exited" /\ code' \in {0, 1, 2}
    BY <1>8 DEF ToolPanics, ToolStage
  <2> QED
    BY <2>1, <2>2
<1>9. CASE ToolReturns
  <2>1. UNCHANGED <<opts, todo>>
    BY <1>9 DEF ToolReturns, ToolStage
  <2>2. \/ UNCHANGED code /\ pc' \notin {"exited", "fan-out"} /\ pc # "exited"
        \/ pc' = "exited" /\ code' \in {0, 1, 2}
    BY <1>9 DEF ToolReturns, ToolStage
  <2> QED
    BY <2>1, <2>2
<1>10. CASE AadSshFails
  <2>1. UNCHANGED <<opts, todo>>
    BY <1>10 DEF AadSshFails, ToolStage
  <2>2. \/ UNCHANGED code /\ pc' \notin {"exited", "fan-out"} /\ pc # "exited"
        \/ pc' = "exited" /\ code' \in {0, 1, 2}
    BY <1>10 DEF AadSshFails, ToolStage
  <2> QED
    BY <2>1, <2>2
<1>11. CASE OpenOutput
  BY <1>11 DEF OpenOutput
<1>12. CASE OpenFails
  BY <1>12 DEF OpenFails
<1>13. CASE Discover
  BY <1>13 DEF Discover
<1>14. CASE DiscoverFails
  BY <1>14 DEF DiscoverFails
<1>15. CASE ExecuteBatch
  BY <1>15 DEF ExecuteBatch
<1>16. CASE BatchFails
  BY <1>16 DEF BatchFails
<1>17. CASE Resolve
  <2>1. AllKnown => opts.checkers \in Seq(Registry)
    BY SequenceOfMore DEF WellFormed, AllKnown
  <2> QED
    BY <1>17, <2>1 DEF Resolve
<1>18. CASE RunChecker
  BY <1>18 DEF RunChecker, Returns
<1>19. CASE StartPing
  BY <1>19 DEF StartPing, StartFanout
<1>20. CASE PingReceives
  BY <1>20 DEF PingReceives, ReceiveAnswer
<1>21. CASE PingReturns
  BY <1>21 DEF PingReturns, Returns
<1>22. CASE WriteResults
  BY <1>22 DEF WriteResults
<1>23. CASE WriteFails
  BY <1>23 DEF WriteFails
<1>24. CASE SetExitCode
  BY <1>24 DEF SetExitCode, ExitCode
<1>25. CASE PingAnswers
  BY <1>25 DEF PingAnswers, Answer
<1>26. CASE Exited
  BY <1>26 DEF Exited
<1>27. CASE UNCHANGED vars
  BY <1>27 DEF vars
<1> QED
  BY <1>1, <1>2, <1>3, <1>4, <1>5, <1>6, <1>7, <1>8, <1>9, <1>10, <1>11, <1>12, <1>13, <1>14,
     <1>15, <1>16, <1>17, <1>18, <1>19, <1>20, <1>21, <1>22, <1>23, <1>24, <1>25, <1>26, <1>27 DEF Next, Main

(* The early returns of main in their order. *)
LEMMA PlaceStep ==
    ASSUME ShapeInv, PlaceInv, [Next]_vars
    PROVE  PlaceInv'
<1> USE DEF Stage, Goto, Exit, vars, mainVars, PlaceInv, ShapeInv, WellFormed, Mode,
            IsBatchMode, IsCheckMode, AllKnown, Flag, OptionNames
<1>1. CASE RejectOptions
  BY <1>1 DEF RejectOptions
<1>2. CASE ProcessOptions
  BY <1>2 DEF ProcessOptions
<1>3. CASE ListAllNames
  BY <1>3 DEF ListAllNames, Leave
<1>4. CASE WriteHelp
  BY <1>4 DEF WriteHelp, Leave
<1>5. CASE Interrupt
  BY <1>5 DEF Interrupt, Leave
<1>6. CASE ParseToolArgs
  BY <1>6 DEF ParseToolArgs
<1>7. CASE RunProgram
  BY <1>7 DEF RunProgram, ToolStage, StartProgram
<1>8. CASE ToolPanics
  BY <1>8 DEF ToolPanics, ToolStage
<1>9. CASE ToolReturns
  BY <1>9 DEF ToolReturns, ToolStage
<1>10. CASE AadSshFails
  BY <1>10 DEF AadSshFails, ToolStage
<1>11. CASE OpenOutput
  BY <1>11 DEF OpenOutput
<1>12. CASE OpenFails
  BY <1>12 DEF OpenFails
<1>13. CASE Discover
  BY <1>13 DEF Discover
<1>14. CASE DiscoverFails
  BY <1>14 DEF DiscoverFails
<1>15. CASE ExecuteBatch
  BY <1>15 DEF ExecuteBatch
<1>16. CASE BatchFails
  BY <1>16 DEF BatchFails
<1>17. CASE Resolve
  BY <1>17 DEF Resolve
<1>18. CASE RunChecker
  BY <1>18 DEF RunChecker, Returns
<1>19. CASE StartPing
  BY <1>19 DEF StartPing, StartFanout
<1>20. CASE PingReceives
  BY <1>20 DEF PingReceives, ReceiveAnswer
<1>21. CASE PingReturns
  BY <1>21 DEF PingReturns, Returns
<1>22. CASE WriteResults
  BY <1>22 DEF WriteResults
<1>23. CASE WriteFails
  BY <1>23 DEF WriteFails
<1>24. CASE SetExitCode
  BY <1>24 DEF SetExitCode
<1>25. CASE PingAnswers
  BY <1>25 DEF PingAnswers, Answer
<1>26. CASE Exited
  BY <1>26 DEF Exited
<1>27. CASE UNCHANGED vars
  BY <1>27 DEF vars
<1> QED
  BY <1>1, <1>2, <1>3, <1>4, <1>5, <1>6, <1>7, <1>8, <1>9, <1>10, <1>11, <1>12, <1>13, <1>14,
     <1>15, <1>16, <1>17, <1>18, <1>19, <1>20, <1>21, <1>22, <1>23, <1>24, <1>25, <1>26, <1>27 DEF Next, Main

(* Nothing is dropped between a checker's return and the formatter. *)
LEMMA ReportStep ==
    ASSUME ShapeInv, PlaceInv, ReportInv, [Next]_vars
    PROVE  ReportInv'
<1> USE DEF Stage, Goto, Exit, vars, mainVars, ReportInv, ShapeInv, WellFormed, Mode,
            PlaceInv, AllKnown, Collect
<1>1. CASE RejectOptions
  BY <1>1 DEF RejectOptions
<1>2. CASE ProcessOptions
  BY <1>2 DEF ProcessOptions
<1>3. CASE ListAllNames
  BY <1>3 DEF ListAllNames, Leave
<1>4. CASE WriteHelp
  BY <1>4 DEF WriteHelp, Leave
<1>5. CASE Interrupt
  BY <1>5 DEF Interrupt, Leave
<1>6. CASE ParseToolArgs
  BY <1>6 DEF ParseToolArgs
<1>7. CASE RunProgram
  BY <1>7 DEF RunProgram, ToolStage, StartProgram
<1>8. CASE ToolPanics
  BY <1>8 DEF ToolPanics, ToolStage
<1>9. CASE ToolReturns
  BY <1>9 DEF ToolReturns, ToolStage
<1>10. CASE AadSshFails
  BY <1>10 DEF AadSshFails, ToolStage
<1>11. CASE OpenOutput
  BY <1>11 DEF OpenOutput
<1>12. CASE OpenFails
  BY <1>12 DEF OpenFails
<1>13. CASE Discover
  BY <1>13 DEF Discover
<1>14. CASE DiscoverFails
  BY <1>14 DEF DiscoverFails
<1>15. CASE ExecuteBatch
  BY <1>15 DEF ExecuteBatch
<1>16. CASE BatchFails
  BY <1>16 DEF BatchFails
<1>17. CASE Resolve
  BY <1>17 DEF Resolve
<1>18. CASE RunChecker
  BY <1>18 DEF RunChecker, Returns
<1>19. CASE StartPing
  BY <1>19 DEF StartPing, StartFanout
<1>20. CASE PingReceives
  BY <1>20 DEF PingReceives, ReceiveAnswer
<1>21. CASE PingReturns
  BY <1>21 DEF PingReturns, Returns
<1>22. CASE WriteResults
  <2>1. documents = <<>> /\ documents' = Append(documents, results)
    BY <1>22 DEF WriteResults
  <2>2. documents' = <<results>>
    BY <2>1, OneDocument
  <2>3. pc = "check" /\ pc' = "exit" /\ UNCHANGED <<opts, results, ran>>
    BY <1>22 DEF WriteResults
  <2>4. ran.checkers = Len(opts.checkers)
    BY <1>22 DEF WriteResults
  <2>5. documents' \in {<<>>, <<results'>>}
    BY <2>2, <2>3
  <2> QED
    BY <2>3, <2>4, <2>5
<1>23. CASE WriteFails
  BY <1>23 DEF WriteFails
<1>24. CASE SetExitCode
  BY <1>24 DEF SetExitCode
<1>25. CASE PingAnswers
  BY <1>25 DEF PingAnswers, Answer
<1>26. CASE Exited
  BY <1>26 DEF Exited
<1>27. CASE UNCHANGED vars
  BY <1>27 DEF vars
<1> QED
  BY <1>1, <1>2, <1>3, <1>4, <1>5, <1>6, <1>7, <1>8, <1>9, <1>10, <1>11, <1>12, <1>13, <1>14,
     <1>15, <1>16, <1>17, <1>18, <1>19, <1>20, <1>21, <1>22, <1>23, <1>24, <1>25, <1>26, <1>27 DEF Next, Main

(* Each way out of main with its exit code. *)
LEMMA ExitStep ==
    ASSUME ShapeInv, PlaceInv, ReportInv, ExitInv, [Next]_vars
    PROVE  ExitInv'
<1> USE DEF Stage, Goto, Exit, vars, mainVars, ExitInv, ReportInv, ShapeInv, WellFormed, Mode,
            PlaceInv, AllKnown, IsCheckMode, IsBatchMode, Remote, Flag, OptionNames
<1>1. CASE RejectOptions
  BY <1>1 DEF RejectOptions
<1>2. CASE ProcessOptions
  BY <1>2 DEF ProcessOptions
<1>3. CASE ListAllNames
  BY <1>3 DEF ListAllNames, Leave
<1>4. CASE WriteHelp
  BY <1>4 DEF WriteHelp, Leave
<1>5. CASE Interrupt
  BY <1>5 DEF Interrupt, Leave
<1>6. CASE ParseToolArgs
  <2>1. UNCHANGED <<opts, documents, ran, ioFailed>>
    BY <1>6 DEF ParseToolArgs
  <2>2. pc \in {"tool", "run tool"} /\ pc' \in {"run tool", "exited"}
    BY <1>6 DEF ParseToolArgs
  <2> QED
    BY <2>1, <2>2
<1>7. CASE RunProgram
  <2>1. UNCHANGED <<opts, documents, ran, ioFailed>>
    BY <1>7 DEF RunProgram, ToolStage, StartProgram
  <2>2. pc \in {"tool", "run tool"} /\ pc' \in {"run tool", "exited"}
    BY <1>7 DEF RunProgram, ToolStage, StartProgram
  <2> QED
    BY <2>1, <2>2
<1>8. CASE ToolPanics
  <2>1. UNCHANGED <<opts, documents, ran, ioFailed>>
    BY <1>8 DEF ToolPanics, ToolStage
  <2>2. pc \in {"tool", "run tool"} /\ pc' \in {"run tool", "exited"}
    BY <1>8 DEF ToolPanics, ToolStage
  <2> QED
    BY <2>1, <2>2
<1>9. CASE ToolReturns
  <2>1. UNCHANGED <<opts, documents, ran, ioFailed>>
    BY <1>9 DEF ToolReturns, ToolStage
  <2>2. pc \in {"tool", "run tool"} /\ pc' \in {"run tool", "exited"}
    BY <1>9 DEF ToolReturns, ToolStage
  <2> QED
    BY <2>1, <2>2
<1>10. CASE AadSshFails
  <2>1. UNCHANGED <<opts, documents, ran, ioFailed>>
    BY <1>10 DEF AadSshFails, ToolStage
  <2>2. pc \in {"tool", "run tool"} /\ pc' \in {"run tool", "exited"}
    BY <1>10 DEF AadSshFails, ToolStage
  <2> QED
    BY <2>1, <2>2
<1>11. CASE OpenOutput
  BY <1>11 DEF OpenOutput
<1>12. CASE OpenFails
  BY <1>12 DEF OpenFails
<1>13. CASE Discover
  BY <1>13 DEF Discover
<1>14. CASE DiscoverFails
  BY <1>14 DEF DiscoverFails
<1>15. CASE ExecuteBatch
  BY <1>15 DEF ExecuteBatch
<1>16. CASE BatchFails
  BY <1>16 DEF BatchFails
<1>17. CASE Resolve
  BY <1>17 DEF Resolve
<1>18. CASE RunChecker
  BY <1>18 DEF RunChecker, Returns
<1>19. CASE StartPing
  BY <1>19 DEF StartPing, StartFanout
<1>20. CASE PingReceives
  BY <1>20 DEF PingReceives, ReceiveAnswer
<1>21. CASE PingReturns
  BY <1>21 DEF PingReturns, Returns
<1>22. CASE WriteResults
  BY <1>22 DEF WriteResults
<1>23. CASE WriteFails
  BY <1>23 DEF WriteFails
<1>24. CASE SetExitCode
  <2>1. UNCHANGED <<opts, documents, results, ran, ioFailed>>
    BY <1>24 DEF SetExitCode
  <2>2. pc = "exit" /\ pc' = "exited" /\ code' \in {0, 1}
    BY <1>24 DEF SetExitCode, ExitCode
  <2>3. code' = 0 /\ ~opts.noSetExitCode => NoneFailed(ran)
    <3>1. results.failed = ran.failed
      OBVIOUS
    <3>2. opts.noSetExitCode \in BOOLEAN
      OBVIOUS
    <3> QED
      BY <1>24, <3>1, <3>2 DEF SetExitCode, ExitCode, NoneFailed
  <2>4. Remote => code' = 0
    BY <1>24 DEF SetExitCode, ExitCode
  <2>5. ~NoneFailed(ran)' <=> ~NoneFailed(ran)
    BY <2>1
  <2> QED
    BY <2>1, <2>2, <2>3, <2>4, <2>5
<1>25. CASE PingAnswers
  BY <1>25 DEF PingAnswers, Answer
<1>26. CASE Exited
  BY <1>26 DEF Exited
<1>27. CASE UNCHANGED vars
  BY <1>27 DEF vars
<1> QED
  BY <1>1, <1>2, <1>3, <1>4, <1>5, <1>6, <1>7, <1>8, <1>9, <1>10, <1>11, <1>12, <1>13, <1>14,
     <1>15, <1>16, <1>17, <1>18, <1>19, <1>20, <1>21, <1>22, <1>23, <1>24, <1>25, <1>26, <1>27 DEF Next, Main

(* A tool starts its programs one by one. *)
LEMMA ToolStep ==
    ASSUME ShapeInv, PlaceInv, ToolInv, [Next]_vars
    PROVE  ToolInv'
<1> USE DEF Stage, Goto, Exit, vars, mainVars, ToolInv, FailureEnds, ToolRefused, ShapeInv,
            WellFormed, Mode, PlaceInv, Flag, OptionNames, toolVars
<1>1. CASE RejectOptions
  BY <1>1 DEF RejectOptions
<1>2. CASE ProcessOptions
  BY <1>2 DEF ProcessOptions
<1>3. CASE ListAllNames
  BY <1>3 DEF ListAllNames, Leave
<1>4. CASE WriteHelp
  BY <1>4 DEF WriteHelp, Leave
<1>5. CASE Interrupt
  BY <1>5 DEF Interrupt, Leave
<1>6. CASE ParseToolArgs
  <2> HIDE DEF FailureEnds, ToolRefused
  <2>1. UNCHANGED <<opts, machine, started>>
    BY <1>6 DEF ParseToolArgs
  <2>2. pc = "tool" /\ pc' \in {"exited", "run tool"} 
    BY <1>6 DEF ParseToolArgs
  <2>3. FailureEnds(started, code')
    <3>1. code # 1
      BY <2>2
    <3> QED
      BY <3>1, NoFailureYet
  <2>4. IF ToolRefused THEN pc' = "exited" /\ code' = 1 ELSE TRUE
    BY <1>6 DEF ParseToolArgs, ToolRefused
  <2>5. FailureEnds(started, code)' /\ (~ToolRefused' <=> ~ToolRefused)
    BY <2>1, <2>3 DEF ToolRefused
  <2> QED
    BY <2>1, <2>2, <2>4, <2>5
<1>7. CASE RunProgram
  <2>1. PICK ok \in Ends(Program, machine.log) :
            /\ StartProgram(Program, ok)
            /\ IF ok \/ ~Fatal(Program) THEN Goto("run tool") ELSE Exit(1)
    BY <1>7 DEF RunProgram
  <2> DEFINE e == [program |-> Program, namespace |-> Namespace(Program), ok |-> ok]
  <2>2. started' = Append(started, e) /\ UNCHANGED <<opts, machine>> /\ pc = "run tool"
    BY <1>7, <2>1 DEF RunProgram, ToolStage, StartProgram
  <2>3. e.ok \/ e.program = "ssh" \/ code' = 1
    BY <2>1 DEF Fatal
  <2>4. pc' = "run tool" \/ pc' = "exited"
    BY <2>1
  <2> HIDE DEF e, FailureEnds, ToolRefused
  <2>5. code # 1
    BY <2>2
  <2>6. FailureEnds(Append(started, e), code')
    BY <2>3, <2>5, NextProgram
  <2>7. Append(started, e) \in Seq(Range(Append(started, e)))
    BY AppendToOwn
  <2>8. ~ToolRefused'
    BY <2>2 DEF ToolRefused
  <2>9. FailureEnds(started, code)' /\ started' \in Seq(Range(started'))
    BY <2>2, <2>6, <2>7
  <2> QED
    BY <2>2, <2>4, <2>8, <2>9
<1>8. CASE ToolPanics
  <2> HIDE DEF FailureEnds, ToolRefused
  <2>1. UNCHANGED <<opts, machine, started>>
    BY <1>8 DEF ToolPanics, ToolStage
  <2>2. pc = "run tool" /\ pc' = "exited"
    BY <1>8 DEF ToolPanics, ToolStage
  <2>3. FailureEnds(started, code')
    <3>1. code # 1
      BY <2>2
    <3> QED
      BY <3>1, NoFailureYet
  <2>4. ~ToolRefused
    BY <2>2
  <2>5. FailureEnds(started, code)' /\ (~ToolRefused' <=> ~ToolRefused)
    BY <2>1, <2>3 DEF ToolRefused
  <2> QED
    BY <2>1, <2>2, <2>4, <2>5
<1>9. CASE ToolReturns
  <2> HIDE DEF FailureEnds, ToolRefused
  <2>1. UNCHANGED <<opts, machine, started>>
    BY <1>9 DEF ToolReturns, ToolStage
  <2>2. pc = "run tool" /\ pc' = "exited"
    BY <1>9 DEF ToolReturns, ToolStage
  <2>3. FailureEnds(started, code')
    <3>1. code # 1
      BY <2>2
    <3> QED
      BY <3>1, NoFailureYet
  <2>4. ~ToolRefused
    BY <2>2
  <2>5. FailureEnds(started, code)' /\ (~ToolRefused' <=> ~ToolRefused)
    BY <2>1, <2>3 DEF ToolRefused
  <2> QED
    BY <2>1, <2>2, <2>4, <2>5
<1>10. CASE AadSshFails
  BY <1>10 DEF AadSshFails, ToolStage
<1>11. CASE OpenOutput
  BY <1>11 DEF OpenOutput
<1>12. CASE OpenFails
  BY <1>12 DEF OpenFails
<1>13. CASE Discover
  BY <1>13 DEF Discover
<1>14. CASE DiscoverFails
  BY <1>14 DEF DiscoverFails
<1>15. CASE ExecuteBatch
  BY <1>15 DEF ExecuteBatch
<1>16. CASE BatchFails
  BY <1>16 DEF BatchFails
<1>17. CASE Resolve
  BY <1>17 DEF Resolve
<1>18. CASE RunChecker
  BY <1>18 DEF RunChecker, Returns
<1>19. CASE StartPing
  BY <1>19 DEF StartPing, StartFanout
<1>20. CASE PingReceives
  BY <1>20 DEF PingReceives, ReceiveAnswer
<1>21. CASE PingReturns
  BY <1>21 DEF PingReturns, Returns
<1>22. CASE WriteResults
  BY <1>22 DEF WriteResults
<1>23. CASE WriteFails
  BY <1>23 DEF WriteFails
<1>24. CASE SetExitCode
  <2> HIDE DEF FailureEnds, ToolRefused
  <2>1. UNCHANGED <<opts, machine, started>>
    BY <1>24 DEF SetExitCode
  <2>2. pc = "exit" /\ pc' = "exited"
    BY <1>24 DEF SetExitCode
  <2>3. FailureEnds(started, code')
    <3>1. code # 1
      BY <2>2
    <3> QED
      BY <3>1, NoFailureYet
  <2>4. Mode # "tool"
    BY <2>2 DEF IsCheckMode
  <2>5. FailureEnds(started, code)' /\ (~ToolRefused' <=> ~ToolRefused)
    BY <2>1, <2>3 DEF ToolRefused
  <2> QED
    BY <2>1, <2>2, <2>4, <2>5
<1>25. CASE PingAnswers
  BY <1>25 DEF PingAnswers, Answer
<1>26. CASE Exited
  BY <1>26 DEF Exited
<1>27. CASE UNCHANGED vars
  BY <1>27 DEF vars
<1> QED
  BY <1>1, <1>2, <1>3, <1>4, <1>5, <1>6, <1>7, <1>8, <1>9, <1>10, <1>11, <1>12, <1>13, <1>14,
     <1>15, <1>16, <1>17, <1>18, <1>19, <1>20, <1>21, <1>22, <1>23, <1>24, <1>25, <1>26, <1>27 DEF Next, Main

(* Only four actions have to do with a fan-out. *)
LEMMA MostStepsAreQuiet ==
    ASSUME [Next]_vars
    PROVE  \/ UNCHANGED pingVars /\ ((pc # "fan-out" /\ pc' # "fan-out") \/ UNCHANGED pc)
           \/ StartPing \/ PingAnswers \/ PingReceives \/ PingReturns
<1> USE DEF Stage, Goto, Exit, vars, mainVars, Mode
<1>1. CASE RejectOptions
  BY <1>1 DEF RejectOptions
<1>2. CASE ProcessOptions
  BY <1>2 DEF ProcessOptions
<1>3. CASE ListAllNames
  BY <1>3 DEF ListAllNames, Leave
<1>4. CASE WriteHelp
  BY <1>4 DEF WriteHelp, Leave
<1>5. CASE Interrupt
  BY <1>5 DEF Interrupt, Leave
<1>6. CASE ParseToolArgs
  BY <1>6 DEF ParseToolArgs
<1>7. CASE RunProgram
  BY <1>7 DEF RunProgram, ToolStage, StartProgram
<1>8. CASE ToolPanics
  BY <1>8 DEF ToolPanics, ToolStage
<1>9. CASE ToolReturns
  BY <1>9 DEF ToolReturns, ToolStage
<1>10. CASE AadSshFails
  BY <1>10 DEF AadSshFails, ToolStage
<1>11. CASE OpenOutput
  BY <1>11 DEF OpenOutput
<1>12. CASE OpenFails
  BY <1>12 DEF OpenFails
<1>13. CASE Discover
  BY <1>13 DEF Discover
<1>14. CASE DiscoverFails
  BY <1>14 DEF DiscoverFails
<1>15. CASE ExecuteBatch
  BY <1>15 DEF ExecuteBatch
<1>16. CASE BatchFails
  BY <1>16 DEF BatchFails
<1>17. CASE Resolve
  BY <1>17 DEF Resolve
<1>18. CASE RunChecker
  BY <1>18 DEF RunChecker, Returns
<1>19. CASE StartPing
  BY <1>19 DEF StartPing, StartFanout
<1>20. CASE PingReceives
  BY <1>20 DEF PingReceives, ReceiveAnswer
<1>21. CASE PingReturns
  BY <1>21 DEF PingReturns, Returns
<1>22. CASE WriteResults
  BY <1>22 DEF WriteResults
<1>23. CASE WriteFails
  BY <1>23 DEF WriteFails
<1>24. CASE SetExitCode
  BY <1>24 DEF SetExitCode
<1>25. CASE PingAnswers
  BY <1>25 DEF PingAnswers, Answer
<1>26. CASE Exited
  BY <1>26 DEF Exited
<1>27. CASE UNCHANGED vars
  BY <1>27 DEF vars
<1> QED
  BY <1>1, <1>2, <1>3, <1>4, <1>5, <1>6, <1>7, <1>8, <1>9, <1>10, <1>11, <1>12, <1>13, <1>14,
     <1>15, <1>16, <1>17, <1>18, <1>19, <1>20, <1>21, <1>22, <1>23, <1>24, <1>25, <1>26, <1>27 DEF Next, Main

LEMMA FanoutStep ==
    ASSUME FanoutInv, [Next]_vars
    PROVE  FanoutInv'
<1> USE DEF FanoutInv
<1>1. ASSUME UNCHANGED pingVars PROVE FanInv' /\ (Collected => Collected')
  BY <1>1, FanStutter DEF pingVars, Collected
<1>2. CASE UNCHANGED pingVars /\ ((pc # "fan-out" /\ pc' # "fan-out") \/ UNCHANGED pc)
  BY <1>1, <1>2
<1>3. CASE StartPing
  <2>1. Head(todo) \in PingCheckers
    BY <1>3 DEF StartPing, FansOut, PingCheckers
  <2>2. StartFanout(Head(todo), Flags) /\ pc' = "fan-out"
    BY <1>3 DEF StartPing, Goto
  <2> QED
    BY <2>1, <2>2, FanStart
<1>4. CASE PingAnswers
  <2>1. PICK i \in flight : Answer(i)
    BY <1>4 DEF PingAnswers
  <2>2. UNCHANGED <<pc, targets, answers>>
    BY <1>4, <2>1 DEF PingAnswers, mainVars, Answer
  <2> QED
    BY <2>1, <2>2, FanAnswer DEF Collected
<1>5. CASE PingReceives
  <2>1. ReceiveAnswer /\ pc' = "fan-out"
    BY <1>5 DEF PingReceives, mainVars
  <2> QED
    BY <2>1, FanReceive
<1>6. CASE PingReturns
  <2>1. UNCHANGED pingVars /\ Collected
    BY <1>6 DEF PingReturns, Stage
  <2> QED
    BY <1>1, <2>1
<1> QED
  BY <1>2, <1>3, <1>4, <1>5, <1>6, MostStepsAreQuiet

LEMMA InvInit == Init => IInv
<1> SUFFICES ASSUME Init PROVE IInv
  OBVIOUS
<1> USE DEF Init
<1>1. ShapeInv
  <2>1. <<>> \in Seq(Registry)
    OBVIOUS
  <2> QED
    BY <2>1, CommandLinesAssumption DEF ShapeInv, WellFormed
<1>2. PlaceInv
  BY DEF PlaceInv
<1>3. ReportInv
  <2>1. NoneFailed(ran)
    BY DEF NoneFailed
  <2> QED
    BY <2>1 DEF ReportInv
<1>4. ExitInv
  BY DEF ExitInv
<1>5. ToolInv
  <2>1. <<>> \in Seq(Range(<<>>)) /\ started = <<>> /\ DOMAIN started = {}
    BY DEF ToolsInit
  <2> QED
    BY <2>1 DEF ToolInv, FailureEnds
<1>6. FanoutInv
  BY FanInit DEF FanoutInit, FanoutInv, Collected
<1> QED
  BY <1>1, <1>2, <1>3, <1>4, <1>5, <1>6 DEF IInv

LEMMA InvStep == IInv /\ [Next]_vars => IInv'
BY ShapeStep, PlaceStep, ReportStep, ExitStep, ToolStep, FanoutStep DEF IInv

LEMMA Invariant == Spec => []IInv
BY InvInit, InvStep, PTL DEF Spec

-----------------------------------------------------------------------------
(* checker.go:19: for every list of names, one that is unknown keeps all checkers
   from running and anything from being written. *)
THEOREM UnknownRunsNothingHolds == Spec => []UnknownRunsNothing
<1>1. IInv => UnknownRunsNothing
  <2> SUFFICES ASSUME IInv, IsCheckMode, ~(Range(opts.checkers) \subseteq Registry)
               PROVE  ran.checkers = 0 /\ documents = <<>> /\ code \in {-1, 1}
    BY DEF UnknownRunsNothing
  <2>1. ~AllKnown
    BY DEF AllKnown
  <2>2. ran.checkers = 0 /\ documents = <<>>
    BY <2>1 DEF IInv, ReportInv
  <2>3. code = -1 \/ code = 1
    BY <2>1 DEF IInv, ExitInv, ShapeInv
  <2> QED
    BY <2>2, <2>3
<1> QED
  BY <1>1, Invariant, PTL

(* checker.go:27, main.go:267: the report and the exit code are of all results of
   all checkers, however many and whatever they return. *)
THEOREM ReportIsCompleteHolds == Spec => []ReportIsComplete
<1>1. IInv => ReportIsComplete
  <2> SUFFICES ASSUME IInv PROVE ReportIsComplete
    OBVIOUS
  <2>1. ASSUME NEW i \in DOMAIN documents
        PROVE  ran.checkers = Len(opts.checkers) /\ documents[i] = [passed |-> ran.passed, failed |-> ran.failed]
    <3>1. documents # <<>> /\ documents = <<results>>
      BY <2>1 DEF IInv, ReportInv
    <3>2. documents[i] = results
      BY <2>1, <3>1
    <3> QED
      BY <3>1, <3>2 DEF IInv, ReportInv
  <2>2. code = 0 /\ ~opts.noSetExitCode => ~(ran.failed > 0)
    BY DEF IInv, ExitInv, NoneFailed
  <2> QED
    BY <2>1, <2>2 DEF ReportIsComplete
<1> QED
  BY <1>1, Invariant, PTL

(* ssh_executor.go:118: the command line of a batch succeeds with one document, unless
   its output cannot be opened or written. *)
THEOREM RemoteContractHolds == Spec => []RemoteContract
<1>1. IInv => RemoteContract
  <2> SUFFICES ASSUME IInv, Remote PROVE RemoteContract
    BY DEF RemoteContract
  <2>1. ASSUME code # -1 PROVE (code = 0 <=> documents # <<>>) /\ (code = 0 \/ ioFailed)
    BY <2>1 DEF IInv, ShapeInv, ExitInv
  <2>2. documents # <<>> => Len(documents) = 1
    <3>1. documents # <<>> => documents = <<results>>
      BY DEF IInv, ReportInv
    <3> QED
      BY <3>1
  <2>3. code = 0 => code # -1
    OBVIOUS
  <2> QED
    BY <2>1, <2>2, <2>3 DEF RemoteContract
<1> QED
  BY <1>1, Invariant, PTL

(* icmp.go:59, tcpping.go:65: when Check returns, every target has been answered for as
   often as it was asked, for any number of targets and any number of repetitions. *)
THEOREM AnsweredInFullHolds == Spec => []AnsweredInFull
<1>1. IInv => AnsweredInFull
  BY FanDone DEF IInv, FanoutInv, AnsweredInFull
<1> QED
  BY <1>1, Invariant, PTL

(* Both ends of the channel of a fan-out can go on. *)
FanoutMoves ==
    /\ flight # {} => Len(resultChan) < Len(targets)
    /\ pc = "fan-out" => Collected \/ flight # {} \/ resultChan # <<>>

(* tcpping.go:65, icmp.go:59: in no reachable state does a goroutine wait for room in the
   channel, and Check never waits for an answer that nobody is going to send. *)
THEOREM FanoutNeverWaitsForEver == Spec => []FanoutMoves
<1>1. IInv => FanoutMoves
  BY FanoutNeverBlocks DEF IInv, FanoutInv, FanoutMoves
<1> QED
  BY <1>1, Invariant, PTL

(* netexec.go:110, tcpdump.go:66: a program never runs after one that has failed. *)
THEOREM ToolStopsAtFailureHolds == Spec => []ToolStopsAtFailure
<1>1. IInv => ToolStopsAtFailure
  <2> SUFFICES ASSUME IInv, opts.valid, Mode = "tool" PROVE ToolStopsAtFailure
    BY DEF ToolStopsAtFailure
  <2>1. ASSUME ToolRefused PROVE started = <<>> /\ code \in {-1, 1}
    <3>1. started = <<>>
      BY <2>1 DEF IInv, ToolInv
    <3>2. code = -1 \/ code = 1
      BY <2>1 DEF IInv, ToolInv, ShapeInv
    <3> QED
      BY <3>1, <3>2
  <2>2. FailureEnds(started, code)
    BY DEF IInv, ToolInv
  <2> QED
    BY <2>1, <2>2 DEF ToolStopsAtFailure, ToolRefused, FailureEnds
<1> QED
  BY <1>1, Invariant, PTL

-----------------------------------------------------------------------------
(* A filter has one primitive for each part of an endpoint that is given. *)
Primitive(k, v) == [kind |-> k, value |-> v]

LEMMA PrimitivesOfFilter ==
    ASSUME NEW args, NEW p
    PROVE  p \in GenerateTcpdumpParameters(args) <=>
               \/ args.source.ip # "" /\ p = Primitive("src", args.source.ip)
               \/ args.source.port # "" /\ p = Primitive("src port", args.source.port)
               \/ args.destination.ip # "" /\ p = Primitive("dst", args.destination.ip)
               \/ args.destination.port # "" /\ p = Primitive("dst port", args.destination.port)
               \/ args.host.ip # "" /\ p = Primitive("host", args.host.ip)
               \/ args.host.port # "" /\ p = Primitive("port", args.host.port)
               \/ args.tcpOnly /\ p = Primitive("tcp", "")
BY DEF GenerateTcpdumpParameters, Given, Primitive

LEMMA PrimitivesHold ==
    ASSUME NEW packet, NEW v
    PROVE  /\ Holds(Primitive("src", v), packet) <=> v = packet.src.ip
           /\ Holds(Primitive("src port", v), packet) <=> v = packet.src.port
           /\ Holds(Primitive("dst", v), packet) <=> v = packet.dst.ip
           /\ Holds(Primitive("dst port", v), packet) <=> v = packet.dst.port
           /\ Holds(Primitive("host", v), packet) <=> v \in {packet.src.ip, packet.dst.ip}
           /\ Holds(Primitive("port", v), packet) <=> v \in {packet.src.port, packet.dst.port}
           /\ Holds(Primitive("tcp", v), packet) <=> packet.tcp
BY DEF Holds, Primitive

LEMMA WhatTheFilterShows ==
    ASSUME NEW args, NEW packet
    PROVE  Shows(args, packet) <=>
               /\ args.source.ip \in {"", packet.src.ip} /\ args.source.port \in {"", packet.src.port}
               /\ args.destination.ip \in {"", packet.dst.ip} /\ args.destination.port \in {"", packet.dst.port}
               /\ args.host.ip \in {"", packet.src.ip, packet.dst.ip}
               /\ args.host.port \in {"", packet.src.port, packet.dst.port}
               /\ args.tcpOnly => packet.tcp
<1> DEFINE S(p) == p \in GenerateTcpdumpParameters(args)
           H(p) == Holds(p, packet)
<1>1. Shows(args, packet) <=>
          /\ args.source.ip # "" => H(Primitive("src", args.source.ip))
          /\ args.source.port # "" => H(Primitive("src port", args.source.port))
          /\ args.destination.ip # "" => H(Primitive("dst", args.destination.ip))
          /\ args.destination.port # "" => H(Primitive("dst port", args.destination.port))
          /\ args.host.ip # "" => H(Primitive("host", args.host.ip))
          /\ args.host.port # "" => H(Primitive("port", args.host.port))
          /\ args.tcpOnly => H(Primitive("tcp", ""))
  BY PrimitivesOfFilter, Zenon DEF Shows
<1> QED
  BY <1>1, PrimitivesHold

(* tcpdump.go:83: for all endpoints and any packets, the filter hides nothing that the
   options describe, and what it shows matches each of them, the address of --host
   at one end and its port at one, which need not be the same. *)
THEOREM FilterMatchesEachOptionHolds == Spec => []FilterMatchesEachOption
<1>1. FilterMatchesEachOption
  BY WhatTheFilterShows DEF FilterMatchesEachOption, AskedFor, Matches, Endpoint
<1> QED
  BY <1>1, PTL

(* Unsigned words that are small enough behave like numbers. *)
LEMMA Small == ASSUME NEW n \in Nat, n < Modulus PROVE n % Modulus = n
BY ModulusAssumption

(* systemload.go:101: as long as no counter goes back, unsigned differences are the
   real ones, for any word size, any counters and any number of processes. *)
THEOREM LoadIsReportedHolds == Spec => []LoadIsReported
<1>1. LoadIsReported
  <2> SUFFICES ASSUME NEW load, Forward(load) PROVE LoadIsJudged(load)
    BY DEF LoadIsReported, LoadIsJudged
  <2>1. /\ \A c \in {"idle", "busy", "guest"} :
               /\ load.before[c] \in Nat /\ load.after[c] \in Nat /\ load.before[c] <= load.after[c]
               /\ 100 * load.after[c] < Modulus
        /\ 100 * (load.after.idle + load.after.busy + load.after.guest) < Modulus
    BY DEF Forward, getTotalTime
  <2> DEFINE i0 == load.before.idle  i1 == load.after.idle
             b0 == load.before.busy  b1 == load.after.busy
             g0 == load.before.guest g1 == load.after.guest
  <2>2. /\ i0 \in Nat /\ i1 \in Nat /\ b0 \in Nat /\ b1 \in Nat /\ g0 \in Nat /\ g1 \in Nat
        /\ i0 <= i1 /\ b0 <= b1 /\ g0 <= g1
        /\ 100 * i1 < Modulus /\ 100 * (i1 + b1 + g1) < Modulus
    BY <2>1
  <2>3. DeltaIdle(load) = (i1 - i0) % Modulus /\ DeltaTotal(load) = ((i1 + b1 + g1) - (i0 + b0 + g0)) % Modulus
    BY DEF DeltaIdle, DeltaTotal, Delta, getTotalTime
  <2>4. Idle(load) = i1 - i0 /\ Total(load) = (i1 - i0) + b1 - b0
    BY DEF Idle, Total
  <2>5. CPUTooHigh(load) <=> (100 * DeltaIdle(load)) % Modulus < 20 * DeltaTotal(load)
    BY DEF CPUTooHigh, Hundredfold
  <2>6. load.before.guest = load.after.guest <=> g0 = g1
    OBVIOUS
  <2> HIDE DEF i0, i1, b0, b1, g0, g1
  <2>7. DeltaIdle(load) = i1 - i0
    <3>1. i1 - i0 \in Nat /\ i1 - i0 < Modulus
      BY <2>2, ModulusAssumption
    <3> QED
      BY <2>3, <3>1, Small
  <2>8. DeltaTotal(load) = (i1 + b1 + g1) - (i0 + b0 + g0)
    <3>1. (i1 + b1 + g1) - (i0 + b0 + g0) \in Nat /\ (i1 + b1 + g1) - (i0 + b0 + g0) < Modulus
      BY <2>2, ModulusAssumption
    <3> QED
      BY <2>3, <3>1, Small
  <2>9. (100 * DeltaIdle(load)) % Modulus = 100 * (i1 - i0)
    <3>1. 100 * (i1 - i0) \in Nat /\ 100 * (i1 - i0) < Modulus
      BY <2>2, ModulusAssumption
    <3> QED
      BY <2>7, <3>1, Small
  <2>10. 100 * Idle(load) < 20 * Total(load) => CPUTooHigh(load)
    BY <2>2, <2>4, <2>5, <2>8, <2>9
  <2>11. load.before.guest = load.after.guest => (CPUTooHigh(load) => 100 * Idle(load) < 20 * Total(load))
    BY <2>2, <2>4, <2>5, <2>6, <2>8, <2>9
  <2>12. load.before.guest = load.after.guest => DeltaTotal(load) = Total(load)
    BY <2>2, <2>4, <2>6, <2>8
  <2>13. ASSUME NEW p \in DOMAIN load.processes, load.before.guest = load.after.guest
         PROVE  ProcessTooHigh(load, p) <=>
                    /\ ~load.processes[p].gone
                    /\ 100 * Used(load, p) > 50 * Total(load) \/ Used(load, p) > 80
    <3>1. CASE load.processes[p].gone
      BY <3>1 DEF ProcessTooHigh
    <3>2. CASE ~load.processes[p].gone
      <4> DEFINE u0 == load.processes[p].before  u1 == load.processes[p].after
      <4>1. u0 \in Nat /\ u1 \in Nat /\ u0 <= u1 /\ 100 * u1 < Modulus
        BY <3>2 DEF Forward
      <4> HIDE DEF u0, u1
      <4>2. (u1 - u0) % Modulus = u1 - u0
        <5>1. u1 - u0 \in Nat /\ u1 - u0 < Modulus
          BY <4>1, ModulusAssumption
        <5> QED
          BY <5>1, Small
      <4>3. Delta(load.processes[p].after, load.processes[p].before) = Used(load, p)
        BY <4>2 DEF u0, u1, Delta, Used
      <4> QED
        BY <2>12, <2>13, <3>2, <4>3 DEF ProcessTooHigh
    <3> QED
      BY <3>1, <3>2
  <2> QED
    BY <2>10, <2>11, <2>13 DEF LoadIsJudged
<1> QED
  BY <1>1, PTL
-----------------------------------------------------------------------------
(* Loops over a list: a recursive function of how far the loop has come *)

LEMMA LoopInduction ==
    ASSUME NEW n \in Nat, NEW G, 0 \in G, \A i \in 1..n : i - 1 \in G => i \in G
    PROVE  \A i \in 0..n : i \in G
<1> DEFINE R == OpToRel(<, Nat)
           T == {i \in 0..n : i \notin G}
<1>1. IsWellFoundedOn(R, Nat)
  BY NatLessThanWellFounded
<1> SUFFICES ASSUME T # {} PROVE FALSE
  OBVIOUS
<1>2. T \subseteq Nat
  OBVIOUS
<1> HIDE DEF R, T
<1>3. PICK k \in T : \A m \in T : <<m, k>> \notin R
  BY <1>1, <1>2, WFMin
<1>4. k \in 1..n
  BY <1>3 DEF T
<1>5. k - 1 \in T
  BY <1>3, <1>4 DEF T
<1>6. <<k - 1, k>> \in R
  BY <1>4 DEF R, OpToRel
<1> QED
  BY <1>3, <1>5, <1>6

LoopRun(k, base, step, f) == f[0] = base /\ \A i \in 1..k : f[i] = step[i][f[i - 1]]

LEMMA LoopExists ==
    ASSUME NEW n \in Nat, NEW S, NEW base \in S, NEW step \in [1..n -> [S -> S]]
    PROVE  \E f \in [0..n -> S] : LoopRun(n, base, step, f)
<1> DEFINE G == {k \in 0..n : \E f \in [0..k -> S] : LoopRun(k, base, step, f)}
<1>1. 0 \in G
  <2> DEFINE g == [i \in 0..0 |-> base]
  <2>1. g \in [0..0 -> S] /\ g[0] = base
    OBVIOUS
  <2> HIDE DEF g
  <2>2. LoopRun(0, base, step, g)
    BY <2>1 DEF LoopRun
  <2>3. 0 \in 0..n
    OBVIOUS
  <2> QED
    BY <2>1, <2>2, <2>3
<1>2. ASSUME NEW k \in 1..n, k - 1 \in G PROVE k \in G
  <2>1. PICK f \in [0..(k - 1) -> S] : LoopRun(k - 1, base, step, f)
    BY <1>2
  <2> DEFINE g == [i \in 0..k |-> IF i = k THEN step[k][f[k - 1]] ELSE f[i]]
  <2>2. g \in [0..k -> S]
    OBVIOUS
  <2>3. g[0] = base /\ \A i \in 1..(k - 1) : g[i] = f[i] /\ g[i - 1] = f[i - 1]
    BY <2>1 DEF LoopRun
  <2>4. g[k] = step[k][g[k - 1]]
    OBVIOUS
  <2> HIDE DEF g
  <2>5. LoopRun(k, base, step, g)
    BY <2>1, <2>3, <2>4 DEF LoopRun
  <2> QED
    BY <2>2, <2>5
<1>3. n \in G
  <2> HIDE DEF G
  <2>1. \A i \in 0..n : i \in G
    BY <1>1, <1>2, LoopInduction
  <2> QED
    BY <2>1
<1> QED
  BY <1>3 DEF G

-----------------------------------------------------------------------------
(* The loop over the pods of a replica set *)

LEMMA FoundType ==
    ASSUME NEW Nodes, NEW node \in Nodes, NEW same \in BOOLEAN
    PROVE  [node |-> node, same |-> same] \in [node : Nodes, same : BOOLEAN]
OBVIOUS

LEMMA CompareNodeType ==
    ASSUME NEW Nodes, NEW pod \in Nodes, NEW found \in [node : Nodes, same : BOOLEAN]
    PROVE  CompareNode(found, pod) \in [node : Nodes, same : BOOLEAN]
<1> DEFINE same == found.same /\ pod = found.node
<1>1. found.node \in Nodes /\ found.same \in BOOLEAN
  OBVIOUS
<1>2. same \in BOOLEAN
  OBVIOUS
<1>3. found = [node |-> found.node, same |-> found.same]
  OBVIOUS
<1>4. CASE found.node = ""
  <2>1. CompareNode(found, pod) = [found EXCEPT !.node = pod]
    BY <1>4 DEF CompareNode
  <2>2. [found EXCEPT !.node = pod] = [node |-> pod, same |-> found.same]
    BY <1>3
  <2> QED
    BY <2>1, <2>2, <1>1, FoundType
<1>5. CASE found.node # ""
  <2>1. CompareNode(found, pod) = [found EXCEPT !.same = same]
    BY <1>5 DEF CompareNode
  <2> HIDE DEF same
  <2>2. [found EXCEPT !.same = same] = [node |-> found.node, same |-> same]
    BY <1>3
  <2> QED
    BY <2>1, <2>2, <1>1, <1>2, FoundType
<1> QED
  BY <1>4, <1>5

ClosedUnder(n, pods, S) == \A found \in S, i \in 1..n : CompareNode(found, pods[i]) \in S

CompareNodes(n, pods, base, f) == f = [i \in 0..n |-> IF i = 0 THEN base ELSE CompareNode(f[i - 1], pods[i])]

LEMMA CompareNodeRuns ==
    ASSUME NEW n \in Nat, NEW pods, NEW S, NEW base \in S,
           ClosedUnder(n, pods, S)
    PROVE  \E f : CompareNodes(n, pods, base, f)
<1> DEFINE step == [i \in 1..n |-> [found \in S |-> CompareNode(found, pods[i])]]
<1>1. step \in [1..n -> [S -> S]]
  BY DEF ClosedUnder
<1>2. \A x \in S, i \in 1..n : step[i][x] = CompareNode(x, pods[i])
  OBVIOUS
<1> HIDE DEF step
<1>3. PICK g \in [0..n -> S] : LoopRun(n, base, step, g)
  BY <1>1, LoopExists
<1>4. \A i \in 1..n : g[i - 1] \in S
  BY <1>3
<1>5. g[0] = base /\ \A i \in 1..n : g[i] = CompareNode(g[i - 1], pods[i])
  BY <1>2, <1>3, <1>4 DEF LoopRun
<1>6. g = [i \in 0..n |-> g[i]]
  BY <1>3
<1>7. \A i \in 0..n : g[i] = IF i = 0 THEN base ELSE CompareNode(g[i - 1], pods[i])
  BY <1>5
<1>8. CompareNodes(n, pods, base, g)
  BY <1>6, <1>7 DEF CompareNodes
<1> QED
  BY <1>8

LEMMA CompareNodeLoop ==
    ASSUME NEW n \in Nat, NEW pods, NEW S, NEW base \in S,
           ClosedUnder(n, pods, S),
           NEW f, CompareNodes(n, pods, base, f)
    PROVE  f \in [0..n -> S] /\ f[0] = base /\ \A i \in 1..n : f[i] = CompareNode(f[i - 1], pods[i])
<1>1. \A i \in 0..n : f[i] = IF i = 0 THEN base ELSE CompareNode(f[i - 1], pods[i])
  BY DEF CompareNodes
<1>4. f = [i \in 0..n |-> f[i]]
  BY DEF CompareNodes
<1>2. f[0] = base /\ \A i \in 1..n : f[i] = CompareNode(f[i - 1], pods[i])
  BY <1>1
<1>3. \A i \in 0..n : f[i] \in S
  <2> DEFINE G == {j \in 0..n : f[j] \in S}
  <2>1. 0 \in G /\ \A i \in 1..n : i - 1 \in G => i \in G
    BY <1>2 DEF ClosedUnder
  <2> HIDE DEF G
  <2>2. \A i \in 0..n : i \in G
    BY <2>1, LoopInduction
  <2> QED
    BY <2>2 DEF G
<1> QED
  BY <1>4, <1>2, <1>3


(* After i pods: none of them has a node yet, or the first that has one gives the
   node, and the verdict is about the pods from there on. *)
Compared(pods, i, found) ==
    \/ found.node = "" /\ found.same = TRUE /\ \A j \in 1..i : pods[j] = ""
    \/ found.node # "" /\ \E first \in 1..i :
           /\ pods[first] = found.node /\ \A j \in 1..(first - 1) : pods[j] = ""
           /\ found.same <=> \A j \in first..i : pods[j] = found.node

LEMMA ComparedStep ==
    ASSUME NEW X, NEW n \in Nat, NEW pods \in [1..n -> X], NEW i \in 1..n,
           NEW found \in [node : X, same : BOOLEAN], Compared(pods, i - 1, found)
    PROVE  Compared(pods, i, CompareNode(found, pods[i]))
<1> DEFINE next == CompareNode(found, pods[i])
<1>1. CASE found.node = ""
  <2>1. next.node = pods[i] /\ next.same = found.same
    BY <1>1 DEF CompareNode
  <2>2. found.same = TRUE /\ \A j \in 1..(i - 1) : pods[j] = ""
    BY <1>1 DEF Compared
  <2> HIDE DEF next
  <2>3. CASE pods[i] = ""
    <3>0. \A j \in 1..i : j = i \/ j \in 1..(i - 1)
      OBVIOUS
    <3>1. \A j \in 1..i : pods[j] = ""
      BY <2>2, <2>3, <3>0, Zenon
    <3> QED
      BY <2>1, <2>2, <2>3, <3>1 DEF Compared, next
  <2>4. CASE pods[i] # ""
    <3>1. \A j \in i..i : pods[j] = next.node
      BY <2>1
    <3>2. i \in 1..i
      OBVIOUS
    <3> QED
      BY <2>1, <2>2, <2>4, <3>1, <3>2 DEF Compared, next
  <2> QED
    BY <2>3, <2>4
<1>2. CASE found.node # ""
  <2>1. next.node = found.node /\ next.same = (found.same /\ pods[i] = found.node)
    BY <1>2 DEF CompareNode
  <2>2. PICK first \in 1..(i - 1) :
            /\ pods[first] = found.node /\ \A j \in 1..(first - 1) : pods[j] = ""
            /\ found.same <=> \A j \in first..(i - 1) : pods[j] = found.node
    BY <1>2 DEF Compared
  <2> HIDE DEF next
  <2>3. (\A j \in first..i : pods[j] = found.node) <=> ((\A j \in first..(i - 1) : pods[j] = found.node) /\ pods[i] = found.node)
    <3>1. \A j \in first..i : j = i \/ j \in first..(i - 1)
      OBVIOUS
    <3>2. i \in first..i /\ \A j \in first..(i - 1) : j \in first..i
      OBVIOUS
    <3> QED
      BY <3>1, <3>2
  <2>4. next.same <=> \A j \in first..i : pods[j] = next.node
    BY <2>1, <2>2, <2>3
  <2>5. next.node # ""
    BY <1>2, <2>1
  <2>7. first \in 1..i
    OBVIOUS
  <2>6. pods[first] = next.node /\ \A j \in 1..(first - 1) : pods[j] = ""
    BY <2>1, <2>2
  <2> QED
    BY <2>4, <2>5, <2>6, <2>7 DEF Compared, next
<1> QED
  BY <1>1, <1>2

LEMMA ComparedLoop ==
    ASSUME NEW X, NEW n \in Nat, NEW pods \in [1..n -> X], NEW base \in [node : X, same : BOOLEAN],
           Compared(pods, 0, base), NEW f, CompareNodes(n, pods, base, f)
    PROVE  f[n] \in [node : X, same : BOOLEAN] /\ Compared(pods, n, f[n])
<1> DEFINE S == [node : X, same : BOOLEAN]
           G == {i \in 0..n : Compared(pods, i, f[i])}
<1>1. ClosedUnder(n, pods, S)
  BY CompareNodeType DEF ClosedUnder
<1>2. base \in S
  OBVIOUS
<1> HIDE DEF S
<1>3. f \in [0..n -> S] /\ f[0] = base /\ \A i \in 1..n : f[i] = CompareNode(f[i - 1], pods[i])
  BY <1>1, <1>2, CompareNodeLoop
<1>4. 0 \in G
  BY <1>3
<1>5. ASSUME NEW i \in 1..n, i - 1 \in G PROVE i \in G
  <2>1. f[i - 1] \in S /\ f[i] = CompareNode(f[i - 1], pods[i]) /\ Compared(pods, i - 1, f[i - 1])
    BY <1>3, <1>5
  <2>2. f[i - 1] \in [node : X, same : BOOLEAN]
    BY <2>1 DEF S
  <2>3. Compared(pods, i, CompareNode(f[i - 1], pods[i]))
    BY <2>1, <2>2, ComparedStep
  <2>4. Compared(pods, i, f[i])
    BY <2>1, <2>3, Zenon
  <2> QED
    BY <2>4
<1>6. n \in G
  <2> HIDE DEF G
  <2>1. \A i \in 0..n : i \in G
    BY <1>4, <1>5, LoopInduction
  <2> QED
    BY <2>1
<1> QED
  BY <1>3, <1>6 DEF S

LEMMA SeqIsFunction ==
    ASSUME NEW X, NEW q \in Seq(X)
    PROVE  Len(q) \in Nat /\ q \in [1..Len(q) -> X]
OBVIOUS

LEMMA EmptyInterval == 1..0 = {}
OBVIOUS

LEMMA SameNodeCompares ==
    ASSUME NEW X, "" \in X, NEW pods \in Seq(X)
    PROVE  \E found \in [node : X, same : BOOLEAN] :
               SameNode(pods) = found.same /\ Compared(pods, Len(pods), found)
<1> DEFINE S == [node : X, same : BOOLEAN]
           base == [node |-> "", same |-> TRUE]
           n == Len(pods)
           f == CHOOSE f : CompareNodes(n, pods, base, f)
<1>1. n \in Nat /\ pods \in [1..n -> X]
  BY SeqIsFunction
<1>2. base \in S
  BY FoundType
<1>3. ClosedUnder(n, pods, S)
  BY <1>1, CompareNodeType DEF ClosedUnder
<1>4. base.node = "" /\ base.same = TRUE
  OBVIOUS
<1>5. SameNode(pods) = f[n].same
  BY DEF SameNode, CompareNodes
<1> HIDE DEF base, n
<1>6. Compared(pods, 0, base)
  <2>1. \A j \in 1..0 : pods[j] = ""
    BY EmptyInterval, Zenon
  <2> QED
    BY <1>4, <2>1 DEF Compared
<1>7. \E g : CompareNodes(n, pods, base, g)
  <2> HIDE DEF S
  <2> QED
    BY <1>1, <1>2, <1>3, CompareNodeRuns, Zenon
<1>8. CompareNodes(n, pods, base, f)
  BY <1>7
<1> HIDE DEF f
<1>9. f[n] \in S /\ Compared(pods, n, f[n])
  BY <1>1, <1>2, <1>6, <1>8, ComparedLoop, Zenon
<1> QED
  BY <1>5, <1>9, Zenon DEF n


LEMMA FewElements ==
    ASSUME NEW S, IsFiniteSet(S), NEW x
    PROVE  /\ S \subseteq {x} => Cardinality(S) <= 1
           /\ x \in S /\ Cardinality(S) <= 1 => S = {x}
<1>1. S \subseteq {x} => Cardinality(S) <= 1
  <2>1. IsFiniteSet({x}) /\ Cardinality({x}) = 1
    BY FS_Singleton
  <2> QED
    BY <2>1, FS_Subset
<1>2. ASSUME x \in S, Cardinality(S) <= 1 PROVE S = {x}
  <2>1. Cardinality(S) \in Nat /\ Cardinality(S) # 0
    BY <1>2, FS_EmptySet, FS_CardinalityType
  <2>2. Cardinality(S) = 1
    BY <1>2, <2>1
  <2>3. PICK y : S = {y}
    BY <2>2, FS_Singleton
  <2> QED
    BY <1>2, <2>3
<1> QED
  BY <1>1, <1>2

LEMMA ComparedNodes ==
    ASSUME NEW X, NEW n \in Nat, NEW pods \in [1..n -> X], NEW found \in [node : X, same : BOOLEAN],
           Compared(pods, n, found)
    PROVE  /\ found.same => Cardinality(Range(pods) \ {""}) <= 1
           /\ "" \notin Range(pods) => (found.same <=> Cardinality(Range(pods)) <= 1)
<1> DEFINE nodes == Range(pods)
<1>1. nodes = {pods[j] : j \in 1..n}
  BY DEF Range
<1>2. IsFiniteSet(nodes)
  <2>1. IsFiniteSet(1..n)
    BY FS_Interval
  <2>2. pods \in Surjection(1..n, nodes)
    BY <1>1 DEF Surjection
  <2> QED
    BY <2>1, <2>2, FS_Surjection
<1>3. IsFiniteSet(nodes \ {""})
  BY <1>2, FS_RemoveElement
<1> HIDE DEF nodes
<1>4. CASE found.node = ""
  <2>1. found.same = TRUE /\ \A j \in 1..n : pods[j] = ""
    BY <1>4 DEF Compared
  <2>2. nodes \subseteq {""}
    BY <1>1, <2>1
  <2>3. nodes \ {""} \subseteq {""}
    BY <2>2
  <2>4. Cardinality(nodes \ {""}) <= 1 /\ Cardinality(nodes) <= 1
    BY <1>2, <1>3, <2>2, <2>3, FewElements
  <2> QED
    BY <2>1, <2>4 DEF nodes
<1>5. CASE found.node # ""
  <2>1. PICK first \in 1..n :
            /\ pods[first] = found.node /\ \A j \in 1..(first - 1) : pods[j] = ""
            /\ found.same <=> \A j \in first..n : pods[j] = found.node
    BY <1>5 DEF Compared
  <2>2. \A j \in 1..n : j \in 1..(first - 1) \/ j \in first..n
    OBVIOUS
  <2>3. found.same => nodes \ {""} \subseteq {found.node}
    BY <1>1, <2>1, <2>2, Zenon
  <2>4. found.same => Cardinality(nodes \ {""}) <= 1
    BY <1>3, <2>3, FewElements
  <2>5. ASSUME "" \notin nodes PROVE found.same <=> Cardinality(nodes) <= 1
    <3>1. first = 1
      <4>1. first # 1 => 1 \in 1..(first - 1) /\ 1 \in 1..n
        OBVIOUS
      <4> QED
        BY <1>1, <2>1, <2>5, <4>1, Zenon
    <3>2. found.same <=> nodes \subseteq {found.node}
      BY <1>1, <2>1, <3>1, Zenon
    <3>3. found.node \in nodes
      BY <1>1, <2>1
    <3>4. nodes \subseteq {found.node} <=> Cardinality(nodes) <= 1
      BY <1>2, <3>3, FewElements
    <3> QED
      BY <3>2, <3>4
  <2> QED
    BY <2>4, <2>5 DEF nodes
<1> QED
  BY <1>4, <1>5

(* podschedule.go:87: for a replica set of any size, two pods on different nodes are never
   said to be on the same one, and once all pods have a node their order in the list is
   of no importance. *)
THEOREM SameNodeIsOneNode ==
    ASSUME NEW X, NEW pods \in Seq(X)
    PROVE  /\ SameNode(pods) => Cardinality(Range(pods) \ {""}) <= 1
           /\ "" \notin Range(pods) => (SameNode(pods) <=> Cardinality(Range(pods)) <= 1)
<1> DEFINE Y == X \cup {""}
<1>1. pods \in Seq(Y) /\ "" \in Y
  <2>1. X \subseteq Y /\ "" \in Y
    OBVIOUS
  <2> HIDE DEF Y
  <2> QED
    BY <2>1, SequenceOfMore
<1>2. Len(pods) \in Nat /\ pods \in [1..Len(pods) -> Y]
  BY <1>1, SeqIsFunction
<1> HIDE DEF Y
<1>3. PICK found \in [node : Y, same : BOOLEAN] : SameNode(pods) = found.same /\ Compared(pods, Len(pods), found)
  BY <1>1, SameNodeCompares
<1> QED
  BY <1>2, <1>3, ComparedNodes

(* However many pods the API server lists, what podschedule says of them is about their nodes. *)
THEOREM ScheduleIsOfNodesHolds == Spec => []ScheduleIsOfNodes
<1>1. ScheduleIsOfNodes
  <2>1. ASSUME NEW pods \in PodLists
        PROVE  pods \in Seq({"", "node1", "node2"})
    <3> DEFINE Nodes == {"", "node1", "node2"}
    <3>1. PICK m \in 0..(MaxItems + 1) : pods \in [1..m -> Nodes]
      BY DEF PodLists, BoundedSeq, SeqOf
    <3> HIDE DEF Nodes
    <3>2. m \in Nat
      BY MaxItemsAssumption
    <3>3. pods \in Seq(Nodes)
      BY <3>1, <3>2
    <3> QED
      BY <3>3 DEF Nodes
  <2> QED
    BY <2>1, SameNodeIsOneNode DEF ScheduleIsOfNodes
<1> QED
  BY <1>1, PTL
-----------------------------------------------------------------------------
(* The loop over the nodes of the cluster *)

TakeName(names, node) == IF Selected(node) THEN Append(names, node.name) ELSE names

TakeNames(n, nodes, f) == f = [i \in 0..n |-> IF i = 0 THEN <<>> ELSE TakeName(f[i - 1], nodes[i])]

NamesOf(nodes) == {nodes[i].name : i \in DOMAIN nodes}

LEMMA TakeNameType ==
    ASSUME NEW Names, NEW names \in Seq(Names), NEW node, node.name \in Names
    PROVE  TakeName(names, node) \in Seq(Names)
BY DEF TakeName

LEMMA TakeNamesRuns ==
    ASSUME NEW n \in Nat, NEW nodes, NEW Names, \A i \in 1..n : nodes[i].name \in Names
    PROVE  \E f : TakeNames(n, nodes, f)
<1> DEFINE S == Seq(Names)
           step == [i \in 1..n |-> [names \in S |-> TakeName(names, nodes[i])]]
<1>1. \A i \in 1..n, names \in S : TakeName(names, nodes[i]) \in S
  BY TakeNameType
<1>2. <<>> \in S
  OBVIOUS
<1> HIDE DEF S
<1>3. step \in [1..n -> [S -> S]]
  BY <1>1
<1>4. \A i \in 1..n, names \in S : step[i][names] = TakeName(names, nodes[i])
  OBVIOUS
<1> HIDE DEF step
<1>5. PICK g \in [0..n -> S] : LoopRun(n, <<>>, step, g)
  BY <1>2, <1>3, LoopExists
<1>6. \A i \in 1..n : g[i - 1] \in S
  BY <1>5
<1>7. g[0] = <<>> /\ \A i \in 1..n : g[i] = TakeName(g[i - 1], nodes[i])
  BY <1>4, <1>5, <1>6 DEF LoopRun
<1>8. g = [i \in 0..n |-> g[i]]
  BY <1>5
<1>9. \A i \in 0..n : g[i] = IF i = 0 THEN <<>> ELSE TakeName(g[i - 1], nodes[i])
  BY <1>7
<1> QED
  BY <1>8, <1>9 DEF TakeNames

(* After i nodes: one name for each of them that is selected. *)
Taken(nodes, i, names) ==
    LET Chosen == {j \in 1..i : Selected(nodes[j])}
    IN /\ names \in Seq(NamesOf(nodes))
       /\ Len(names) = Cardinality(Chosen)
       /\ Range(names) = {nodes[j].name : j \in Chosen}

LEMMA TakenStep ==
    ASSUME NEW nodes, NEW n \in Nat, DOMAIN nodes = 1..n, NEW i \in 1..n, NEW names,
           Taken(nodes, i - 1, names)
    PROVE  Taken(nodes, i, TakeName(names, nodes[i]))
<1> DEFINE Before == {j \in 1..(i - 1) : Selected(nodes[j])}
           Chosen == {j \in 1..i : Selected(nodes[j])}
<1>1. names \in Seq(NamesOf(nodes)) /\ Len(names) = Cardinality(Before)
  BY DEF Taken
<1>2. Range(names) = {nodes[j].name : j \in Before}
  BY DEF Taken
<1>3. IsFiniteSet(Before) /\ i \notin Before
  <2>1. IsFiniteSet(1..(i - 1)) /\ Before \subseteq 1..(i - 1)
    BY FS_Interval
  <2> QED
    BY <2>1, FS_Subset
<1>4. CASE ~Selected(nodes[i])
  <2>1. Chosen = Before
    BY <1>4
  <2> HIDE DEF Before, Chosen
  <2>2. TakeName(names, nodes[i]) = names
    BY <1>4 DEF TakeName
  <2> QED
    BY <1>1, <1>2, <2>1, <2>2 DEF Taken, Chosen
<1>5. CASE Selected(nodes[i])
  <2> DEFINE q == Append(names, nodes[i].name)
  <2>1. Chosen = Before \cup {i}
    BY <1>5
  <2>2. nodes[i].name \in NamesOf(nodes)
    BY DEF NamesOf
  <2> HIDE DEF Before, Chosen
  <2>3. Cardinality(Chosen) = Cardinality(Before) + 1
    BY <1>3, <2>1, FS_AddElement
  <2>4. /\ q \in Seq(NamesOf(nodes)) /\ Len(q) = Len(names) + 1
        /\ DOMAIN q = 1..(Len(names) + 1) /\ DOMAIN names = 1..Len(names) /\ Len(names) \in Nat
        /\ \A j \in DOMAIN names : q[j] = names[j]
        /\ q[Len(names) + 1] = nodes[i].name
    BY <1>1, <2>2
  <2>5. TakeName(names, nodes[i]) = q
    BY <1>5 DEF TakeName
  <2> HIDE DEF q
  <2>6. DOMAIN q = DOMAIN names \cup {Len(names) + 1}
    BY <2>4
  <2>7. Range(q) = Range(names) \cup {nodes[i].name}
    BY <2>4, <2>6 DEF Range
  <2>8. Range(q) = {nodes[j].name : j \in Chosen}
    BY <1>2, <2>1, <2>7
  <2> QED
    BY <1>1, <2>3, <2>4, <2>5, <2>8 DEF Taken, Chosen
<1> QED
  BY <1>4, <1>5

LEMMA TakenLoop ==
    ASSUME NEW nodes, NEW n \in Nat, DOMAIN nodes = 1..n, NEW f, TakeNames(n, nodes, f)
    PROVE  Taken(nodes, n, f[n])
<1> DEFINE G == {i \in 0..n : Taken(nodes, i, f[i])}
<1>1. \A i \in 0..n : f[i] = IF i = 0 THEN <<>> ELSE TakeName(f[i - 1], nodes[i])
  BY DEF TakeNames
<1>2. f[0] = <<>> /\ \A i \in 1..n : f[i] = TakeName(f[i - 1], nodes[i])
  BY <1>1
<1>3. Taken(nodes, 0, <<>>)
  <2> DEFINE Chosen == {j \in 1..0 : Selected(nodes[j])}
  <2>1. Chosen = {}
    BY EmptyInterval, Zenon
  <2>2. <<>> \in Seq(NamesOf(nodes)) /\ Len(<<>>) = 0 /\ Range(<<>>) = {}
    BY DEF Range
  <2>3. Cardinality({}) = 0
    BY FS_EmptySet
  <2>4. {nodes[j].name : j \in Chosen} = {}
    BY <2>1
  <2> QED
    BY <2>1, <2>2, <2>3, <2>4 DEF Taken
<1>4. 0 \in G
  BY <1>2, <1>3
<1>5. ASSUME NEW i \in 1..n, i - 1 \in G PROVE i \in G
  <2>1. f[i] = TakeName(f[i - 1], nodes[i]) /\ Taken(nodes, i - 1, f[i - 1])
    BY <1>2, <1>5
  <2>2. Taken(nodes, i, TakeName(f[i - 1], nodes[i]))
    BY <2>1, TakenStep
  <2>3. Taken(nodes, i, f[i])
    BY <2>1, <2>2, Zenon
  <2> QED
    BY <2>3
<1>6. n \in G
  <2> HIDE DEF G
  <2>1. \A i \in 0..n : i \in G
    BY <1>4, <1>5, LoopInduction
  <2> QED
    BY <2>1
<1> QED
  BY <1>6

(* kube_discoverer.go:39: every node of the cluster that the options select becomes one
   machine of the batch, and no other does, however many nodes the API server lists. *)
THEOREM NodeNamesAreOfTheSelected ==
    ASSUME machine \in Machines
    PROVE  LET Chosen == {i \in DOMAIN machine.nodes : Selected(machine.nodes[i])}
           IN /\ NodeNames \in Seq(Range(NodeNames))
              /\ Len(NodeNames) = Cardinality(Chosen)
              /\ Range(NodeNames) = {machine.nodes[i].name : i \in Chosen}
<1> DEFINE nodes == machine.nodes
           n == Len(nodes)
           f == CHOOSE f : TakeNames(n, nodes, f)
<1>1. nodes \in Seq(Range(nodes))
  BY MachinesAssumption
<1>2. n \in Nat /\ DOMAIN nodes = 1..n
  BY <1>1, SeqIsFunction
<1>3. NodeNames = f[n]
  BY DEF NodeNames, TakeNames, TakeName
<1> HIDE DEF n
<1>4. \A i \in 1..n : nodes[i].name \in NamesOf(nodes)
  BY <1>2 DEF NamesOf
<1> HIDE DEF nodes
<1>5. \E g : TakeNames(n, nodes, g)
  BY <1>2, <1>4, TakeNamesRuns
<1>6. TakeNames(n, nodes, f)
  BY <1>5
<1> HIDE DEF f
<1>7. Taken(nodes, n, NodeNames)
  BY <1>2, <1>3, <1>6, TakenLoop
<1>8. NodeNames \in Seq(Range(NodeNames))
  <2>1. \A T, q : q \in Seq(T) => q \in Seq(Range(q))
    <3> SUFFICES ASSUME NEW T, NEW q \in Seq(T) PROVE q \in Seq(Range(q))
      OBVIOUS
    <3>1. q = [i \in 1..Len(q) |-> q[i]] /\ Len(q) \in Nat /\ DOMAIN q = 1..Len(q)
      OBVIOUS
    <3>2. \A i \in 1..Len(q) : q[i] \in Range(q)
      BY <3>1 DEF Range
    <3> QED
      BY <3>1, <3>2
  <2> QED
    BY <1>7, <2>1, Zenon DEF Taken
<1> QED
  BY <1>2, <1>7, <1>8, Zenon DEF Taken, nodes

-----------------------------------------------------------------------------
(* What a batch shows *)

TextBatch == IsBatchMode /\ Mode = "prepare" /\ opts.format = "text"

AllShown == \E order \in SetToSeqs(DOMAIN batch), ok \in [DOMAIN batch -> BOOLEAN] : shown = Reports(order, ok)

(* The only text batch that returns 0 is one that has written its results. *)
BatchInv ==
    /\ machine \in Machines
    /\ batch \in Seq(Range(batch))
    /\ code = 0 /\ TextBatch /\ ~ioFailed => AllShown

(* Two ways to leave what is shown as it was. *)
LEMMA BatchKept ==
    ASSUME BatchInv, UNCHANGED <<machine, batch>>,
           code' = 0 /\ TextBatch' => UNCHANGED <<opts, shown, code, ioFailed>>
    PROVE  BatchInv'
BY DEF BatchInv, TextBatch, IsBatchMode, Mode, AllShown, Reports

LEMMA DiscoveredIsAList == ASSUME machine \in Machines, WellFormed(opts) PROVE Discovered \in Seq(Range(Discovered))
<1>1. NodeNames \in Seq(Range(NodeNames))
  BY NodeNamesAreOfTheSelected
<1>2. machine.file \in Seq(Range(machine.file))
  BY MachinesAssumption
<1>3. opts.machines \in Seq(Range(opts.machines))
  BY DEF WellFormed
<1>4. Discovered = NodeNames \/ Discovered = machine.file \/ Discovered = opts.machines
  BY DEF Discovered
<1> QED
  BY <1>1, <1>2, <1>3, <1>4, Zenon

LEMMA BatchStep ==
    ASSUME ShapeInv, PlaceInv, BatchInv, [Next]_vars
    PROVE  BatchInv'
<1> USE DEF Stage, Goto, Exit, vars, mainVars, PlaceInv, ShapeInv, Mode, IsBatchMode, IsCheckMode
<1> DEFINE Kept == /\ UNCHANGED <<machine, batch>>
                   /\ code' = 0 /\ TextBatch' => UNCHANGED <<opts, shown, code, ioFailed>>
<1>1. CASE RejectOptions
  <2>1. Kept
    BY <1>1 DEF RejectOptions, TextBatch
  <2> QED
    BY <2>1, BatchKept
<1>2. CASE ProcessOptions
  <2>1. Kept
    BY <1>2 DEF ProcessOptions, TextBatch
  <2> QED
    BY <2>1, BatchKept
<1>3. CASE ListAllNames
  <2>1. Kept
    BY <1>3 DEF ListAllNames, Leave, TextBatch
  <2> QED
    BY <2>1, BatchKept
<1>4. CASE WriteHelp
  <2>1. Kept
    BY <1>4 DEF WriteHelp, Leave, TextBatch
  <2> QED
    BY <2>1, BatchKept
<1>5. CASE Interrupt
  <2>1. Kept
    BY <1>5 DEF Interrupt, Leave, TextBatch
  <2> QED
    BY <2>1, BatchKept
<1>6. CASE ParseToolArgs
  <2>1. Kept
    BY <1>6 DEF ParseToolArgs, TextBatch
  <2> QED
    BY <2>1, BatchKept
<1>7. CASE RunProgram
  <2>1. Kept
    BY <1>7 DEF RunProgram, ToolStage, StartProgram, TextBatch
  <2> QED
    BY <2>1, BatchKept
<1>8. CASE ToolPanics
  <2>1. Kept
    BY <1>8 DEF ToolPanics, ToolStage, TextBatch
  <2> QED
    BY <2>1, BatchKept
<1>9. CASE ToolReturns
  <2>1. Kept
    BY <1>9 DEF ToolReturns, ToolStage, TextBatch
  <2> QED
    BY <2>1, BatchKept
<1>10. CASE AadSshFails
  <2>1. Kept
    BY <1>10 DEF AadSshFails, ToolStage, TextBatch
  <2> QED
    BY <2>1, BatchKept
<1>11. CASE OpenOutput
  <2>1. Kept
    BY <1>11 DEF OpenOutput, TextBatch
  <2> QED
    BY <2>1, BatchKept
<1>12. CASE OpenFails
  <2>1. Kept
    BY <1>12 DEF OpenFails, TextBatch
  <2> QED
    BY <2>1, BatchKept
<1>13. CASE Discover
  <2>1. UNCHANGED machine /\ batch' = Discovered /\ code' # 0
    BY <1>13 DEF Discover
  <2>2. Discovered \in Seq(Range(Discovered))
    BY DiscoveredIsAList DEF BatchInv
  <2>3. batch' \in Seq(Range(batch'))
    BY <2>1, <2>2, Zenon
  <2> QED
    BY <2>1, <2>3 DEF BatchInv
<1>14. CASE DiscoverFails
  <2>1. Kept
    BY <1>14 DEF DiscoverFails, TextBatch
  <2> QED
    BY <2>1, BatchKept
<1>15. CASE ExecuteBatch
  <2>1. UNCHANGED <<opts, machine, batch>>
    BY <1>15 DEF ExecuteBatch
  <2>2. ~ioFailed' /\ TextBatch => AllShown'
    BY <1>15 DEF ExecuteBatch, WriteBatchResults, AllShown, TextBatch, Reports
  <2>3. TextBatch' = TextBatch
    BY <2>1 DEF TextBatch
  <2> QED
    BY <2>1, <2>2, <2>3 DEF BatchInv
<1>16. CASE BatchFails
  <2>1. Kept
    BY <1>16 DEF BatchFails, TextBatch
  <2> QED
    BY <2>1, BatchKept
<1>17. CASE Resolve
  <2>1. Kept
    BY <1>17 DEF Resolve, TextBatch
  <2> QED
    BY <2>1, BatchKept
<1>18. CASE RunChecker
  <2>1. Kept
    BY <1>18 DEF RunChecker, Returns, TextBatch
  <2> QED
    BY <2>1, BatchKept
<1>19. CASE StartPing
  <2>1. Kept
    BY <1>19 DEF StartPing, StartFanout, TextBatch
  <2> QED
    BY <2>1, BatchKept
<1>20. CASE PingReceives
  <2>1. Kept
    BY <1>20 DEF PingReceives, ReceiveAnswer, TextBatch
  <2> QED
    BY <2>1, BatchKept
<1>21. CASE PingReturns
  <2>1. Kept
    BY <1>21 DEF PingReturns, Returns, TextBatch
  <2> QED
    BY <2>1, BatchKept
<1>22. CASE WriteResults
  <2>1. Kept
    BY <1>22 DEF WriteResults, TextBatch
  <2> QED
    BY <2>1, BatchKept
<1>23. CASE WriteFails
  <2>1. Kept
    BY <1>23 DEF WriteFails, TextBatch
  <2> QED
    BY <2>1, BatchKept
<1>24. CASE SetExitCode
  <2>1. Kept
    BY <1>24 DEF SetExitCode, TextBatch
  <2> QED
    BY <2>1, BatchKept
<1>25. CASE PingAnswers
  <2>1. Kept
    BY <1>25 DEF PingAnswers, Answer, TextBatch
  <2> QED
    BY <2>1, BatchKept
<1>26. CASE Exited
  <2>1. Kept
    BY <1>26 DEF Exited, TextBatch
  <2> QED
    BY <2>1, BatchKept
<1>27. CASE UNCHANGED vars
  <2>1. Kept
    BY <1>27 DEF vars, TextBatch
  <2> QED
    BY <2>1, BatchKept
<1> QED
  BY <1>1, <1>2, <1>3, <1>4, <1>5, <1>6, <1>7, <1>8, <1>9, <1>10, <1>11, <1>12, <1>13, <1>14,
     <1>15, <1>16, <1>17, <1>18, <1>19, <1>20, <1>21, <1>22, <1>23, <1>24, <1>25, <1>26, <1>27 DEF Next, Main

Positions(n, f, m) == {i \in 1..n : f[i] = m}
PositionsInOrder(n, f, order, m) == {i \in 1..n : f[order[i]] = m}

LEMMA PermutationKeepsCount ==
    ASSUME NEW n \in Nat, NEW order \in SetToSeqs(1..n), NEW f, NEW m
    PROVE  /\ order \in [1..n -> 1..n]
           /\ Cardinality(PositionsInOrder(n, f, order, m)) = Cardinality(Positions(n, f, m))
<1> DEFINE S == {i \in 1..n : f[order[i]] = m}
           T == {i \in 1..n : f[i] = m}
           g == [i \in S |-> order[i]]
<1>1. IsFiniteSet(1..n) /\ Cardinality(1..n) = n
  BY FS_Interval
<1>2. order \in [1..n -> 1..n] /\ \A i, j \in 1..n : i # j => order[i] # order[j]
  BY <1>1 DEF SetToSeqs
<1>3. order \in Injection(1..n, 1..n)
  BY <1>2 DEF Injection, IsInjective
<1>4. order \in Surjection(1..n, 1..n)
  BY <1>1, <1>3, FS_Injection
<1>5. \A t \in 1..n : \E i \in 1..n : order[i] = t
  BY <1>4 DEF Surjection
<1>6. g \in [S -> T] /\ \A i \in S : g[i] = order[i]
  BY <1>2
<1>7. \A t \in T : \E i \in S : order[i] = t
  BY <1>5
<1>8. S \subseteq 1..n
  OBVIOUS
<1> HIDE DEF g, S, T
<1>9. g \in Bijection(S, T)
  BY <1>2, <1>6, <1>7, <1>8 DEF Bijection, Injection, Surjection, IsInjective
<1>10. IsFiniteSet(S)
  BY <1>1, <1>8, FS_Subset
<1>11. Cardinality(T) = Cardinality(S)
  BY <1>9, <1>10, FS_Bijection DEF ExistsBijection
<1> QED
  BY <1>2, <1>11 DEF S, T, Positions, PositionsInOrder

LEMMA EveryMachineIsShown ==
    ASSUME batch \in Seq(Range(batch)), AllShown
    PROVE  /\ Len(shown) = Len(batch)
           /\ \A m \in Range(batch) :
                  Cardinality({i \in DOMAIN shown : shown[i].machine = m})
                      = Cardinality({i \in DOMAIN batch : batch[i] = m})
<1> DEFINE n == Len(batch)
<1>1. n \in Nat /\ DOMAIN batch = 1..n
  BY SeqIsFunction
<1> HIDE DEF n
<1>2. PICK order \in SetToSeqs(1..n), ok \in [1..n -> BOOLEAN] : shown = Reports(order, ok)
  BY <1>1 DEF AllShown
<1>3. order \in [1..n -> 1..n]
  BY <1>1, PermutationKeepsCount
<1>4. DOMAIN shown = 1..n /\ \A i \in 1..n : shown[i].machine = batch[order[i]]
  BY <1>2, <1>3 DEF Reports
<1>5. shown = [i \in 1..n |-> shown[i]]
  BY <1>2, <1>3 DEF Reports
<1>6. Len(shown) = n
  BY <1>1, <1>5
<1>7. ASSUME NEW m
      PROVE  Cardinality({i \in DOMAIN shown : shown[i].machine = m}) = Cardinality({i \in DOMAIN batch : batch[i] = m})
  <2>1. {i \in DOMAIN shown : shown[i].machine = m} = PositionsInOrder(n, batch, order, m)
    BY <1>4 DEF PositionsInOrder
  <2>2. {i \in DOMAIN batch : batch[i] = m} = Positions(n, batch, m)
    BY <1>1 DEF Positions
  <2>3. Cardinality(PositionsInOrder(n, batch, order, m)) = Cardinality(Positions(n, batch, m))
    BY <1>1, PermutationKeepsCount
  <2> QED
    BY <2>1, <2>2, <2>3
<1> QED
  BY <1>6, <1>7 DEF n

LEMMA BatchInvariant == Spec => []BatchInv
<1>1. Init => BatchInv
  <2> SUFFICES ASSUME Init PROVE BatchInv
    OBVIOUS
  <2>1. <<>> \in Seq(Range(<<>>))
    OBVIOUS
  <2> QED
    BY <2>1 DEF Init, BatchInv
<1>2. IInv /\ BatchInv /\ [Next]_vars => BatchInv'
  BY BatchStep DEF IInv
<1> QED
  BY <1>1, <1>2, Invariant, PTL DEF Spec

(* batch.go:68, text.go:70: a text batch that succeeds has shown every machine as often as it
   was discovered, for any list of machines, any verdicts and any order of the results. *)
THEOREM BatchShowsEveryMachineHolds == Spec => []BatchShowsEveryMachine
<1>1. BatchInv => BatchShowsEveryMachine
  <2> SUFFICES ASSUME BatchInv, code = 0, IsBatchMode, Mode = "prepare", opts.format = "text", ~ioFailed
               PROVE  /\ Len(shown) = Len(batch)
                      /\ \A m \in Range(batch) :
                             Cardinality({i \in DOMAIN shown : shown[i].machine = m})
                                 = Cardinality({i \in DOMAIN batch : batch[i] = m})
    BY DEF BatchShowsEveryMachine
  <2>1. batch \in Seq(Range(batch)) /\ AllShown
    BY DEF BatchInv, TextBatch
  <2> QED
    BY <2>1, EveryMachineIsShown
<1> QED
  BY <1>1, BatchInvariant, PTL

-----------------------------------------------------------------------------
(* What a checker returns *)

Outcome == [passed : Nat, failed : Nat, err : BOOLEAN]

LEMMA ResultsType ==
    ASSUME NEW p \in Nat, NEW f \in Nat
    PROVE  Results(p, f) \in Outcome /\ Error(p, f) \in Outcome
BY DEF Results, Error, Outcome

LEMMA NothingType == Nothing \in Outcome
BY ResultsType DEF Nothing

LEMMA ProbesType == ASSUME NEW n \in Nat PROVE Probes(n) \subseteq Outcome
<1>1. \A f \in 0..n : n - f \in Nat /\ f \in Nat
  OBVIOUS
<1> QED
  BY <1>1, ResultsType DEF Probes

LEMMA OomType == ASSUME NEW e PROVE OomCheck(e) \subseteq Outcome
<1>1. \A lines : OomVerdict(lines) \in {Error(0, 0), Results(0, 1), Results(1, 0)}
  BY DEF OomVerdict
<1>2. Error(0, 0) \in Outcome /\ Results(0, 1) \in Outcome /\ Results(1, 0) \in Outcome
  BY ResultsType
<1> QED
  BY <1>1, <1>2 DEF OomCheck

LEMMA KmsType == ASSUME NEW e PROVE KmsCheck(e) \subseteq Outcome
<1>1. \A s, n : KmsVerdict(s, n) \in {Nothing, Results(0, 1), Results(1, 0)}
  BY DEF KmsVerdict
<1>2. Error(0, 0) \in Outcome /\ Results(0, 1) \in Outcome /\ Results(1, 0) \in Outcome
  BY ResultsType
<1> QED
  BY <1>1, <1>2, NothingType DEF KmsCheck

LEMMA ObjectSizeType == ASSUME NEW e PROVE ObjectSizeCheck(e) \subseteq Outcome
<1>1. \A n \in 0..(2 * MaxItems) : n \in Nat
  BY MaxItemsAssumption
<1> QED
  BY <1>1, ProbesType, NothingType DEF ObjectSizeCheck

LEMMA KubePodType == ASSUME NEW e PROVE KubePodCheck(e) \subseteq Outcome
<1>1. \A f \in 0..MaxItems : f \in Nat
  BY MaxItemsAssumption
<1> QED
  BY <1>1, ResultsType, NothingType DEF KubePodCheck

LEMMA PodScheduleType == ASSUME NEW e PROVE PodScheduleCheck(e) \subseteq Outcome
<1>1. ASSUME NEW replicaSets \in [1..MaxItems -> PodLists] PROVE ScheduleVerdicts(replicaSets) \in Outcome
  <2> DEFINE Checked == {r \in DOMAIN replicaSets : Len(replicaSets[r]) > 1}
             Bad == {r \in Checked : SameNode(replicaSets[r])}
  <2>1. IsFiniteSet(1..MaxItems)
    BY MaxItemsAssumption, FS_Interval
  <2>2. Checked \ Bad \subseteq 1..MaxItems /\ Bad \subseteq 1..MaxItems
    OBVIOUS
  <2>3. ScheduleVerdicts(replicaSets) = Results(Cardinality(Checked \ Bad), Cardinality(Bad))
    BY DEF ScheduleVerdicts
  <2> HIDE DEF Checked, Bad
  <2>4. Cardinality(Checked \ Bad) \in Nat /\ Cardinality(Bad) \in Nat
    BY <2>1, <2>2, FS_Subset, FS_CardinalityType
  <2> QED
    BY <2>3, <2>4, ResultsType
<1> QED
  BY <1>1, NothingType DEF PodScheduleCheck, ScheduleOutcomes

LEMMA SystemLoadType ==
    ASSUME NEW e, e.load.processes \in Seq(Range(e.load.processes))
    PROVE  SystemLoadCheck(e) \subseteq Outcome
<1> DEFINE Bad == {p \in DOMAIN e.load.processes : ProcessTooHigh(e.load, p)}
           n == Len(e.load.processes)
<1>1. \A condition : One(condition) \in Nat
  BY DEF One
<1>2. n \in Nat /\ DOMAIN e.load.processes = 1..n
  BY SeqIsFunction
<1> HIDE DEF n
<1>3. Bad \subseteq 1..n
  BY <1>2
<1>4. MemoryResults(e.load) \in Nat
  BY <1>1 DEF MemoryResults
<1>5. LoadResults(e.load) = MemoryResults(e.load) + One(CPUTooHigh(e.load)) + Cardinality(Bad)
  BY DEF LoadResults
<1> HIDE DEF Bad
<1>6. Cardinality(Bad) \in Nat
  <2>1. IsFiniteSet(1..n)
    BY <1>2, FS_Interval
  <2>2. IsFiniteSet(Bad)
    BY <1>3, <2>1, FS_Subset
  <2> QED
    BY <2>2, FS_CardinalityType
<1>7. LoadResults(e.load) \in Nat
  BY <1>1, <1>4, <1>5, <1>6
<1> QED
  BY <1>4, <1>7, ResultsType, NothingType DEF SystemLoadCheck

(* checker.go:11: whatever it finds, a checker of the registry returns a list of results
   and perhaps an error; that of tcp and ping is left to their fan-out. *)
LEMMA OutcomesType ==
    ASSUME NEW e, e.load.processes \in Seq(Range(e.load.processes)),
           NEW checker \in Registry \ PingCheckers
    PROVE  Outcomes(checker, e) \subseteq Outcome
<1>1. Probes(1) \subseteq Outcome /\ Probes(2) \subseteq Outcome
  BY ProbesType
<1>2. DnsCheck(e) \subseteq Outcome /\ HttpCheck(e) \subseteq Outcome
  <2>1. 2 + (IF "ubuntu" \in e.flags THEN 2 ELSE 0) + (IF "azure" \in e.flags THEN 5 ELSE 0) \in Nat
    OBVIOUS
  <2> QED
    BY <1>1, <2>1, ProbesType DEF DnsCheck, HttpCheck
<1>3. DiskReadOnlyCheck(e) \subseteq Outcome
  BY <1>1, NothingType, ResultsType DEF DiskReadOnlyCheck
<1>4. checker \in {"diskreadonly", "diskusage", "dns", "dummy", "http", "kmscachesize", "kubeobjectsize",
                   "kubepod", "liveness", "oom", "podschedule", "systemload"}
  BY DEF Registry, AllNames, Range, PingCheckers
<1>5. Outcomes(checker, e) \in {DiskReadOnlyCheck(e), Probes(1), DnsCheck(e), HttpCheck(e), KmsCheck(e),
          ObjectSizeCheck(e), KubePodCheck(e), OomCheck(e), PodScheduleCheck(e), SystemLoadCheck(e)}
  BY <1>4 DEF Outcomes, DiskUsageCheck, DummyCheck, LivenessCheck
<1> QED
  BY <1>1, <1>2, <1>3, <1>5, KmsType, ObjectSizeType, KubePodType, OomType, PodScheduleType, SystemLoadType

-----------------------------------------------------------------------------
(* The types of main *)

(* A list of checkers that is empty is replaced by the list of all of them. *)
TypeInv ==
    /\ pc \in Stages /\ ioFailed \in BOOLEAN
    /\ pc \notin {"options", "exited"} => opts.checkers # <<>>
    /\ ran \in [checkers : Nat, passed : Nat, failed : Nat]

LEMMA TypeKept ==
    ASSUME TypeInv, UNCHANGED <<opts, ran>>, pc' \in Stages, pc' # "options" \/ UNCHANGED pc,
           pc = "options" => pc' \in {"options", "exited"}, ioFailed' \in BOOLEAN,
           pc = "exited" => pc' = "exited"
    PROVE  TypeInv'
BY DEF TypeInv

LEMMA FanoutResultsType ==
    ASSUME FanInv
    PROVE  FanoutResults \in Outcome
<1> DEFINE S == {i \in DOMAIN answers : ~answers[i].ok}
           n == Len(answers)
<1>1. n \in Nat /\ DOMAIN answers = 1..n
  BY SeqIsFunction DEF FanInv, FanType
<1> HIDE DEF n
<1>2. IsFiniteSet(1..n) /\ Cardinality(1..n) = n
  BY <1>1, FS_Interval
<1>3. S \subseteq 1..n
  BY <1>1
<1>4. Failed = Cardinality(S)
  BY DEF Failed
<1> HIDE DEF S
<1>5. Failed \in Nat /\ Failed <= n
  <2>1. IsFiniteSet(S) /\ Cardinality(S) <= Cardinality(1..n)
    BY <1>2, <1>3, FS_Subset
  <2>2. Cardinality(S) \in Nat
    BY <2>1, FS_CardinalityType
  <2> QED
    BY <1>2, <1>4, <2>1, <2>2
<1>6. n - Failed \in Nat
  BY <1>1, <1>5
<1>7. FanoutResults = Results(n - Failed, Failed)
  BY DEF FanoutResults, Results, n
<1> QED
  BY <1>5, <1>6, <1>7, ResultsType

LEMMA TypeReturns ==
    ASSUME TypeInv, NEW r \in Outcome, Returns(r), pc \in {"check", "fan-out"}
    PROVE  TypeInv'
<1>1. ran' = [checkers |-> ran.checkers + 1, passed |-> ran.passed + r.passed, failed |-> ran.failed + r.failed]
  BY DEF Returns
<1>2. ran.checkers + 1 \in Nat /\ ran.passed + r.passed \in Nat /\ ran.failed + r.failed \in Nat
  BY DEF TypeInv, Outcome
<1>3. ran' \in [checkers : Nat, passed : Nat, failed : Nat]
  BY <1>1, <1>2
<1>4. UNCHANGED <<opts, ioFailed>> /\ pc' = "check"
  BY DEF Returns, Goto
<1> QED
  BY <1>3, <1>4 DEF TypeInv, Stages

LEMMA TypeStep ==
    ASSUME ShapeInv, BatchInv, FanoutInv, TypeInv, [Next]_vars
    PROVE  TypeInv'
<1> USE DEF Stage, Goto, Exit, vars, mainVars, Stages, Mode
<1>1. CASE RejectOptions
  BY <1>1, TypeKept DEF RejectOptions, TypeInv
<1>2. CASE ProcessOptions
  <2>1. opts' = [opts EXCEPT !.checkers = IF opts.checkers = <<>> THEN AllNames ELSE opts.checkers]
    BY <1>2 DEF ProcessOptions
  <2>2. AllNames # <<>>
    BY DEF AllNames
  <2>3. opts'.checkers = IF opts.checkers = <<>> THEN AllNames ELSE opts.checkers
    <3>1. DOMAIN opts = OptionNames /\ "checkers" \in OptionNames
      BY DEF ShapeInv, WellFormed, OptionNames
    <3> QED
      BY <2>1, <3>1
  <2>4. opts'.checkers # <<>>
    BY <2>2, <2>3
  <2>5. UNCHANGED <<ran, ioFailed>> /\ pc' \in Stages
    BY <1>2 DEF ProcessOptions
  <2> QED
    BY <2>4, <2>5 DEF TypeInv
<1>3. CASE ListAllNames
  BY <1>3, TypeKept DEF ListAllNames, Leave, TypeInv
<1>4. CASE WriteHelp
  BY <1>4, TypeKept DEF WriteHelp, Leave, TypeInv
<1>5. CASE Interrupt
  BY <1>5, TypeKept DEF Interrupt, Leave, TypeInv
<1>6. CASE ParseToolArgs
  BY <1>6, TypeKept DEF ParseToolArgs, TypeInv
<1>7. CASE RunProgram
  BY <1>7, TypeKept DEF RunProgram, ToolStage, StartProgram, TypeInv
<1>8. CASE ToolPanics
  BY <1>8, TypeKept DEF ToolPanics, ToolStage, TypeInv
<1>9. CASE ToolReturns
  BY <1>9, TypeKept DEF ToolReturns, ToolStage, TypeInv
<1>10. CASE AadSshFails
  BY <1>10, TypeKept DEF AadSshFails, ToolStage, TypeInv
<1>11. CASE OpenOutput
  BY <1>11, TypeKept DEF OpenOutput, TypeInv
<1>12. CASE OpenFails
  BY <1>12, TypeKept DEF OpenFails, TypeInv
<1>13. CASE Discover
  BY <1>13, TypeKept DEF Discover, TypeInv
<1>14. CASE DiscoverFails
  BY <1>14, TypeKept DEF DiscoverFails, TypeInv
<1>15. CASE ExecuteBatch
  BY <1>15, TypeKept DEF ExecuteBatch, TypeInv
<1>16. CASE BatchFails
  BY <1>16, TypeKept DEF BatchFails, TypeInv
<1>17. CASE Resolve
  BY <1>17, TypeKept DEF Resolve, TypeInv
<1>18. CASE RunChecker
  <2>1. pc = "check" /\ todo # <<>> /\ ~FansOut(Head(todo))
    BY <1>18 DEF RunChecker
  <2>2. Head(todo) \in Registry
    BY <2>1 DEF ShapeInv
  <2>3. CASE Head(todo) = "ping"
    BY <1>18, <2>1, <2>3, NothingType, TypeReturns DEF RunChecker
  <2>4. CASE Head(todo) # "ping"
    <3>1. Head(todo) \in Registry \ PingCheckers
      BY <2>1, <2>2, <2>4 DEF FansOut, PingCheckers
    <3>2. Context.load.processes \in Seq(Range(Context.load.processes))
      BY MachinesAssumption DEF Context, BatchInv
    <3>3. Outcomes(Head(todo), Context) \subseteq Outcome
      BY <3>1, <3>2, OutcomesType
    <3>4. PICK r \in Outcomes(Head(todo), Context) : Returns(r)
      BY <1>18, <2>4 DEF RunChecker
    <3> QED
      BY <2>1, <3>3, <3>4, TypeReturns
  <2> QED
    BY <2>3, <2>4
<1>19. CASE StartPing
  BY <1>19, TypeKept DEF StartPing, StartFanout, TypeInv
<1>20. CASE PingReceives
  BY <1>20, TypeKept DEF PingReceives, ReceiveAnswer, TypeInv
<1>21. CASE PingReturns
  <2>1. pc = "fan-out" /\ Returns(FanoutResults)
    BY <1>21 DEF PingReturns
  <2>2. FanoutResults \in Outcome
    BY FanoutResultsType DEF FanoutInv
  <2> QED
    BY <2>1, <2>2, TypeReturns
<1>22. CASE WriteResults
  BY <1>22, TypeKept DEF WriteResults, TypeInv
<1>23. CASE WriteFails
  BY <1>23, TypeKept DEF WriteFails, TypeInv
<1>24. CASE SetExitCode
  BY <1>24, TypeKept DEF SetExitCode, TypeInv
<1>25. CASE PingAnswers
  BY <1>25, TypeKept DEF PingAnswers, Answer, TypeInv
<1>26. CASE Exited
  BY <1>26, TypeKept DEF Exited, TypeInv
<1>27. CASE UNCHANGED vars
  BY <1>27, TypeKept DEF vars, TypeInv
<1> QED
  BY <1>1, <1>2, <1>3, <1>4, <1>5, <1>6, <1>7, <1>8, <1>9, <1>10, <1>11, <1>12, <1>13, <1>14,
     <1>15, <1>16, <1>17, <1>18, <1>19, <1>20, <1>21, <1>22, <1>23, <1>24, <1>25, <1>26, <1>27 DEF Next, Main

LEMMA TypeInvariant == Spec => []TypeInv
<1>1. Init => TypeInv
  <2> SUFFICES ASSUME Init PROVE TypeInv
    OBVIOUS
  <2>1. ran \in [checkers : Nat, passed : Nat, failed : Nat]
    BY DEF Init
  <2>2. pc \in Stages /\ pc = "options" /\ ioFailed \in BOOLEAN
    BY DEF Init, Stages
  <2> QED
    BY <2>1, <2>2 DEF TypeInv
<1>2. IInv /\ BatchInv /\ TypeInv /\ [Next]_vars => TypeInv'
  BY TypeStep DEF IInv
<1> QED
  BY <1>1, <1>2, Invariant, BatchInvariant, PTL DEF Spec

(* The variables of main and of the fan-out have their types, for all command lines, machines
   and outcomes; in particular the channel of a fan-out never holds more than it has room
   for (tcpping.go:56). *)
THEOREM TypeOKHolds == Spec => []TypeOK
<1>1. IInv /\ BatchInv /\ TypeInv => TypeOK
  <2> SUFFICES ASSUME IInv, BatchInv, TypeInv PROVE TypeOK
    OBVIOUS
  <2>1. opts.checkers \in Seq(Range(opts.checkers)) /\ todo \in Seq(Registry)
    BY DEF IInv, ShapeInv, WellFormed
  <2>2. pc \in {"resolve", "check"} => opts.checkers # <<>>
    BY DEF TypeInv
  <2>3. machine \in Machines /\ pc \in Stages /\ ioFailed \in BOOLEAN
    BY DEF BatchInv, TypeInv
  <2>4. ran \in [checkers : Nat, passed : Nat, failed : Nat] /\ results \in Totals
    BY DEF TypeInv, IInv, ReportInv, Totals
  <2>5. documents \in Seq(Totals)
    <3>1. documents = <<>> \/ documents = <<results>>
      BY DEF IInv, ReportInv
    <3>2. results \in Totals
      BY <2>4
    <3>3. \A t \in Totals : <<t>> \in Seq(Totals) /\ <<>> \in Seq(Totals)
      OBVIOUS
    <3> QED
      BY <3>1, <3>2, <3>3, Zenon
  <2>6. code \in {-1, 0, 1, 2}
    BY DEF IInv, ShapeInv
  <2>7. FanoutTypeOK
    BY FanTypeOK DEF IInv, FanoutInv
  <2> QED
    BY <2>1, <2>2, <2>3, <2>4, <2>5, <2>6, <2>7 DEF TypeOK
<1> QED
  BY <1>1, Invariant, BatchInvariant, TypeInvariant, PTL

=============================================================================
