------------------------------- MODULE Kdebug --------------------------------
(***************************************************************************)
(* One kdebug process, from its command line to its exit code: main        *)
(* (cmd/main.go) with the order of its modes, runBatch (cmd/batch.go), and *)
(* the dispatch of the checkers (pkg/checkers/checker.go). What a checker  *)
(* returns is in module Checkers, the goroutines of tcp and ping in        *)
(* PingFanout, what a tool does in Tools, the environment flags in         *)
(* Environment, and the pool behind a batch in BatchExecutor, of which     *)
(* this module uses what BatchSpec says.                                   *)
(***************************************************************************)
EXTENDS Integers, Checkers, PingFanout, Environment, Tools

CONSTANTS CommandLines,   \* the parsed options
          Packets,        \* what tcpdump could see
          Machines        \* what the process finds: a host, kube, nodes, file, load, log

Flag == {"valid", "list", "pause", "help", "output", "kubeMachines", "unready", "label",
         "machinesFile", "sshUser", "noSetExitCode"}
OptionNames == Flag \cup {"tool", "args", "format", "machines", "checkers"}

(* A command line gives every option a value; the arguments depend on the tool. *)
ASSUME CommandLinesAssumption == \A o \in CommandLines :
    /\ o = [name \in OptionNames |-> o[name]]
    /\ \A flag \in Flag : o[flag] \in BOOLEAN
    /\ o.checkers \in Seq(Range(o.checkers)) /\ o.machines \in Seq(Range(o.machines))

(* What is listed on a machine is a list. *)
ASSUME MachinesAssumption == \A m \in Machines :
    /\ m.nodes \in Seq(Range(m.nodes)) /\ m.file \in Seq(Range(m.file))
    /\ m.load.processes \in Seq(Range(m.load.processes))

VARIABLES
    opts, machine,
    pc,            \* the next stage of main
    todo,          \* checkers resolved and not yet run
    results,       \* how many of the collected results passed and failed
    batch,         \* the machines discovered
    documents,     \* what WriteResults wrote
    shown,         \* what WriteBatchResults wrote, one entry for each machine
    code,          \* the exit code, -1 while the process runs
    ran,           \* history: how many checkers ran and what they returned
    ioFailed       \* history: the output could not be opened or written

mainVars == <<opts, machine, pc, todo, results, batch, documents, shown, code, ran, ioFailed>>
vars == <<mainVars, pingVars, toolVars>>

Init ==
    /\ opts \in CommandLines /\ machine \in Machines
    /\ pc = "options"
    /\ todo = <<>> /\ results = [passed |-> 0, failed |-> 0]
    /\ batch = <<>> /\ documents = <<>> /\ shown = <<>>
    /\ code = -1
    /\ ran = [checkers |-> 0, passed |-> 0, failed |-> 0] /\ ioFailed = FALSE
    /\ FanoutInit /\ ToolsInit

-----------------------------------------------------------------------------
Goto(stage) == pc' = stage /\ UNCHANGED code
Exit(status) == pc' = "exited" /\ code' = status

(* Every action of main but those of the fan-out and of a tool leaves both alone. *)
Stage(stage) == pc = stage /\ UNCHANGED <<machine, pingVars, toolVars>>

(* GetEnvironment, which buildCheckContext and buildToolContext call. *)
Flags == GetFlags(machine.host)

IsBatchMode == opts.kubeMachines \/ opts.unready \/ opts.machines # <<>> \/ opts.machinesFile

Mode ==
    IF opts.list THEN "list"
    ELSE IF opts.pause THEN "pause"
    ELSE IF opts.tool # "none" THEN "tool"
    ELSE IF opts.help THEN "help"
    ELSE "prepare"

(* The parser's errors and an unknown log level. *)
RejectOptions ==
    /\ Stage("options") /\ ~opts.valid
    /\ Exit(1)
    /\ UNCHANGED <<opts, todo, results, batch, documents, shown, ran, ioFailed>>

ProcessOptions ==
    /\ Stage("options") /\ opts.valid
    /\ opts' = [opts EXCEPT !.checkers = IF @ = <<>> THEN AllNames ELSE @]
    /\ Goto(Mode)
    /\ UNCHANGED <<todo, results, batch, documents, shown, ran, ioFailed>>

(* List and help print and return; pause returns on a signal. *)
Leave(stage) ==
    /\ Stage(stage)
    /\ Exit(0)
    /\ UNCHANGED <<opts, todo, results, batch, documents, shown, ran, ioFailed>>

ListAllNames == Leave("list")
WriteHelp == Leave("help")
Interrupt == Leave("pause")

-----------------------------------------------------------------------------
(* Tool mode *)

(* tools.ParseArgs. The -h of kdebug is its last argument: what comes before it
   is refused first, and the help that it asks for is no error. *)
ParseToolArgs ==
    /\ Stage("tool")
    /\ IF Refused(opts.tool, opts.args, opts.help, machine.kube) THEN Exit(1)
       ELSE IF opts.help THEN Exit(0)
       ELSE Goto("run tool")
    /\ UNCHANGED <<opts, todo, results, batch, documents, shown, ran, ioFailed>>

ToolStage ==
    /\ pc = "run tool"
    /\ UNCHANGED <<opts, machine, todo, results, batch, documents, shown, ran, ioFailed, pingVars>>

ToolPrograms == Programs(opts.tool, opts.args, Flags)
AllStarted == Len(started) = Len(ToolPrograms)
Program == ToolPrograms[Len(started) + 1]

(* strings.Fields of a command of blanks is empty. *)
NoCommand == Program = "command" /\ opts.args.command = "blank"

RunProgram ==
    /\ ToolStage /\ ~AllStarted /\ ~NoCommand
    /\ \E ok \in Ends(Program, machine.log) :
           /\ StartProgram(Program, ok)
           /\ IF ok \/ ~Fatal(Program) THEN Goto("run tool") ELSE Exit(1)

(* Indexing args[0] of that command, or a line that was broken off. *)
ToolPanics ==
    /\ ToolStage /\ UNCHANGED toolVars
    /\ IF AllStarted
         THEN "grep" \in Range(ToolPrograms) /\ IndexOutOfRange(machine.log, opts.args.recordLimit)
         ELSE NoCommand
    /\ Exit(2)

ToolReturns ==
    /\ ToolStage /\ AllStarted
    /\ IF "grep" \in Range(ToolPrograms)
         THEN /\ ~IndexOutOfRange(machine.log, opts.args.recordLimit)
              /\ report' = Append(report, ParseResult(machine.log, opts.args.recordLimit))
         ELSE UNCHANGED report
    /\ UNCHANGED started
    /\ Exit(0)

(* What module AadSsh says of a run that fails, or ssh that cannot be started. *)
AadSshFails ==
    /\ ToolStage /\ opts.tool = "aadssh" /\ started = <<>>
    /\ Exit(1) /\ UNCHANGED toolVars

-----------------------------------------------------------------------------
(* Dependencies *)

(* The client that cannot be built is only a warning; the output file that
   cannot be opened ends the process. *)
OpenOutput ==
    /\ Stage("prepare")
    /\ Goto(IF IsBatchMode THEN "discover" ELSE "resolve")
    /\ UNCHANGED <<opts, todo, results, batch, documents, shown, ran, ioFailed>>

OpenFails ==
    /\ Stage("prepare") /\ opts.output
    /\ Exit(1) /\ ioFailed' = TRUE
    /\ UNCHANGED <<opts, todo, results, batch, documents, shown, ran>>

-----------------------------------------------------------------------------
(* runBatch *)

(* A node without a Ready condition counts as unready. *)
MatchNode(node) == opts.unready => node.ready # "True"

(* Which of the options wins: the API server, then the file, then the list. *)
Discoverer ==
    IF opts.kubeMachines \/ opts.unready \/ opts.label THEN "kube"
    ELSE IF opts.machinesFile THEN "file"
    ELSE "static"

Selected(node) == MatchNode(node) /\ (opts.label => node.labelled)

(* The names of the nodes that the API server lists, taken up one by one. *)
NodeNames ==
    LET names[i \in 0..Len(machine.nodes)] ==
            IF i = 0 THEN <<>>
            ELSE IF Selected(machine.nodes[i]) THEN Append(names[i - 1], machine.nodes[i].name)
            ELSE names[i - 1]
    IN names[Len(machine.nodes)]

(* Blank lines and repeated ones become machines like any other. *)
Discovered ==
    IF Discoverer = "kube" THEN NodeNames
    ELSE IF Discoverer = "file" THEN machine.file
    ELSE opts.machines

(* Then getBatchExecutor: SSH with a user, pods with a client, nothing else. *)
Discover ==
    /\ Stage("discover")
    /\ Discoverer = "kube" => machine.kube
    /\ batch' = Discovered
    /\ IF opts.sshUser \/ machine.kube THEN Goto("execute") ELSE Exit(1)
    /\ UNCHANGED <<opts, todo, results, documents, shown, ran, ioFailed>>

(* No client, a list call or a file that fails. *)
DiscoverFails ==
    /\ Stage("discover") /\ Discoverer # "static"
    /\ Exit(1)
    /\ UNCHANGED <<opts, todo, results, batch, documents, shown, ran, ioFailed>>

Reports(order, ok) == [i \in DOMAIN order |-> [machine |-> batch[order[i]], ok |-> ok[order[i]]]]

(* Mutant: the text formatter forgets the machines with an error. *)
WriteBatchResults_OkOnly(reports) == SelectSeq(reports, LAMBDA r : r.ok)

(* Text shows every machine; JSON shows none (a TODO), oneline refuses. *)
WriteBatchResults(reports) == IF opts.format = "text" THEN reports ELSE <<>>

(* Execute returns one result for every machine (BatchSpec!Return), in any order.
   What cannot be written is lost without an error. *)
ExecuteBatch ==
    /\ Stage("execute")
    /\ \/ /\ \E order \in SetToSeqs(DOMAIN batch), ok \in [DOMAIN batch -> BOOLEAN] :
                 shown' = WriteBatchResults(Reports(order, ok))
          /\ UNCHANGED ioFailed
       \/ ioFailed' = TRUE /\ UNCHANGED shown
    /\ Exit(IF opts.format = "oneline" THEN 1 ELSE 0)
    /\ UNCHANGED <<opts, todo, results, batch, documents, ran>>

(* BatchSpec!Fail and BatchSpec!Crash, which the pod executor has. *)
BatchFails ==
    /\ Stage("execute") /\ ~opts.sshUser
    /\ \E status \in {1, 2} : Exit(status)
    /\ UNCHANGED <<opts, todo, results, batch, documents, shown, ran, ioFailed>>

-----------------------------------------------------------------------------
(* Check *)

(* Mutant: the first unknown name does not end the lookup. *)
AllKnown_Some == \E name \in Range(opts.checkers) : name \in Registry

AllKnown == \A name \in Range(opts.checkers) : name \in Registry

(* All names are looked up before the first checker runs. *)
Resolve ==
    /\ Stage("resolve")
    /\ IF AllKnown
         THEN todo' = opts.checkers /\ Goto("check")
         ELSE UNCHANGED todo /\ Exit(1)
    /\ UNCHANGED <<opts, results, batch, documents, shown, ran, ioFailed>>

(* Mutant: the results that come with an error are dropped. *)
Collect_NoError(r) ==
    [passed |-> results.passed + (IF r.err THEN 0 ELSE r.passed),
     failed |-> results.failed + (IF r.err THEN 0 ELSE r.failed)]

(* An error is logged, the results that come with it are appended all the same. *)
Collect(r) == [passed |-> results.passed + r.passed, failed |-> results.failed + r.failed]

(* The environment, the client, and what systemload reads. *)
Context == [flags |-> Flags, kube |-> machine.kube, load |-> machine.load]

(* The checker at the head of todo returns r. *)
Returns(r) ==
    /\ results' = Collect(r)
    /\ todo' = Tail(todo)
    /\ ran' = [checkers |-> ran.checkers + 1, passed |-> ran.passed + r.passed, failed |-> ran.failed + r.failed]
    /\ Goto("check")
    /\ UNCHANGED <<opts, machine, batch, documents, shown, ioFailed>>

(* ping does nothing unless it is root. *)
FansOut(checker) == checker = "tcp" \/ (checker = "ping" /\ "root" \in Flags)

RunChecker ==
    /\ Stage("check") /\ todo # <<>> /\ ~FansOut(Head(todo))
    /\ \E r \in IF Head(todo) = "ping" THEN {Nothing} ELSE Outcomes(Head(todo), Context) : Returns(r)

StartPing ==
    /\ pc = "check" /\ todo # <<>> /\ FansOut(Head(todo))
    /\ StartFanout(Head(todo), Flags)
    /\ Goto("fan-out")
    /\ UNCHANGED <<opts, machine, todo, results, batch, documents, shown, ran, ioFailed, toolVars>>

PingAnswers == (\E i \in flight : Answer(i)) /\ UNCHANGED <<mainVars, toolVars>>
PingReceives == pc = "fan-out" /\ ReceiveAnswer /\ UNCHANGED <<mainVars, toolVars>>

PingReturns ==
    /\ Stage("fan-out") /\ Collected
    /\ Returns(FanoutResults)

(* Text and oneline print how many passed and describe what failed, JSON both. *)
WriteResults ==
    /\ Stage("check") /\ todo = <<>>
    /\ documents' = Append(documents, results)
    /\ Goto("exit")
    /\ UNCHANGED <<opts, todo, results, batch, shown, ran, ioFailed>>

(* Only the JSON encoder's error is looked at, Fprintf's is not. *)
WriteFails ==
    /\ Stage("check") /\ todo = <<>>
    /\ ioFailed' = TRUE
    /\ IF opts.format = "json" THEN Exit(1) ELSE Goto("exit")
    /\ UNCHANGED <<opts, todo, results, batch, documents, shown, ran>>

(* Mutant: the number of failures as exit code. *)
ExitCode_Count == IF opts.noSetExitCode THEN 0 ELSE results.failed

(* Mutant: the option is not looked at. *)
ExitCode_Always == IF results.failed > 0 THEN 1 ELSE 0

ExitCode == IF ~opts.noSetExitCode /\ results.failed > 0 THEN 1 ELSE 0

SetExitCode ==
    /\ Stage("exit")
    /\ Exit(ExitCode)
    /\ UNCHANGED <<opts, todo, results, batch, documents, shown, ran, ioFailed>>

-----------------------------------------------------------------------------
Exited == pc = "exited" /\ UNCHANGED vars

Main ==
    \/ RejectOptions \/ ProcessOptions \/ ListAllNames \/ WriteHelp
    \/ ParseToolArgs \/ RunProgram \/ ToolPanics \/ ToolReturns \/ AadSshFails
    \/ OpenOutput \/ OpenFails
    \/ Discover \/ DiscoverFails \/ ExecuteBatch \/ BatchFails
    \/ Resolve \/ RunChecker \/ StartPing \/ PingReceives \/ PingReturns
    \/ WriteResults \/ WriteFails \/ SetExitCode

Next == Main \/ PingAnswers \/ Interrupt \/ Exited

(* What main may wait for as long as it likes: the signal that ends a pause, the
   program of a tool (tcpdump runs until it is interrupted), and a batch over SSH,
   whose ssh.Dial and sess.Output have no timeout (ssh_executor.go:87, 123). *)
MayWait ==
    \/ pc = "pause"
    \/ pc = "run tool" /\ ~AllStarted
    \/ pc = "execute" /\ opts.sshUser

(* Elsewhere the process runs, and every ping has an answer or a timeout. What a
   checker asks of the network and the pod executor of the API server is assumed
   to be answered or refused: the tasks of the latter end (PodTask!TaskEnds), and
   with them its Execute (BatchExecutor!Terminates). *)
Fairness == WF_vars(~MayWait /\ Main) /\ WF_vars(PingAnswers)

Spec == Init /\ [][Next]_vars
FairSpec == Spec /\ Fairness

-----------------------------------------------------------------------------
Stages == {"options", "list", "pause", "tool", "run tool", "help", "prepare", "discover", "execute",
           "resolve", "check", "fan-out", "exit", "exited"}
Totals == [passed : Nat, failed : Nat]

(* Every variable has its type; an exit code is one of the three that main can
   end with: success, failure, panic. *)
TypeOK ==
    /\ opts.checkers \in Seq(Range(opts.checkers)) /\ (pc \in {"resolve", "check"} => opts.checkers # <<>>)
    /\ todo \in Seq(Registry)
    /\ machine \in Machines /\ pc \in Stages
    /\ results \in Totals /\ ran \in [checkers : Nat, passed : Nat, failed : Nat] /\ documents \in Seq(Totals)
    /\ code \in {-1, 0, 1, 2} /\ ioFailed \in BOOLEAN
    /\ FanoutTypeOK

(* When tcp or ping returns, every target has been answered for exactly as often
   as it was asked, in whatever order the answers came, and neither a goroutine
   nor an answer is left: the targets that ping keeps from an earlier Check of
   the same process (icmp.go:53) are waited for like the others. *)
AnsweredInFull ==
    pc # "fan-out" \/ Collected =>
        /\ flight = {} /\ resultChan = <<>>
        /\ \A t \in Range(targets) : Answered(t) = Asked(t)

IsCheckMode == opts.valid /\ Mode = "prepare" /\ ~IsBatchMode

(* One unknown name among many, wherever it stands: no checker runs, nothing is
   written, and the exit code is 1 (checker.go:19 resolves all names first). *)
UnknownRunsNothing ==
    IsCheckMode /\ ~(Range(opts.checkers) \subseteq Registry) =>
        ran.checkers = 0 /\ documents = <<>> /\ code \in {-1, 1}

(* What is written counts every result that any checker returned, those of a
   checker that failed half way included, and every checker asked for has run
   (checker.go:27-36). Exit code 0 means that none of them was a failed one, unless
   the exit code was not to be set: no failure is hidden by an error or by other
   results that passed (main.go:267). *)
ReportIsComplete ==
    /\ \A i \in DOMAIN documents :
           /\ ran.checkers = Len(opts.checkers)
           /\ documents[i] = [passed |-> ran.passed, failed |-> ran.failed]
    /\ code = 0 /\ ~opts.noSetExitCode => ~(ran.failed > 0)

(* What both executors start on the other machine (ssh_executor.go:118 and the
   pod template): JSON, no exit code, checkers that are known. As long as the
   output can be opened and written the command succeeds with exactly one
   document, whatever the checks find: Unmarshal and Decode depend on it. *)
Remote ==
    /\ IsCheckMode
    /\ opts.format = "json" /\ opts.noSetExitCode /\ Range(opts.checkers) \subseteq Registry

RemoteContract ==
    /\ Remote /\ code # -1 /\ ~ioFailed => code = 0 /\ Len(documents) = 1
    /\ Remote /\ code = 0 => Len(documents) = 1

(* A text batch that ends with exit code 0 and could be written has shown every machine that was
   discovered exactly as often as it was discovered, errors and duplicates
   included, in whatever order the results came (text.go:70). *)
BatchShowsEveryMachine ==
    code = 0 /\ IsBatchMode /\ Mode = "prepare" /\ opts.format = "text" /\ ~ioFailed =>
        /\ Len(shown) = Len(batch)
        /\ \A m \in Range(batch) :
               Cardinality({i \in DOMAIN shown : shown[i].machine = m})
                   = Cardinality({i \in DOMAIN batch : batch[i] = m})

(* The process ends, however often the same checker is named and in whatever order
   the probes are answered, unless it waits for ever for what has no timeout: a
   signal, the program of a tool, or a batch over SSH. *)
MainEnds == <>(pc = "exited") \/ <>[]MayWait

(* A tool that refuses its arguments starts nothing and says so with exit code 1.
   Of the programs that a tool starts one after the other, the first that fails
   is the last: tcpdump or a command never runs when the namespace could not be
   entered; only the end of ssh is not looked at. *)
ToolStopsAtFailure ==
    opts.valid /\ Mode = "tool" =>
        /\ Refused(opts.tool, opts.args, opts.help, machine.kube) => started = <<>> /\ code \in {-1, 1}
        /\ \A i \in DOMAIN started : ~started[i].ok /\ started[i].program # "ssh" => i = Len(started) /\ code = 1

Endpoint(e, end) == e.ip \in {"", end.ip} /\ e.port \in {"", end.port}

(* A packet between the source and the destination that has the host at one end. *)
Matches(args, host, packet) ==
    /\ Endpoint(args.source, packet.src) /\ Endpoint(args.destination, packet.dst)
    /\ Endpoint(host, packet.src) \/ Endpoint(host, packet.dst)
    /\ args.tcpOnly => packet.tcp

(* The packets that the options of tcpdump describe; "--host matches either source
   or destination" (README.md:162). *)
AskedFor(args, packet) == Matches(args, args.host, packet)

(* No packet that was asked for is hidden by the filter, and those it shows match
   --source, --destination and --tcponly, the address of --host and its port. That
   the latter two are those of one end is not said here: see HostMeansOneEnd. *)
FilterMatchesEachOption ==
    opts.tool = "tcpdump" /\ started # <<>> => \A packet \in Packets :
        /\ AskedFor(opts.args, packet) => Shows(opts.args, packet)
        /\ Shows(opts.args, packet) =>
               /\ Matches(opts.args, [ip |-> opts.args.host.ip, port |-> ""], packet)
               /\ Matches(opts.args, [ip |-> "", port |-> opts.args.host.port], packet)

(* Expected by README.md:162, "--host matches either source or destination", with
   --host=10.0.0.1:1000 as the example, and by tcpdump.go:33, "The host(either src
   or dst) of the connection. Format: <ip>:<port>": what is shown has that address
   and that port at one and the same end. *)
HostMeansOneEnd ==
    opts.tool = "tcpdump" /\ started # <<>> => \A packet \in Packets :
        Shows(opts.args, packet) => AskedFor(opts.args, packet)

(* Expected by the description of --pid, "Attach into a specific pid's network
   namespace" (netexec.go:17, tcpdump.go:34): what the tool is for runs there. *)
PidMeansNamespace ==
    opts.tool \in {"netexec", "tcpdump"} =>
        \A i \in DOMAIN started : opts.args.pid => started[i].namespace = "target"

(* The order in which the API server lists the pods of a replica set makes no
   difference as long as all of them have a node, and two pods on different nodes
   are never said to be on the same one (podschedule.go:87). *)
ScheduleIsOfNodes ==
    pc = "check" /\ todo # <<>> /\ Head(todo) = "podschedule" => \A pods \in PodLists :
        LET nodes == Range(pods)
        IN /\ SameNode(pods) => Cardinality(nodes \ {""}) <= 1
           /\ "" \notin nodes => (SameNode(pods) <=> Cardinality(nodes) <= 1)

(* systemload on this machine: see LoadIsJudged. *)
LoadIsReported == LoadIsJudged(machine.load)
=============================================================================
