-------------------------------- MODULE Tools --------------------------------
(***************************************************************************)
(* The tools (pkg/tools): which arguments each of them refuses, which      *)
(* programs it starts and in which order, what tcpdump is asked to show    *)
(* and what upgradesinspect makes of the package log. The steps are those  *)
(* of module Kdebug; the inside of aadssh is in module AadSsh.             *)
(*                                                                         *)
(* The arguments of a tool are a record: valid (its parser takes them),    *)
(* and for netexec pid, pod and command; for tcpdump pid, source,          *)
(* destination, host and tcpOnly; for upgradesinspect recordLimit; for     *)
(* aadssh ssh (there are arguments left for ssh).                          *)
(***************************************************************************)
EXTENDS Integers, FiniteSets, Sequences, SequencesExt

VARIABLES
    started,    \* the programs that the tool has started, in order
    report      \* what upgradesinspect has printed

toolVars == <<started, report>>

ToolsInit == started = <<>> /\ report = <<>>

(* allTools *)
AllTools == {"aadssh", "netexec", "tcpdump", "upgradesinspect", "vmrebootinspect"}

(* parseAndCheckParameters: neither or both of pid and pod, a pod without a
   client. *)
RefusedByNetexec(args, kube) == (args.pid = args.pod) \/ (args.pod /\ ~kube)

(* The help that -h asks for is found by the parser, before that check. *)
Refused(tool, args, help, kube) ==
    \/ tool \notin AllTools
    \/ ~args.valid
    \/ tool = "netexec" /\ ~help /\ RefusedByNetexec(args, kube)

-----------------------------------------------------------------------------
(* What Run starts, one after the other. *)
Programs(tool, args, flags) ==
    CASE tool = "netexec" -> IF args.pid THEN <<"nsenter", "command">> ELSE <<"kubectl debug">>
      [] tool = "tcpdump" -> IF args.pid THEN <<"nsenter", "tcpdump">> ELSE <<"tcpdump">>
      [] tool = "upgradesinspect" -> IF flags \cap {"ubuntu", "debian"} # {} THEN <<"grep">> ELSE <<>>
      [] tool = "vmrebootinspect" -> <<"last">>
      [] tool = "aadssh" -> IF args.ssh THEN <<"ssh">> ELSE <<>>

(* The network namespace that a program runs in. A child is in that of its
   parent, kdebug; nsenter moves itself, runs a shell that has no input and
   ends, and moves nobody else. The container that kubectl attaches is in the
   namespace of its pod. *)
Namespace(program) == IF program \in {"nsenter", "kubectl debug"} THEN "target" ELSE "own"

StartProgram(program, ok) ==
    /\ started' = Append(started, [program |-> program, namespace |-> Namespace(program), ok |-> ok])
    /\ UNCHANGED report

(* Without a matching line, or a log, grep ends with an error. The other
   programs end as they like. *)
Ends(program, log) == IF program = "grep" THEN {log # <<>>} ELSE BOOLEAN

(* Mutant: the error of nsenter is dropped, as that of ssh is. *)
Fatal_NotNsenter(program) == program \notin {"ssh", "nsenter"}

(* The programs whose failure Run returns: cmd.Wait of ssh is not looked at. *)
Fatal(program) == program # "ssh"

-----------------------------------------------------------------------------
(* tcpdump *)

Given(kind, value) == IF value = "" THEN {} ELSE {[kind |-> kind, value |-> value]}

(* Mutant: the port of the destination is one of the source. *)
GenerateTcpdumpParameters_SrcPort(args) ==
    UNION {Given("src", args.source.ip), Given("src port", args.source.port),
           Given("dst", args.destination.ip), Given("src port", args.destination.port)}

(* The primitives that are joined with "and"; what is empty is left out. *)
GenerateTcpdumpParameters(args) ==
    UNION {Given("src", args.source.ip), Given("src port", args.source.port),
           Given("dst", args.destination.ip), Given("dst port", args.destination.port),
           Given("host", args.host.ip), Given("port", args.host.port),
           IF args.tcpOnly THEN {[kind |-> "tcp", value |-> ""]} ELSE {}}

(* pcap-filter: host and port look at either end. *)
Holds(primitive, packet) ==
    LET Is(kind, values) == primitive.kind = kind /\ primitive.value \in values
    IN \/ Is("src", {packet.src.ip}) \/ Is("src port", {packet.src.port})
       \/ Is("dst", {packet.dst.ip}) \/ Is("dst port", {packet.dst.port})
       \/ Is("host", {packet.src.ip, packet.dst.ip})
       \/ Is("port", {packet.src.port, packet.dst.port})
       \/ primitive.kind = "tcp" /\ packet.tcp

Shows(args, packet) == \A p \in GenerateTcpdumpParameters(args) : Holds(p, packet)

-----------------------------------------------------------------------------
(* upgradesinspect: the lines of the log are "old" (before the cut time, or
   without a time), "recent", or "cut" (recent, and broken off while it was
   written). *)

FilterResult(log) == SelectSeq(log, LAMBDA line : line # "old")

Least(m, n) == IF m < n THEN m ELSE n

(* The first lines, as many as there may be. *)
Listed(log, limit) == IF limit <= 0 THEN <<>> ELSE SubSeq(FilterResult(log), 1, Least(limit, Len(FilterResult(log))))

(* A line that has less than six words: strs[5] is out of range. *)
IndexOutOfRange(log, limit) == "cut" \in Range(Listed(log, limit))

ParseResult(log, limit) ==
    [lines |-> Listed(log, limit),
     omitted |-> IF limit < Len(FilterResult(log)) THEN Len(FilterResult(log)) - limit ELSE 0]
=============================================================================
