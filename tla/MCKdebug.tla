------------------------------ MODULE MCKdebug -------------------------------
(* Command lines and machines for Kdebug. *)
EXTENDS Kdebug, TLC

MCPublicTargets == [tcp |-> <<"google">>, ping |-> <<"dns", "cluster">>]

Plain == [valid |-> TRUE, list |-> FALSE, pause |-> FALSE, help |-> FALSE, tool |-> "none", args |-> [valid |-> TRUE],
          format |-> "text", output |-> FALSE, kubeMachines |-> FALSE, unready |-> FALSE,
          label |-> FALSE, machines |-> <<>>, machinesFile |-> FALSE, sshUser |-> FALSE,
          checkers |-> <<"dummy">>, noSetExitCode |-> FALSE]

(* Every way through main, with and without the options that come later. *)
ModeLines ==
    {[Plain EXCEPT !.valid = v, !.list = l, !.pause = p, !.help = h, !.tool = t, !.label = b] :
        v \in BOOLEAN, l \in BOOLEAN, p \in BOOLEAN, h \in BOOLEAN,
        t \in {"none", "vmrebootinspect", "nosuch"}, b \in BOOLEAN}

Ends2 == [ip : {"", "ip1"}, port : {"", "port1"}]
Anywhere == [ip |-> "", port |-> ""]
Tcpdump == [valid |-> TRUE, pid |-> FALSE, source |-> Anywhere, destination |-> Anywhere, host |-> Anywhere, tcpOnly |-> FALSE]

(* Every tool with arguments it takes and arguments it refuses. *)
ToolArgs ==
    [netexec |-> [valid : BOOLEAN, pid : BOOLEAN, pod : BOOLEAN, command : {"default", "given", "blank"}],
     tcpdump |-> {[Tcpdump EXCEPT !.pid = TRUE, !.valid = v] : v \in BOOLEAN}
                 \cup {[Tcpdump EXCEPT !.source = s, !.destination = d, !.host = h, !.tcpOnly = t] :
                           s \in Ends2, d \in Ends2, h \in Ends2, t \in BOOLEAN},
     upgradesinspect |-> [valid : BOOLEAN, recordLimit : -1..4],
     vmrebootinspect |-> [valid : BOOLEAN],
     aadssh |-> [valid : BOOLEAN, ssh : BOOLEAN]]

ToolLines ==
    UNION {{[Plain EXCEPT !.tool = t, !.args = a, !.help = h] : a \in ToolArgs[t], h \in BOOLEAN} : t \in AllTools}

MCPackets == LET End == [ip : {"ip1", "ip2"}, port : {"port1", "port2"}] IN [src : End, dst : End, tcp : BOOLEAN]

(* All checkers, and lists with repetitions and unknown names. *)
CheckerLists ==
    {<<>>, <<"nosuch">>, <<"dummy", "nosuch">>, <<"nosuch", "tcp">>, <<"dummy", "dummy">>,
     <<"ping", "ping">>, <<"tcp", "ping", "tcp">>, <<"systemload", "oom", "dummy">>}

CheckLines ==
    {[Plain EXCEPT !.checkers = c, !.format = f, !.noSetExitCode = n, !.output = o] :
        c \in CheckerLists \ {<<>>}, f \in {"text", "json"}, n \in BOOLEAN, o \in BOOLEAN}
    \cup {[Plain EXCEPT !.checkers = <<>>, !.format = "json", !.noSetExitCode = n] : n \in BOOLEAN}

BatchLines ==
    {[Plain EXCEPT !.kubeMachines = k, !.unready = u, !.label = l, !.machines = m,
                   !.machinesFile = f, !.sshUser = s, !.format = fmt] :
        k \in BOOLEAN, u \in BOOLEAN, l \in BOOLEAN, m \in {<<>>, <<"m1", "m2">>},
        f \in BOOLEAN, s \in BOOLEAN, fmt \in {"text", "json", "oneline"}}

MCCommandLines == ModeLines \cup ToolLines \cup CheckLines \cup BatchLines

Cluster == <<[name |-> "m1", ready |-> "True", labelled |-> TRUE],
             [name |-> "m2", ready |-> "False", labelled |-> FALSE],
             [name |-> "m3", ready |-> "none", labelled |-> TRUE]>>

Stat(idle, busy, guest) == [idle |-> idle, busy |-> busy, guest |-> guest]
Proc(before, after, gone) == [before |-> before, after |-> after, gone |-> gone]

(* Two idle cores; a busy machine with a process at its limit and two above; a
   machine with guests; one whose idle counter goes back and where a process has
   got the pid of another; nothing counted at all. *)
Quiet == [memory |-> [available |-> 50, total |-> 100], before |-> Stat(100, 20, 0), after |-> Stat(290, 30, 0),
          processes |-> <<Proc(5, 10, FALSE)>>]
Busy == [memory |-> [available |-> 9, total |-> 100], before |-> Stat(100, 20, 0), after |-> Stat(110, 110, 0),
         processes |-> <<Proc(0, 50, FALSE), Proc(7, 88, FALSE), Proc(0, 51, FALSE), Proc(3, 0, TRUE)>>]
Guests == [memory |-> [available |-> 10, total |-> 100], before |-> Stat(0, 100, 50), after |-> Stat(30, 170, 120),
           processes |-> <<>>]
Backward == [memory |-> [available |-> 0, total |-> 0], before |-> Stat(100, 20, 0), after |-> Stat(99, 120, 0),
             processes |-> <<Proc(90, 2, FALSE)>>]
Still == [Quiet EXCEPT !.before = Stat(0, 0, 0), !.after = Stat(0, 0, 0)]

Host(os, vendor, imds, kubernetes, serviceHost, processes) ==
    [os |-> os, vendor |-> vendor, root |-> os = "linux", imds |-> imds, kubernetes |-> kubernetes,
     serviceHost |-> serviceHost, processes |-> processes]

(* A user's computer, a node of the cluster on Azure, one elsewhere that a pod
   runs on. *)
MCMachines ==
    {[host |-> Host("darwin", "", "none", "none", FALSE, <<"other">>), kube |-> FALSE, nodes |-> <<>>,
      file |-> <<"m1", "", "m1">>, load |-> Still, log |-> <<>>],
     [host |-> Host("linux", "ubuntu", "ok", "dir", FALSE, <<"other", "kubelet">>), kube |-> TRUE, nodes |-> Cluster,
      file |-> <<>>, load |-> Busy, log |-> <<"old", "recent", "old", "recent", "recent">>],
     [host |-> Host("linux", "debian", "error", "file", TRUE, <<>>), kube |-> TRUE, nodes |-> Cluster,
      file |-> <<"m1", "m2">>, load |-> Guests, log |-> <<"old", "recent", "cut">>],
     [host |-> Host("linux", "", "none", "none", FALSE, <<"gone", "kubelet">>), kube |-> FALSE, nodes |-> <<>>,
      file |-> <<"m1">>, load |-> Backward, log |-> <<>>]}
=============================================================================
