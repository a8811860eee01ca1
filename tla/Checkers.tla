------------------------------ MODULE Checkers -------------------------------
(***************************************************************************)
(* What the Check function of each checker (pkg/checkers) can return on a  *)
(* machine with given environment flags, with or without a Kubernetes      *)
(* client, under a given load (module SystemLoad): e is a record of these. *)
(* A return value is how many of its results passed and failed,            *)
(* and whether there is an error besides: the exit code and the formatters *)
(* tell nothing else apart. The tcp and ping checkers run goroutines and   *)
(* are in module PingFanout.                                               *)
(***************************************************************************)
EXTENDS Integers, FiniteSets, Sequences, SequencesExt, SystemLoad

CONSTANT MaxItems    \* bound on pods, objects, processes, log lines looked at

ASSUME MaxItemsAssumption == MaxItems \in Nat \ {0}

(* allCheckers, in the order of ListAllCheckerNames *)
AllNames == <<"diskreadonly", "diskusage", "dns", "dummy", "http", "kmscachesize", "kubeobjectsize",
              "kubepod", "liveness", "oom", "ping", "podschedule", "systemload", "tcp">>
Registry == Range(AllNames)

-----------------------------------------------------------------------------
Results(p, f) == [passed |-> p, failed |-> f, err |-> FALSE]
Error(p, f) == [passed |-> p, failed |-> f, err |-> TRUE]
Nothing == Results(0, 0)

(* n probes, each of which gives one result. *)
Probes(n) == {Results(n - f, f) : f \in 0..n}

(* KDEBUG_DUMMY_FAIL *)
DummyCheck == Probes(1)

(* One result per query: two of each public server, one of CoreDNS in the cluster. *)
DnsCheck(e) == Probes(2 + (IF "ubuntu" \in e.flags THEN 2 ELSE 0) + (IF "azure" \in e.flags THEN 5 ELSE 0))

HttpCheck(e) == Probes(IF "azure" \in e.flags THEN 2 ELSE 1)

(* systemctl's exit code is ignored, its output alone decides. *)
LivenessCheck == Probes(1)

(* Whatever goes wrong (uname, df, its format, du) is itself a failed result. *)
DiskUsageCheck == Probes(1)

(* A home directory that is not writable for another reason than a read-only
   disk is an error of the checker. *)
DiskReadOnlyCheck(e) == IF "linux" \in e.flags THEN Probes(1) \cup {Error(0, 0)} ELSE {Nothing}

-----------------------------------------------------------------------------
(* getAndParseOOMLog: the first OOM line that does not parse ends the scan. *)
OomVerdict(lines) ==
    IF "unparsable" \in Range(lines) THEN Error(0, 0)
    ELSE IF "oom" \in Range(lines) THEN Results(0, 1)
    ELSE Results(1, 0)

KernelLogs == BoundedSeq({"other", "oom", "unparsable"}, MaxItems)

(* Skipped, with a result that says so, on another system or without a log. *)
OomCheck(e) ==
    IF "linux" \in e.flags
      THEN {Results(1, 0), Error(0, 0)} \cup {OomVerdict(lines) : lines \in KernelLogs}
      ELSE {Results(1, 0)}

(* cacheSizeAlertThreshold = 0.8; no size means no limit. *)
KmsVerdict(cacheSize, secrets) ==
    IF cacheSize = 0 THEN Nothing
    ELSE IF 10 * secrets > 8 * cacheSize THEN Results(0, 1)
    ELSE Results(1, 0)

(* No configuration: nothing. A configuration or secrets that cannot be read: an error. *)
KmsCheck(e) ==
    IF "linux" \in e.flags /\ e.kube
      THEN {Nothing, Error(0, 0)} \cup {KmsVerdict(s, n) : s \in 0..MaxItems, n \in 0..MaxItems}
      ELSE {Nothing}

-----------------------------------------------------------------------------
(* One result per config map and secret; a list that fails is a warning only. *)
ObjectSizeCheck(e) ==
    IF e.kube THEN UNION {Probes(n) : n \in 0..(2 * MaxItems)} ELSE {Nothing}

(* One failed result per pod that is in CrashLoopBackOff. *)
KubePodCheck(e) ==
    IF e.kube THEN {Error(0, 0)} \cup {Results(0, f) : f \in 0..MaxItems} ELSE {Nothing}

(* Mutant: the last comparison overrides the others. *)
CompareNode_LastCounts(found, pod) ==
    IF found.node = "" THEN [found EXCEPT !.node = pod]
    ELSE [found EXCEPT !.same = (pod = found.node)]

(* The loop of checkPodsScheduleInReplicaSet: the first pod that has a node ("" is
   none) gives the node that every later pod is compared with. *)
CompareNode(found, pod) ==
    IF found.node = "" THEN [found EXCEPT !.node = pod]
    ELSE [found EXCEPT !.same = @ /\ pod = found.node]

SameNode(pods) ==
    LET found[i \in 0..Len(pods)] ==
            IF i = 0 THEN [node |-> "", same |-> TRUE] ELSE CompareNode(found[i - 1], pods[i])
    IN found[Len(pods)].same

PodLists == BoundedSeq({"", "node1", "node2"}, MaxItems + 1)

(* One result per replica set of two or more pods. *)
ScheduleVerdicts(replicaSets) ==
    LET Checked == {r \in DOMAIN replicaSets : Len(replicaSets[r]) > 1}
        Bad == {r \in Checked : SameNode(replicaSets[r])}
    IN Results(Cardinality(Checked \ Bad), Cardinality(Bad))

ScheduleOutcomes == {ScheduleVerdicts(rs) : rs \in [1..MaxItems -> PodLists]}

PodScheduleCheck(e) == IF e.kube THEN ScheduleOutcomes ELSE {Nothing}

(* Only what is above a limit gives a result. Memory is judged before the reads
   of /proc that can fail, and what was found is returned with the error. *)
SystemLoadCheck(e) ==
    IF "linux" \in e.flags
      THEN {Error(0, 0), Error(0, MemoryResults(e.load)), Results(0, LoadResults(e.load))}
      ELSE {Nothing}

-----------------------------------------------------------------------------
Outcomes(checker, e) ==
    CASE checker = "diskreadonly" -> DiskReadOnlyCheck(e)
      [] checker = "diskusage" -> DiskUsageCheck
      [] checker = "dns" -> DnsCheck(e)
      [] checker = "dummy" -> DummyCheck
      [] checker = "http" -> HttpCheck(e)
      [] checker = "kmscachesize" -> KmsCheck(e)
      [] checker = "kubeobjectsize" -> ObjectSizeCheck(e)
      [] checker = "kubepod" -> KubePodCheck(e)
      [] checker = "liveness" -> LivenessCheck
      [] checker = "oom" -> OomCheck(e)
      [] checker = "podschedule" -> PodScheduleCheck(e)
      [] checker = "systemload" -> SystemLoadCheck(e)
=============================================================================
