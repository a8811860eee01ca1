---------------------------- MODULE Environment ------------------------------
(***************************************************************************)
(* GetEnvironment (pkg/env): the flags that checkers and tools ask for.    *)
(* A host is a record of what the process finds:                           *)
(*   os           runtime.GOOS                                             *)
(*   vendor       the ID of /etc/os-release, in lower case ("" if unknown) *)
(*   root         the effective user is root                               *)
(*   imds         the metadata service: "ok", "error" (another status) or  *)
(*                "none" (no answer within the timeout of a second)        *)
(*   kubernetes   /etc/kubernetes: "dir", "file" or "none"                 *)
(*   serviceHost  KUBERNETES_SERVICE_HOST is in the environment            *)
(*   processes    the list of processes, in order: "kubelet", "other", or  *)
(*                "gone" for one that ends before its name is read         *)
(***************************************************************************)
EXTENDS Naturals, Sequences

(* linux.go, darwin.go and windows.go: only on Linux is root a flag. *)
LinuxFlags(host) ==
    {host.os} \cup (IF host.os = "linux" THEN {host.vendor} ELSE {})
              \cup (IF host.os = "linux" /\ host.root THEN {"root"} ELSE {})

AksFlags(host) == IF host.kubernetes = "dir" THEN {"aks"} ELSE {}

AzureFlags(host) == IF host.imds = "ok" THEN {"azure"} \cup AksFlags(host) ELSE {}

(* A process whose name cannot be read ends the search. *)
InK8s(host) ==
    \/ host.serviceHost
    \/ \E i \in DOMAIN host.processes :
           /\ host.processes[i] = "kubelet"
           /\ \A j \in 1..i : host.processes[j] # "gone"

K8sFlags(host) == IF InK8s(host) THEN {"k8s"} ELSE {}

GetFlags(host) == LinuxFlags(host) \cup AzureFlags(host) \cup K8sFlags(host)
=============================================================================
