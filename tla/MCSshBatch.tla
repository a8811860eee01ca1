----------------------------- MODULE MCSshBatch ------------------------------
(* A batch whose list names one machine twice. *)
EXTENDS SshBatch

MCMachineOf == <<"m1", "m2", "m1">>
=============================================================================
