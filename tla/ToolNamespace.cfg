\* Tools that are told to attach to the namespace of a process.
SPECIFICATION Spec
CONSTANTS
    MaxItems = 1
    Modulus = 65536
    Packets <- MCPackets
    PublicTargets <- MCPublicTargets
    CommandLines <- MCCommandLines
    Machines <- MCMachines
INVARIANTS
    PidMeansNamespace
