\* tcpdump with an address and a port for --host.
SPECIFICATION Spec
CONSTANTS
    MaxItems = 1
    Modulus = 65536
    Packets <- MCPackets
    PublicTargets <- MCPublicTargets
    CommandLines <- MCCommandLines
    Machines <- MCMachines
INVARIANTS
    HostMeansOneEnd
