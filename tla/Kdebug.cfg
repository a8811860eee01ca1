\* Four machines, all modes, all tools, all checkers; two items of everything a checker looks at.
SPECIFICATION FairSpec
CONSTANTS
    MaxItems = 2
    Modulus = 65536
    Packets <- MCPackets
    PublicTargets <- MCPublicTargets
    CommandLines <- MCCommandLines
    Machines <- MCMachines
INVARIANTS
    TypeOK
    AnsweredInFull
    UnknownRunsNothing
    ReportIsComplete
    RemoteContract
    BatchShowsEveryMachine
    ToolStopsAtFailure
    FilterMatchesEachOption
    ScheduleIsOfNodes
    LoadIsReported
PROPERTIES
    MainEnds
CHECK_DEADLOCK FALSE
