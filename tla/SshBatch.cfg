\* Three entries on two workers, the first and the last for the same machine.
SPECIFICATION FairSpec
CONSTANTS
    N = 3
    Workers = {w1, w2}
    MachineOf <- MCMachineOf
    MaxDisturbed = 1
    MaxHung = 1
INVARIANTS
    TypeOK
    ResultsAreOfRuns
    AloneSucceeds
    RunsWhatWasCopied
CHECK_DEADLOCK FALSE
PROPERTIES
    ImplementsPool
    TasksImplement
    OthersAreServed
