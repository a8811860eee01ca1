\* Three invocations, each interrupted or failing at any step; at most one of them begins
\* while another is under way. One that waits for ever violates RunsEnd.
SPECIFICATION FairSpec
CONSTANTS
    Runs = {r1, r2, r3}
    NoRun = none
    MaxOverlaps = 1
INVARIANTS
    TypeOK
    OnlyLeftOversAreStale
    SuccessCleans
    LastIsOwn
PROPERTY
    RunsEnd
CHECK_DEADLOCK FALSE
