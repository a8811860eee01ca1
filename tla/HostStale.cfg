\* The first document printed, when an earlier invocation was interrupted.
SPECIFICATION Spec
CONSTANTS
    Runs = {r1, r2}
    NoRun = none
    MaxOverlaps = 0
INVARIANT
    FreshOutput
