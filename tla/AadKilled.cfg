\* Three runs, one after the other; each may be killed at any step.
SPECIFICATION Spec
CONSTANTS
    Runs = {r1, r2, r3}
    Absent = absent
    Torn = torn
    Life = 2
    MaxSkew = 1
    MaxNow = 4
    Modulus = 16
    Concurrent = FALSE
    Crashes = TRUE
INVARIANTS
    TypeOK
    BelongTogether
    FailsOnlyWhenRefused
PROPERTY
    KeyIsStable
