\* Two first runs in two terminals.
SPECIFICATION Spec
CONSTANTS
    Runs = {r1, r2}
    Absent = absent
    Torn = torn
    Life = 2
    MaxSkew = 0
    MaxNow = 1
    Modulus = 16
    Concurrent = TRUE
    Crashes = FALSE
INVARIANT
    CertIsOfKey
