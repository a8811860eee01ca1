\* The lifetime the agent is given.
SPECIFICATION Spec
CONSTANTS
    Runs = {r1, r2}
    Absent = absent
    Torn = torn
    Life = 2
    MaxSkew = 0
    MaxNow = 3
    Modulus = 16
    Concurrent = FALSE
    Crashes = FALSE
INVARIANT
    AgentForgets
