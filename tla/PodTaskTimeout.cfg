\* What "timeout waiting for Kubernetes job" says.
SPECIFICATION Spec
CONSTANTS
    Poll = 2
    Latency = 1
    TTL = 10
    Timeout = 10
INVARIANT
    TimeoutMeansUnfinished
