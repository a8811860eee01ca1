\* The races between polling, timeout and TTL, with every call failing and the
\* pod vanishing at any point. Poll + 7 * Latency is one less than TTL;
\* Timeout = TTL, as in the code.
SPECIFICATION FairSpec
CONSTANTS
    Poll = 2
    Latency = 1
    TTL = 10
    Timeout = 10
INVARIANTS
    TypeOK
    BoundedWait
    CompletedJobIsRead
PROPERTIES
    RefinesTask
    TaskEnds
