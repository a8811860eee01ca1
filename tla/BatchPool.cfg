\* Five machines on one worker of the pod executor: more tasks than both channels
\* and the worker can hold (3), so that everyone has to wait, namespace failure
\* and panics included. Two workers at once are in SshBatch.cfg. A circular wait
\* is reported as a violation of Terminates.
SPECIFICATION FairSpec
CONSTANTS
    N = 5
    Workers = {w1}
    Outcomes = {ok, err}
    NoOutcome = none
    Kind = "pod"
INVARIANTS
    TypeOK
    Conservation
    NoSendOnClosed
    CompleteOnReturn
PROPERTIES
    ExecutedOnce
    RefinesBatch
    Terminates
    WorkersExit
CHECK_DEADLOCK FALSE
