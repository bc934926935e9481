CONSTANTS
    Workers = {w1, w2}
    IPs = {"a", "b"}
    None = None
    MaxId = 4
    MaxGen = 2
    MaxFaults = 2
    Faults <- FaultKinds
SPECIFICATION FairSpec
INVARIANTS TypeOK ReadyIsIntended
PROPERTIES DeletionIsFinal Converges
\* A row nobody retries stops here: its node is deleted, or needs an operator.
CHECK_DEADLOCK FALSE
