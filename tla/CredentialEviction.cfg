CONSTANTS
    Devices = {d1}
    Exits = {n1, n2}
    Schedulers = {s1}
    None = None
    MaxEpoch = 2
    MaxOps = 2
    MaxFaults = 1
SPECIFICATION FairSpec
INVARIANTS TypeOK AckedIsClosed 
PROPERTIES EvictionEnds
