CONSTANTS
    Kinds = {"offline", "xray_down", "cpu"}
    FireFor <- AnyFireFor
    ClearFor <- AnyClearFor
    MaxGap = 1
    MaxFaults = 2
SPECIFICATION FairSpec
INVARIANTS TypeOK PagedOnce AckCoversSeverity
PROPERTIES  ResolvesOnlyObserved FollowsTheNode
