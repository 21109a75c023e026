SPECIFICATION Spec
CONSTANTS
    None = None
    JobIds = {j1, j2, j3}
    RebootIds = {r1}
    MaxConcurrent = 2
    MaxQueueDepth = 3
    Requests <- QueueRequests
    MayDrop <- AllDrops
SYMMETRY IdSymmetry
INVARIANTS
    OneMutation
    ConcurrencyBound
PROPERTIES
    KeepsHostExclusion
CHECK_DEADLOCK FALSE
