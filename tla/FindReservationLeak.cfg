SPECIFICATION FairSpec
CONSTANTS
    None = None
    JobIds = {j1, j2}
    RebootIds = {r1}
    MaxConcurrent = 2
    MaxQueueDepth = 3
    Requests <- SystemRequests
    MayDrop <- HandlerDrops
PROPERTIES
    ReservationResolves
CHECK_DEADLOCK FALSE
