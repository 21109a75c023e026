SPECIFICATION FairSpec
CONSTANTS
    None = None
    JobIds = {j1, j2, j3}
    RebootIds = {r1, r2, r3}
    MaxConcurrent = 2
    MaxQueueDepth = 3
    Requests <- LiveRequests
    MayDrop <- NoDrops
PROPERTIES
    DispatchedJobsFinish
    SelfUpdateReleased
    ReservationResolves
CHECK_DEADLOCK FALSE
