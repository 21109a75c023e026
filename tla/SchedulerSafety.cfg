SPECIFICATION Spec
CONSTANTS
    None = None
    JobIds = {j1, j2}
    RebootIds = {r1, r2}
    MaxConcurrent = 2
    MaxQueueDepth = 3
    Requests <- AllRequests
    MayDrop <- NoDrops
SYMMETRY IdSymmetry
INVARIANTS
    SlotHasHolder
    PlainRebootFence
    DetachedNeverCompletes
    NoLostWakeup
    ReservationsHeld
    Inv
PROPERTIES
    ReservationClearedByOwner
    EndIsFinal
CHECK_DEADLOCK FALSE
