SPECIFICATION Spec
CONSTANTS
    None = None
    JobIds = {j1}
    RebootIds = {r1}
    LegacyIds = {l1}
    Ops <- AllOps
    Retention = 2
    MaxInFlight = 1
    MaxDeaths = 2
    IoErrors <- AllErrors
    MaxErrors = 1
INVARIANTS
    PromisesKept
    RestartIsNoReboot
    InternalNeverInterrupted
    ActiveHasTask
CHECK_DEADLOCK FALSE
