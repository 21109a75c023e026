SPECIFICATION Spec
CONSTANTS
    None = None
    JobIds = {j1, j2}
    RebootIds = {}
    LegacyIds = {}
    Ops <- InstallOps
    Retention = 2
    MaxInFlight = 2
    MaxDeaths = 1
    IoErrors <- NoErrors
    MaxErrors = 0
INVARIANTS
    PromisesKept
CHECK_DEADLOCK FALSE
