SPECIFICATION Spec
CONSTANTS
    w1 = w1
    w2 = w2
    p1 = p1
    p2 = p2
    None = None
    Workers <- MCWorkers
    Procs <- MCProcs2
    Scenarios <- MCScenarios
    HasPgrep = TRUE
INVARIANTS
    OneWriter
    HeldBackIsReported
    TimeoutIsReported
    FreshIsEarned
    AlwaysAdvances
PROPERTIES
    OkLeavesDbClean
SYMMETRY Symmetry

