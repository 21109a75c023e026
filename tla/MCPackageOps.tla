---------------------------- MODULE MCPackageOps -----------------------------
(* PackageOps for TLC: workers and processes as model values. *)
EXTENDS PackageOps, TLC

CONSTANTS w1, w2, p1, p2

MCWorkers == {w1, w2}
MCProcs2  == {p1, p2}

\* Two closures at once, the first one given up by the watchdog; and closures
\* before and after a restart of the agent.
Case(b, first, second, n) ==
    [backend |-> b, plan |-> (w1 :> first) @@ (w2 :> second), restarts |-> n]

MCScenarios ==
    { Case("apt", {"PatchAll"}, {"Install"}, 0),
      Case("apt", {"PatchSome", "SelfUpdate"}, {}, 0),
      Case("apt", {"Install"}, {}, 1),
      Case("dnf", {"PatchAll", "SelfUpdate"}, {"Refresh"}, 0),
      Case("dnf", {"Refresh"}, {"Refresh"}, 1),
      Case("yum", {"Install"}, {"Refresh"}, 0),
      Case("apk", {"PatchAll"}, {}, 1),
      Case("pacman", {"PatchSome"}, {"Install"}, 0) }

Symmetry == Permutations(MCProcs2)

=============================================================================
