----------------------------- MODULE MCRepoSync ------------------------------
(* RepoSync for TLC. *)
EXTENDS RepoSync, TLC

Scenario(r, e, l, d) == [runs |-> r, errors |-> e, losses |-> l, deaths |-> d]

\* Faults of every kind; an enrollment beside the service.
MCBudgets == { Scenario(0, 1, 1, 1), Scenario(1, 0, 0, 1), Scenario(1, 1, 1, 0) }

=============================================================================
