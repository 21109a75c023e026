---------------------------- MODULE MCScheduler ----------------------------
(***************************************************************************)
(* Instances of Scheduler for TLC: what clients ask for and which futures  *)
(* may be dropped.                                                         *)
(***************************************************************************)
EXTENDS Scheduler, TLC

\* A queue of mutations, one of them possibly a self-update, met by a forced
\* reboot and by the deletion of terminal records.
QueueRequests == {"Install", "Refresh", "SelfUpdate", "ForceReboot", "Delete"}

\* Patches contending for the slot, each with the reboot it may ask for, and a
\* self-update, while a SIGTERM may freeze admission.
LiveRequests == {"PatchApply", "SelfUpdate", "Freeze"}

\* Self-update and reboot requests around a background cache refresh.
SystemRequests == {"Refresh", "SelfUpdate", "Reboot", "ForceReboot"}

NoDrops      == {}
HandlerDrops == {"handler"}
AllDrops     == {"caller", "handler"}

\* Ids of one kind are interchangeable (not used where liveness is checked).
IdSymmetry == Permutations(JobIds) \cup Permutations(RebootIds)

=============================================================================
