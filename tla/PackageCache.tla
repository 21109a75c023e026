---------------------------- MODULE PackageCache -----------------------------
(***************************************************************************)
(* PackageCacheState (src/src/packages/cache.rs): when the package lists   *)
(* were refreshed last, in memory behind a mutex and in cache.json.        *)
(*                                                                         *)
(* Time is reduced to what is_stale tells apart: a moment is fresh as long *)
(* as the threshold with its jitter has not passed, and old afterwards.    *)
(* The success flag and the error text beside it are only reported.        *)
(***************************************************************************)
EXTENDS Naturals

VARIABLES
    last_update,          \* in memory: none, fresh or old
    disk,                 \* the time stored in cache.json, none if unreadable
    refreshed,            \* history: the last refresh that succeeded
    firstFailure          \* history: the last failure that met no time at all

cacheVars == <<last_update, disk, refreshed, firstFailure>>

Ages == {"none", "fresh", "old"}

CacheInit ==
    /\ last_update = "none"
    /\ disk = "none"
    /\ refreshed = "none"
    /\ firstFailure = "none"

\* is_stale
IsStale == last_update # "fresh"

UpdateSuccess ==
    /\ last_update' = "fresh"
    /\ refreshed' = "fresh"
    /\ UNCHANGED <<disk, firstFailure>>

\* Mutant: a failed refresh counts as an attempt and renews the time.
UpdateFailureRenews ==
    /\ last_update' = "fresh"
    /\ firstFailure' = IF last_update = "none" THEN "fresh" ELSE firstFailure
    /\ UNCHANGED <<disk, refreshed>>

\* update_failure keeps the time of the last success; only if there is none
\* does it store the time of the attempt.
UpdateFailure ==
    /\ IF last_update = "none"
       THEN last_update' = "fresh" /\ firstFailure' = "fresh"
       ELSE UNCHANGED <<last_update, firstFailure>>
    /\ UNCHANGED <<disk, refreshed>>

\* The end of persist_state: the snapshot it took is renamed into place, or
\* the write fails.  The name of the temporary file is fixed, so a call that
\* overlaps another one may also leave a torn file.
Persisted(snapshot, overlaps) ==
    /\ disk' \in {snapshot, disk} \cup (IF overlaps THEN {"none"} ELSE {})
    /\ UNCHANGED <<last_update, refreshed, firstFailure>>

Older(t) == IF t = "fresh" THEN "old" ELSE t

\* The threshold passes.
Expire ==
    /\ "fresh" \in {last_update, disk, refreshed, firstFailure}
    /\ last_update' = Older(last_update)
    /\ disk' = Older(disk)
    /\ refreshed' = Older(refreshed)
    /\ firstFailure' = Older(firstFailure)

\* with_threshold: a new process loads cache.json.
LoadStateFile ==
    /\ last_update' = disk
    /\ UNCHANGED <<disk, refreshed, firstFailure>>

CacheTypeOK ==
    {last_update, disk, refreshed, firstFailure} \subseteq Ages

=============================================================================
