---------------------------- MODULE HostExclusion ----------------------------
(***************************************************************************)
(* What the scheduler promises about a host, without queues, wakeups,      *)
(* generations, watchdogs or job records: which package-manager operations *)
(* may be under way together with a self-update or a reserved reboot.      *)
(* Scheduler implements this specification (property KeepsHostExclusion).  *)
(***************************************************************************)
CONSTANTS Jobs, Reboots, None

VARIABLES
    mutating,    \* user jobs whose operation is under way
    refreshing,  \* background cache refreshes under way
    updating,    \* the job the host is reserved for as a self-update
    rebooting,   \* the reboot job the host is reserved for
    strict       \* that reboot was promised an idle host

hostVars == <<mutating, refreshing, updating, rebooting, strict>>

Idle == mutating = {} /\ refreshing = {}

Init == Idle /\ updating = None /\ rebooting = None /\ strict = FALSE

\* An operation begins only on an idle host that is not reserved for another.
Begin(j) ==
    /\ Idle /\ rebooting = None /\ updating \in {None, j}
    /\ \/ mutating' = {j} /\ UNCHANGED refreshing
       \/ refreshing' = {j} /\ UNCHANGED mutating
    /\ UNCHANGED <<updating, rebooting, strict>>

End ==
    /\ ~ Idle /\ mutating' = {} /\ refreshing' = {}
    /\ UNCHANGED <<updating, rebooting, strict>>

\* A self-update shares the host only with a refresh that began before.
ReserveUpdate(j) ==
    /\ updating = None /\ rebooting = None /\ mutating = {}
    /\ updating' = j
    /\ UNCHANGED <<mutating, refreshing, rebooting, strict>>

ReleaseUpdate ==
    /\ updating # None /\ updating' = None
    /\ UNCHANGED <<mutating, refreshing, rebooting, strict>>

\* Only the acknowledged reboot ignores a self-update; the forced one needs an
\* idle host.
ReserveReboot(r, k) ==
    /\ rebooting = None
    /\ k # "ack" => updating = None
    /\ k = "force" => Idle
    /\ rebooting' = r /\ strict' = (k = "force")
    /\ UNCHANGED <<mutating, refreshing, updating>>

CancelReboot ==
    /\ rebooting # None /\ rebooting' = None /\ strict' = FALSE
    /\ UNCHANGED <<mutating, refreshing, updating>>

Next ==
    \/ \E j \in Jobs : Begin(j) \/ ReserveUpdate(j)
    \/ End \/ ReleaseUpdate \/ CancelReboot
    \/ \E r \in Reboots, k \in {"plain", "force", "ack"} : ReserveReboot(r, k)

Spec == Init /\ [][Next]_hostVars

=============================================================================
