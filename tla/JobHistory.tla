----------------------------- MODULE JobHistory -----------------------------
(***************************************************************************)
(* The durable job history (src/src/jobs/persistence.rs), the persist      *)
(* calls of the scheduler's lifecycle methods, and what happens at startup *)
(* (main.rs): load, orphan recovery, flush.                                *)
(*                                                                         *)
(* persist_jobs clones the job map under the scheduler lock and writes the *)
(* file after it unlocked, so a persist call is two steps, Snapshot and    *)
(* Rename, and calls of different tasks overlap.  A task goes on when its  *)
(* persist call has returned.  The process may die between any two steps,  *)
(* alone or with the machine.                                              *)
(*                                                                         *)
(* Who may be admitted and who waits for the slot is Scheduler's subject;  *)
(* here every job may be admitted while no reboot is reserved.             *)
(***************************************************************************)
EXTENDS Naturals, FiniteSets

CONSTANTS
    JobIds,       \* ids of jobs that package handlers create
    RebootIds,    \* ids of reboot jobs
    LegacyIds,    \* ids in the running_jobs.json of an agent before 2.7
    None,
    Ops,          \* the operations clients ask for
    Retention,    \* HISTORY_RETENTION_COUNT
    MaxInFlight,  \* bound: persist calls between their two steps at once
    MaxDeaths,    \* bound: deaths of the process
    IoErrors,     \* which file operations may fail: "write", "remove", "read"
    MaxErrors     \* bound: failures of file operations

Ids     == JobIds \cup RebootIds \cup LegacyIds
Writers == Ids \cup {"client", "main"}

ASSUME HistoryAssumption ==
    /\ JobIds \cap RebootIds = {}
    /\ LegacyIds \cap (JobIds \cup RebootIds) = {}
    /\ Ids \cap {None, "client", "main"} = {}
    /\ Ops \subseteq {"Install", "Refresh", "PatchApply", "SelfUpdate"}
    /\ Retention \in Nat \ {0}
    /\ MaxInFlight \in Nat \ {0}
    /\ MaxDeaths \in Nat
    /\ MaxErrors \in Nat
    /\ IoErrors \subseteq {"write", "remove", "read"}

VARIABLES
    jobs,            \* the job map: status of each record
    op,              \* operation of each id
    created,         \* created_at, as a position in the order of creation
    boot_id,         \* boot in which each job was created; None in old files
    reboot_pending,  \* job_id of the reserved reboot
    pc,              \* where the task of each job is
    rebootJob,       \* the reboot job a patch task executes
    persist,         \* phase of each writer's persist call
    snapshot,        \* the map a writer has cloned and not yet written
    deleting,        \* the record the DELETE handler has removed
    file,            \* jobs_history.json, None if absent
    legacy,          \* running_jobs.json, None if absent
    phase,           \* of the process
    boot,            \* number of the current boot
    deaths,          \* bounded by MaxDeaths
    errors,          \* bounded by MaxErrors
    promised,        \* history: end of a job whose persist call succeeded
    rebooted         \* history: jobs that were active when the machine went down

taskVars    == <<pc, rebootJob>>
persistVars == <<persist, snapshot>>
diskVars    == <<file, legacy>>
procVars    == <<phase, boot, deaths>>
ghostVars   == <<promised, rebooted>>
vars == <<jobs, op, created, boot_id, reboot_pending, taskVars, persistVars,
          deleting, diskVars, procVars, errors, ghostVars>>

-----------------------------------------------------------------------------
\* AgentRestarted and AgentRebooted are Failed with that error_code.
Interrupted == {"AgentRestarted", "AgentRebooted"}
Terminal    == {"Completed", "Failed", "Cancelled"} \cup Interrupted
Active      == {"Pending", "Running", "Rebooting"}
Status      == {"Absent"} \cup Active \cup Terminal

\* A file that is absent is told from every content.
ASSUME NoneAssumption == None \notin [Ids -> Status]

Empty == [j \in Ids |-> "Absent"]

IsInternal(j) == op[j] = "Refresh"

\* Mutant: the oldest records survive the truncation.
KeptOldest(s) ==
    LET retained == {j \in Ids : s[j] # "Absent" /\ (~IsInternal(j) \/ s[j] \in Terminal)}
    IN [j \in Ids |->
          IF /\ j \in retained
             /\ Cardinality({k \in retained : created[k] < created[j]}) < Retention
          THEN s[j] ELSE "Absent"]

\* What persist_all_jobs writes of a snapshot: everything but internal jobs
\* that are not terminal, and of that the Retention newest.
Kept(s) ==
    LET retained == {j \in Ids : s[j] # "Absent" /\ (~IsInternal(j) \/ s[j] \in Terminal)}
    IN [j \in Ids |->
          IF /\ j \in retained
             /\ Cardinality({k \in retained : created[k] > created[j]}) < Retention
          THEN s[j] ELSE "Absent"]

-----------------------------------------------------------------------------
Init ==
    /\ jobs = Empty
    /\ op \in {o \in [Ids -> {"none", "Install", "Refresh"}] :
                  \A j \in Ids : (o[j] = "none") <=> (j \notin LegacyIds)}
    /\ created = [j \in Ids |-> 0]
    /\ boot_id = [j \in Ids |-> None]
    /\ reboot_pending = None
    /\ pc = [j \in Ids |-> IF j \in LegacyIds THEN "done" ELSE "idle"]
    /\ rebootJob = [j \in Ids |-> None]
    /\ persist = [w \in Writers |-> "idle"]
    /\ snapshot = [w \in Writers |-> None]
    /\ deleting = None
    /\ file = None
    /\ legacy = IF LegacyIds = {} THEN None
                ELSE [j \in Ids |-> IF j \in LegacyIds THEN "Running" ELSE "Absent"]
    /\ phase = "down"
    /\ boot = 0
    /\ deaths = 0
    /\ errors = 0
    /\ promised = [j \in Ids |-> "none"]
    /\ rebooted = {}

-----------------------------------------------------------------------------
(* Persist calls *)

\* The caller's locked section is over and it enters persist_jobs.
Calls(w) == persist' = [persist EXCEPT ![w] = "called"] /\ UNCHANGED snapshot

\* get_all_jobs.
Snapshot(w) ==
    /\ persist[w] = "called"
    /\ Cardinality({x \in Writers : persist[x] = "write"}) < MaxInFlight
    /\ persist' = [persist EXCEPT ![w] = "write"]
    /\ snapshot' = [snapshot EXCEPT ![w] = jobs]
    /\ UNCHANGED <<jobs, op, created, boot_id, reboot_pending, taskVars, deleting,
                   diskVars, procVars, errors, ghostVars>>

\* What is promised once the call of w has written the file: the end of w's
\* job, the deletion the client asked for, or the outcomes of the recovery.
Promise(w) ==
    [j \in Ids |->
        IF \/ w = j /\ pc[j] \in {"ended", "delete"} /\ jobs[j] \in Terminal
           \/ w = "main" /\ jobs[j] \in Terminal
        THEN jobs[j]
        ELSE IF w = "client" /\ deleting = j THEN "Deleted" ELSE promised[j]]

\* The writer goes on; the flush of the startup sequence opens the server.
Returns(w) ==
    /\ persist' = [persist EXCEPT ![w] = "idle"]
    /\ snapshot' = [snapshot EXCEPT ![w] = None]
    /\ deleting' = IF w = "client" THEN None ELSE deleting
    /\ phase' = IF w = "main" THEN "up" ELSE phase
    /\ UNCHANGED <<jobs, op, created, boot_id, reboot_pending, taskVars, legacy,
                   boot, deaths, rebooted>>

\* The temporary file is written and renamed.
Rename(w) ==
    /\ persist[w] = "write"
    /\ file' = Kept(snapshot[w])
    /\ promised' = Promise(w)
    /\ Returns(w)
    /\ UNCHANGED errors

\* A file operation of the given kind fails.
Fails(kind) == kind \in IoErrors /\ errors < MaxErrors /\ errors' = errors + 1

\* The write or the rename fails: a warning is logged, nothing else.
WriteFails(w) ==
    /\ Fails("write")
    /\ persist[w] = "write"
    /\ Returns(w)
    /\ UNCHANGED <<file, promised>>

-----------------------------------------------------------------------------
(* Lifecycle of a job, with the persist call of each method *)

\* A task that is not inside a persist call.
At(j, l) == phase = "up" /\ pc[j] = l /\ persist[j] = "idle"

Insert(j, o) ==
    /\ op' = [op EXCEPT ![j] = o]
    /\ created' = [created EXCEPT ![j] = 1 + Cardinality({k \in Ids : boot_id[k] # None})]
    /\ boot_id' = [boot_id EXCEPT ![j] = boot]

\* admit_job, try_reserve_self_update: the new record is not persisted.
Admit(j, o) ==
    /\ At(j, "idle")
    /\ reboot_pending = None
    /\ jobs' = [jobs EXCEPT ![j] = "Pending"]
    /\ Insert(j, o)
    /\ pc' = [pc EXCEPT ![j] = "queued"]
    /\ UNCHANGED <<reboot_pending, rebootJob, persistVars, deleting, diskVars,
                   procVars, errors, ghostVars>>

\* dispatch_mutation acquires the slot and persists before the watchdog starts.
Start(j) ==
    /\ At(j, "queued")
    /\ reboot_pending = None
    /\ \A k \in JobIds : pc[k] # "running"
    /\ jobs' = [jobs EXCEPT ![j] = IF @ = "Absent" THEN @ ELSE "Running"]
    /\ pc' = [pc EXCEPT ![j] = "running"]
    /\ Calls(j)
    /\ UNCHANGED <<op, created, boot_id, reboot_pending, rebootJob, deleting,
                   diskVars, procVars, errors, ghostVars>>

\* The watchdog gives the slot away, without a persist call; a successful
\* patch may go on to its reboot.
MutationExits(j) ==
    /\ At(j, "running")
    /\ \E l \in {"exited", "reserve"} :
          /\ l = "reserve" => op[j] = "PatchApply"
          /\ pc' = [pc EXCEPT ![j] = l]
    /\ UNCHANGED <<jobs, op, created, boot_id, reboot_pending, rebootJob,
                   persistVars, deleting, diskVars, procVars, errors, ghostVars>>

\* complete_job / fail_job, also of a task whose dispatch or reservation was
\* rejected.  A refresh deletes its record afterwards.
Finish(j, s) ==
    /\ \/ At(j, "exited")
       \/ At(j, "queued") /\ reboot_pending # None /\ s = "Failed"
       \/ At(j, "reserve") /\ reboot_pending # None /\ s = "Completed"
       \/ At(j, "rolledBack") /\ s = "Completed"
    /\ jobs' = [jobs EXCEPT ![j] = IF @ = "Absent" THEN @ ELSE s]
    /\ pc' = [pc EXCEPT ![j] = IF op[j] = "Refresh" THEN "delete" ELSE "ended"]
    /\ Calls(j)
    /\ UNCHANGED <<op, created, boot_id, reboot_pending, rebootJob, deleting,
                   diskVars, procVars, errors, ghostVars>>

\* delete_job by the refresh task: it persists if it removed the record.
DeleteTrackingJob(j) ==
    /\ At(j, "delete")
    /\ pc' = [pc EXCEPT ![j] = "done"]
    /\ IF jobs[j] \in Terminal
       THEN /\ jobs' = [jobs EXCEPT ![j] = "Absent"]
            /\ promised' = [promised EXCEPT ![j] = "none"]
            /\ Calls(j)
       ELSE UNCHANGED <<jobs, promised, persistVars>>
    /\ UNCHANGED <<op, created, boot_id, reboot_pending, rebootJob, deleting,
                   diskVars, procVars, errors, rebooted>>

\* reserve_reboot by the HTTP handler (t = r) or by a patch task.
ReserveReboot(t, r) ==
    /\ pc[r] = "idle"
    /\ At(t, IF t = r THEN "idle" ELSE "reserve")
    /\ reboot_pending = None
    /\ reboot_pending' = r
    /\ jobs' = [j \in Ids |-> IF j = r THEN "Pending"
                              ELSE IF jobs[j] = "Pending" THEN "Failed" ELSE jobs[j]]
    /\ Insert(r, "Reboot")
    /\ pc' = [pc EXCEPT ![r] = "guarded",
                        ![t] = IF t = r THEN "begin" ELSE "setRebooting"]
    /\ rebootJob' = [rebootJob EXCEPT ![t] = r]
    /\ Calls(t)
    /\ UNCHANGED <<deleting, diskVars, procVars, errors, ghostVars>>

\* set_job_rebooting on the patch job.
SetJobRebooting(t) ==
    /\ At(t, "setRebooting")
    /\ pc' = [pc EXCEPT ![t] = "begin"]
    /\ IF jobs[t] = "Running"
       THEN jobs' = [jobs EXCEPT ![t] = "Rebooting"] /\ Calls(t)
       ELSE UNCHANGED <<jobs, persistVars>>
    /\ UNCHANGED <<op, created, boot_id, reboot_pending, rebootJob, deleting,
                   diskVars, procVars, errors, ghostVars>>

\* begin_reboot_execution by the owner of the reservation.
BeginRebootExecution(t) ==
    /\ At(t, "begin")
    /\ jobs' = [jobs EXCEPT ![rebootJob[t]] = "Rebooting"]
    /\ pc' = [pc EXCEPT ![t] = "rebootCmd"]
    /\ Calls(t)
    /\ UNCHANGED <<op, created, boot_id, reboot_pending, rebootJob, deleting,
                   diskVars, procVars, errors, ghostVars>>

\* The command is accepted: the machine goes down later (Dies).  The patch
\* task persists its last log line.
RebootCommandOk(t) ==
    /\ At(t, "rebootCmd")
    /\ pc' = [pc EXCEPT ![t] = "done"]
    /\ IF t \in RebootIds THEN UNCHANGED persistVars ELSE Calls(t)
    /\ UNCHANGED <<jobs, op, created, boot_id, reboot_pending, rebootJob, deleting,
                   diskVars, procVars, errors, ghostVars>>

\* The command fails: rollback_reboot.
RebootCommandErr(t) ==
    /\ At(t, "rebootCmd")
    /\ reboot_pending' = None
    /\ jobs' = [jobs EXCEPT ![rebootJob[t]] = "Failed"]
    /\ pc' = [pc EXCEPT ![t] = IF t \in RebootIds THEN "ended" ELSE "rolledBack"]
    /\ Calls(t)
    /\ UNCHANGED <<op, created, boot_id, rebootJob, deleting, diskVars, procVars,
                   errors, ghostVars>>

\* DELETE /jobs/{id}.
DeleteJob(j) ==
    /\ phase = "up"
    /\ persist["client"] = "idle"
    /\ jobs[j] \in Terminal
    /\ jobs' = [jobs EXCEPT ![j] = "Absent"]
    /\ promised' = [promised EXCEPT ![j] = "none"]
    /\ deleting' = j
    /\ Calls("client")
    /\ UNCHANGED <<op, created, boot_id, reboot_pending, taskVars, diskVars,
                   procVars, errors, rebooted>>

-----------------------------------------------------------------------------
(* Death and startup *)

\* The process dies, alone or with the machine.  Memory and tasks are gone.
Dies(machine) ==
    /\ phase # "down"
    /\ deaths < MaxDeaths
    /\ deaths' = deaths + 1
    /\ phase' = "down"
    /\ boot' = IF machine THEN boot + 1 ELSE boot
    /\ rebooted' = IF machine THEN rebooted \cup {j \in Ids : jobs[j] \in Active}
                   ELSE rebooted
    /\ jobs' = Empty
    /\ reboot_pending' = None
    /\ pc' = [j \in Ids |-> IF pc[j] = "idle" THEN "idle" ELSE "done"]
    /\ rebootJob' = [j \in Ids |-> None]
    /\ persist' = [w \in Writers |-> "idle"]
    /\ snapshot' = [w \in Writers |-> None]
    /\ deleting' = None
    /\ UNCHANGED <<op, created, boot_id, diskVars, errors, promised>>

\* Mutant: no job of a cache refresh is told from a real mutation.
RecoverInternalToo(j, s) ==
    IF s \notin Active THEN s
    ELSE IF op[j] = "SelfUpdate" \/ s = "Rebooting" THEN "Completed"
    ELSE IF boot_id[j] = boot THEN "AgentRestarted"
    ELSE "AgentRebooted"

\* Mutant: boot ids are not compared.
RecoverAsRestart(j, s) ==
    IF s \notin Active THEN s
    ELSE IF op[j] = "SelfUpdate" \/ s = "Rebooting" THEN "Completed"
    ELSE IF IsInternal(j) THEN "Cancelled"
    ELSE "AgentRestarted"

\* Mutant: a Pending job is taken over as it is.
RecoverPending(j, s) ==
    IF s \notin Active \ {"Pending"} THEN s
    ELSE IF op[j] = "SelfUpdate" \/ s = "Rebooting" THEN "Completed"
    ELSE IF IsInternal(j) THEN "Cancelled"
    ELSE IF boot_id[j] = boot THEN "AgentRestarted"
    ELSE "AgentRebooted"

\* load_history keeps terminal jobs; recover_orphaned_jobs decides the others.
Recover(j, s) ==
    IF s \notin Active THEN s
    ELSE IF op[j] = "SelfUpdate" \/ s = "Rebooting" THEN "Completed"
    ELSE IF IsInternal(j) THEN "Cancelled"
    ELSE IF boot_id[j] = boot THEN "AgentRestarted"
    ELSE "AgentRebooted"

\* main: what was loaded is partitioned and recovered; it is flushed if there
\* was an orphan.
StartWith(loaded) ==
    /\ jobs' = [j \in Ids |-> Recover(j, loaded[j])]
    /\ IF \E j \in Ids : loaded[j] \in Active
       THEN phase' = "flush" /\ Calls("main")
       ELSE phase' = "up" /\ UNCHANGED persistVars
    /\ UNCHANGED <<op, created, boot_id, reboot_pending, taskVars, deleting, file,
                   boot, deaths, rebooted>>

\* load_all_jobs with an old file and no new one: write the new one ...
Migrate ==
    /\ phase = "down"
    /\ file = None /\ legacy # None
    /\ \/ file' = Kept(legacy) /\ UNCHANGED errors
       \/ Fails("write") /\ UNCHANGED file
    /\ phase' = "migrating"
    /\ UNCHANGED <<jobs, op, created, boot_id, reboot_pending, taskVars, persistVars,
                   deleting, legacy, boot, deaths, ghostVars>>

\* ... and remove the old one; the old records are returned.
Migrated ==
    /\ phase = "migrating"
    /\ \/ legacy' = None /\ UNCHANGED errors
       \/ Fails("remove") /\ UNCHANGED legacy
    /\ StartWith(legacy)
    /\ UNCHANGED promised

\* load_all_jobs otherwise.  A file that cannot be read counts as empty, and
\* the next persist call overwrites it: every promise is off.  An old file
\* that cannot be read stays where it is.
Load ==
    /\ phase = "down"
    /\ \/ /\ file # None \/ legacy = None
          /\ StartWith(IF file = None THEN Empty ELSE file)
          /\ UNCHANGED <<errors, promised>>
       \/ /\ file # None \/ legacy # None
          /\ Fails("read")
          /\ StartWith(Empty)
          /\ promised' = [j \in Ids |-> "none"]
    /\ UNCHANGED legacy

-----------------------------------------------------------------------------
Next ==
    \/ \E j \in JobIds :
          \/ \E o \in Ops : Admit(j, o)
          \/ Start(j)
          \/ MutationExits(j)
          \/ \E s \in {"Completed", "Failed"} : Finish(j, s)
          \/ DeleteTrackingJob(j)
          \/ SetJobRebooting(j)
    \/ \E r \in RebootIds : \E t \in JobIds \cup {r} : ReserveReboot(t, r)
    \/ \E t \in JobIds \cup RebootIds :
          BeginRebootExecution(t) \/ RebootCommandOk(t) \/ RebootCommandErr(t)
    \/ \E j \in Ids : DeleteJob(j)
    \/ \E w \in Writers : Snapshot(w) \/ Rename(w) \/ WriteFails(w)
    \/ \E machine \in BOOLEAN : Dies(machine)
    \/ Migrate \/ Migrated \/ Load

Spec == Init /\ [][Next]_vars

-----------------------------------------------------------------------------
(* Properties *)

\* Every variable has its type.
TypeOK ==
    /\ jobs \in [Ids -> Status]
    /\ op \in [Ids -> Ops \cup {"none", "Install", "Refresh", "Reboot"}]
    /\ created \in [Ids -> Nat]
    /\ boot_id \in [Ids -> Nat \cup {None}]
    /\ reboot_pending \in RebootIds \cup {None}
    /\ pc \in [Ids -> {"idle", "queued", "running", "exited", "reserve",
                       "setRebooting", "begin", "rebootCmd", "rolledBack",
                       "guarded", "ended", "delete", "done"}]
    /\ rebootJob \in [Ids -> RebootIds \cup {None}]
    /\ persist \in [Writers -> {"idle", "called", "write"}]
    /\ snapshot \in [Writers -> [Ids -> Status] \cup {None}]
    /\ deleting \in Ids \cup {None}
    /\ file \in [Ids -> Status] \cup {None}
    /\ legacy \in [Ids -> Status] \cup {None}
    /\ phase \in {"down", "migrating", "flush", "up"}
    /\ boot \in Nat
    /\ deaths \in 0..MaxDeaths
    /\ errors \in 0..MaxErrors
    /\ promised \in [Ids -> Terminal \cup {"none", "Deleted"}]
    /\ rebooted \subseteq Ids

\* The number of jobs created after j.
Newer(j) == Cardinality({k \in Ids : created[k] > created[j]})

\* An end that a persist call has recorded is what every later startup
\* reports, through any number of deaths: a finished job keeps its end unless
\* Retention newer jobs were created, a deleted one does not come back
\* (complete_job, delete_job, the flush after recovery; "concurrent
\* persist_all_jobs calls cannot clobber each other").
PromisesKept ==
    phase = "up" =>
        \A j \in Ids :
            /\ promised[j] \in Terminal =>
                  \/ jobs[j] = promised[j]
                  \/ jobs[j] = "Absent" /\ Newer(j) >= Retention
            /\ promised[j] = "Deleted" => jobs[j] = "Absent"

\* "A process restart is NOT a reboot": a job that was active when the machine
\* went down is never reported as interrupted by a mere process restart.
RestartIsNoReboot ==
    \A j \in rebooted : jobs[j] # "AgentRestarted"

\* An internal cache-refresh job never surfaces as a job that the agent's
\* restart broke, not even one found in the file of an older agent.
InternalNeverInterrupted ==
    \A j \in Ids : IsInternal(j) => jobs[j] \notin Interrupted

\* No active record is taken over by startup: everything that is active while
\* the server is up has a task of this process.
ActiveHasTask ==
    \A j \in Ids : jobs[j] \in Active =>
        \/ pc[j] \notin {"idle", "done", "ended"}
        \/ jobs[j] = "Rebooting" /\ pc[j] = "done" /\ reboot_pending # None

=============================================================================
