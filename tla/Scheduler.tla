------------------------------ MODULE Scheduler ------------------------------
(***************************************************************************)
(* The operation scheduler of linux-patch-api (src/src/jobs/scheduler.rs)  *)
(* together with the handler tasks that drive it.                          *)
(*                                                                         *)
(* One SchedulerState lives behind one tokio Mutex.  Every method locks    *)
(* it, changes it and unlocks it, so one locked section is one action      *)
(* here, and the awaits between two locked sections are the places where   *)
(* tasks interleave: pc[t] is the await task t is suspended at.  A task    *)
(* is named by the id of the job it works for.                             *)
(***************************************************************************)
EXTENDS Naturals, Sequences, FiniteSets

CONSTANTS
    JobIds,         \* fresh uuids for install, refresh, patch, ... jobs
    RebootIds,      \* fresh uuids for reboot jobs
    None,           \* Option::None
    MaxConcurrent,  \* jobs that may be Running at once, and ...
    MaxQueueDepth,  \* ... active user jobs that may be admitted: the limits of
                    \* the configuration, of which new makes at least 1
    Requests,       \* the operations clients ask for in this instance
    MayDrop         \* "caller": a caller of dispatch_mutation may be dropped;
                    \* "handler": the HTTP reboot handler may be dropped

Ids == JobIds \cup RebootIds

AllRequests == {"Install", "Refresh", "PatchApply", "SelfUpdate", "Rollback",
                "Delete", "Reboot", "ForceReboot", "AckReboot", "Freeze"}

ASSUME SchedulerAssumption ==
    /\ JobIds \cap RebootIds = {}
    /\ None \notin Ids
    /\ MaxConcurrent \in Nat \ {0}
    /\ MaxQueueDepth \in Nat \ {0}
    /\ Requests \subseteq AllRequests
    /\ MayDrop \subseteq {"caller", "handler"}

VARIABLES
    admission,            \* AdmissionMode; nothing ever sets Recovery
    status,               \* jobs: status of each record, "Absent" if none
    op,                   \* what each id was created for
    active_mutation,      \* owner of the package-mutation slot
    mutation_generation,  \* counts the acquisitions of the slot
    self_update,          \* job_id of the reserved self-update
    reboot_pending,       \* job_id of the reserved reboot
    permit,               \* tokio Notify: the one stored notification
    waiters,              \* tokio Notify: FIFO of parked tasks
    pc,                   \* the await each task is suspended at
    gen,                  \* generation captured by each watchdog
    watchdog,             \* the task dispatch_mutation spawns for a job
    closure,              \* the blocking package-manager operation of a job
    result,               \* content of the oneshot channel of a job
    rebootJob,            \* RebootReservationGuard held by a patch task
    tier                  \* history: force tier of the reserved reboot

vars == <<admission, status, op, active_mutation, mutation_generation,
          self_update, reboot_pending, permit, waiters, pc, gen, watchdog,
          closure, result, rebootJob, tier>>

notifyVars == <<permit, waiters, pc>>
slotVars   == <<active_mutation, mutation_generation, gen>>
taskVars   == <<watchdog, closure, result>>

-----------------------------------------------------------------------------
Status   == {"Absent", "Pending", "Running", "Rebooting", "Completed", "Failed"}
Terminal == {"Completed", "Failed"}
Active   == {"Pending", "Running", "Rebooting"}

Ops == {"none", "Install", "Refresh", "PatchApply", "SelfUpdate",
        "Rollback", "RefreshRollback", "Reboot"}

Tiers == {"plain", "force", "ack"}

JobPcs == {"idle", "dispatch", "parking", "parked", "woken", "acquired",
           "await", "complete", "fail", "delete", "release", "reserve",
           "reserved", "setRebooting", "begin", "rebootCmd", "rollback",
           "done", "dropped"}

RebootPcs == {"idle", "reserved", "begin", "rebootCmd", "rollback",
              "guarded", "guardDrop", "done", "dropped"}

\* Job::is_internal: the packages carry the sentinel of a cache refresh
\* (create_rollback_job copies the packages of the original job).
IsInternal(j) == op[j] \in {"Refresh", "RefreshRollback"}

\* The user-facing active jobs, the ones the admission gates count.
ActiveJobs == {j \in Ids : status[j] \in Active /\ ~IsInternal(j)}

RunningJobs == {j \in Ids : status[j] = "Running"}

\* The reboot job a task executes: its own, or the one its guard holds.
RebootJob(t) == IF t \in RebootIds THEN t ELSE rebootJob[t]

\* Mutant: a notification that finds nobody parked is lost (notify_waiters).
NotifyParkedOnly(p) ==
    /\ UNCHANGED permit
    /\ IF waiters = <<>>
       THEN pc' = p /\ UNCHANGED waiters
       ELSE /\ pc' = [p EXCEPT ![Head(waiters)] = "woken"]
            /\ waiters' = Tail(waiters)

\* Notify::notify_one, called under the scheduler lock: the longest parked
\* task becomes runnable, or the single permit is stored.  p is pc as the
\* caller's own step leaves it.
NotifyOne(p) ==
    IF waiters = <<>>
    THEN /\ permit' = TRUE
         /\ pc' = p
         /\ UNCHANGED waiters
    ELSE /\ pc' = [p EXCEPT ![Head(waiters)] = "woken"]
         /\ waiters' = Tail(waiters)
         /\ UNCHANGED permit

GoTo(t, l) == [pc EXCEPT ![t] = l]

-----------------------------------------------------------------------------
Init ==
    /\ admission = "Open"
    /\ status = [j \in Ids |-> "Absent"]
    /\ op = [j \in Ids |-> "none"]
    /\ active_mutation = None
    /\ mutation_generation = 0
    /\ self_update = None
    /\ reboot_pending = None
    /\ permit = FALSE
    /\ waiters = <<>>
    /\ pc = [t \in Ids |-> "idle"]
    /\ gen = [j \in JobIds |-> 0]
    /\ watchdog = [j \in JobIds |-> "none"]
    /\ closure = [j \in JobIds |-> "none"]
    /\ result = [j \in JobIds |-> "none"]
    /\ rebootJob = [j \in JobIds |-> None]
    /\ tier = "none"

-----------------------------------------------------------------------------
(* Admission *)

\* The checks of admit_job_inner.
CanAdmit ==
    /\ admission = "Open"
    /\ self_update = None
    /\ reboot_pending = None
    /\ Cardinality(ActiveJobs) < MaxQueueDepth

\* admit_job from the install, update, remove and patch handlers and from the
\* background cache refreshes; the handler spawns the job's task at once.
AdmitJob(j, o) ==
    /\ pc[j] = "idle"
    /\ CanAdmit
    /\ status' = [status EXCEPT ![j] = "Pending"]
    /\ op' = [op EXCEPT ![j] = o]
    /\ NotifyOne(GoTo(j, "dispatch"))
    /\ UNCHANGED <<admission, slotVars, self_update, reboot_pending, taskVars,
                   rebootJob, tier>>

\* create_rollback_job: a Pending record for which no task is ever spawned.
CreateRollbackJob(j) ==
    /\ pc[j] = "idle"
    /\ \E original \in Ids :
          /\ status[original] \in Terminal
          /\ CanAdmit
          /\ op' = [op EXCEPT ![j] = IF IsInternal(original)
                                     THEN "RefreshRollback" ELSE "Rollback"]
    /\ status' = [status EXCEPT ![j] = "Pending"]
    /\ NotifyOne(GoTo(j, "done"))
    /\ UNCHANGED <<admission, slotVars, self_update, reboot_pending, taskVars,
                   rebootJob, tier>>

\* The slot is free or held by a recorded internal job (a cache refresh).
SlotFreeOrInternal ==
    active_mutation \in {None} \cup {j \in JobIds : status[j] # "Absent" /\ IsInternal(j)}

\* try_reserve_self_update; the handler commits the guard and spawns the task.
TryReserveSelfUpdate(j) ==
    /\ pc[j] = "idle"
    /\ admission = "Open"
    /\ self_update = None
    /\ reboot_pending = None
    /\ SlotFreeOrInternal
    /\ ActiveJobs = {}
    /\ MaxQueueDepth # 0
    /\ self_update' = j
    /\ status' = [status EXCEPT ![j] = "Pending"]
    /\ op' = [op EXCEPT ![j] = "SelfUpdate"]
    /\ NotifyOne(GoTo(j, "dispatch"))
    /\ UNCHANGED <<admission, slotVars, reboot_pending, taskVars, rebootJob, tier>>

-----------------------------------------------------------------------------
(* Reboot reservation *)

\* Mutant: without force only a self-update is looked for.
CanRebootAnyJobs(k) ==
    /\ admission = "Open"
    /\ reboot_pending = None
    /\ k \in {"plain", "force"} => self_update = None
    /\ k = "force" => active_mutation = None
    /\ Cardinality(ActiveJobs) < MaxQueueDepth

\* The admission checks of reserve_reboot for each force tier.
CanReboot(k) ==
    /\ admission = "Open"
    /\ reboot_pending = None
    /\ k = "plain" => self_update = None /\ ActiveJobs = {}
    /\ k = "force" => self_update = None /\ active_mutation = None
    /\ Cardinality(ActiveJobs) < MaxQueueDepth

\* Mutant: the freshly inserted reboot job is not excluded.
FailEveryPending(r) ==
    [j \in Ids |-> IF j = r \/ status[j] = "Pending" THEN "Failed" ELSE status[j]]

\* Mutant: whatever does not run is cancelled, what has ended included.
FailAllButRunning(r) ==
    [j \in Ids |-> IF j = r THEN "Pending"
                   ELSE IF status[j] \in {"Absent", "Running"} THEN status[j] ELSE "Failed"]

\* Every other Pending job is failed by the reservation.
FailPending(r) ==
    [j \in Ids |-> IF j = r THEN "Pending"
                   ELSE IF status[j] = "Pending" THEN "Failed" ELSE status[j]]

\* The locked section of reserve_reboot; p is pc as its caller leaves it.
ReserveReboot(r, k, p) ==
    /\ pc[r] = "idle"
    /\ CanReboot(k)
    /\ reboot_pending' = r
    /\ op' = [op EXCEPT ![r] = "Reboot"]
    /\ tier' = k
    /\ status' = FailPending(r)
    /\ NotifyOne(p)
    /\ UNCHANGED <<admission, slotVars, self_update, taskVars>>

\* POST /system/reboot: admit_reboot inside the HTTP handler.
AdmitReboot(r, k) ==
    /\ ReserveReboot(r, k, GoTo(r, "reserved"))
    /\ UNCHANGED rebootJob

\* apply_patches succeeded and a reboot is due: reserve_reboot(true, false).
\* A rejected reservation completes the patch job without a reboot.
PatchReserveReboot(t) ==
    /\ pc[t] = "reserve"
    /\ \/ \E r \in RebootIds :
             /\ ReserveReboot(r, "force",
                              [pc EXCEPT ![t] = "reserved", ![r] = "guarded"])
             /\ rebootJob' = [rebootJob EXCEPT ![t] = r]
       \/ /\ ~CanReboot("force")
          /\ pc' = GoTo(t, "complete")
          /\ UNCHANGED <<admission, status, op, slotVars, self_update,
                         reboot_pending, permit, waiters, taskVars, rebootJob, tier>>

\* persist_jobs returns inside reserve_reboot and the guard is built.  The
\* HTTP handler commits it and spawns the reboot task.
ReserveReturns(t) ==
    /\ pc[t] = "reserved"
    /\ pc' = GoTo(t, IF t \in RebootIds THEN "begin" ELSE "setRebooting")
    /\ UNCHANGED <<admission, status, op, slotVars, self_update, reboot_pending,
                   permit, waiters, taskVars, rebootJob, tier>>

\* The HTTP reboot handler is dropped at the persist_jobs await of
\* reserve_reboot, where no guard exists yet.
HandlerDropped(r) ==
    /\ "handler" \in MayDrop
    /\ pc[r] = "reserved"
    /\ pc' = GoTo(r, "dropped")
    /\ UNCHANGED <<admission, status, op, slotVars, self_update, reboot_pending,
                   permit, waiters, taskVars, rebootJob, tier>>

\* set_job_rebooting on the patch job; its error result is ignored.
SetJobRebooting(t) ==
    /\ pc[t] = "setRebooting"
    /\ IF status[t] = "Running"
       THEN /\ status' = [status EXCEPT ![t] = "Rebooting"]
            /\ NotifyOne(GoTo(t, "begin"))
       ELSE /\ pc' = GoTo(t, "begin")
            /\ UNCHANGED <<status, permit, waiters>>
    /\ UNCHANGED <<admission, op, slotVars, self_update, reboot_pending,
                   taskVars, rebootJob, tier>>

\* begin_reboot_execution by the reboot task or by the patch task.
BeginRebootExecution(t) ==
    LET r == RebootJob(t) IN
    /\ pc[t] = "begin"
    /\ IF reboot_pending = r /\ status[r] = "Pending"
       THEN /\ status' = [status EXCEPT ![r] = "Rebooting"]
            /\ NotifyOne(GoTo(t, "rebootCmd"))
       ELSE /\ pc' = GoTo(t, IF t \in RebootIds THEN "done" ELSE "complete")
            /\ UNCHANGED <<status, permit, waiters>>
    /\ UNCHANGED <<admission, op, slotVars, self_update, reboot_pending,
                   taskVars, rebootJob, tier>>

\* The backend's reboot command returned Ok: the patch task commits its guard;
\* the reservation stays until the machine goes down.
RebootCommandOk(t) ==
    /\ pc[t] = "rebootCmd"
    /\ pc' = [pc EXCEPT ![t] = "done", ![RebootJob(t)] = "done"]
    /\ rebootJob' = [j \in JobIds |-> IF j = t THEN None ELSE rebootJob[j]]
    /\ UNCHANGED <<admission, status, op, slotVars, self_update, reboot_pending,
                   permit, waiters, taskVars, tier>>

RebootCommandErr(t) ==
    /\ pc[t] = "rebootCmd"
    /\ pc' = GoTo(t, "rollback")
    /\ UNCHANGED <<admission, status, op, slotVars, self_update, reboot_pending,
                   permit, waiters, taskVars, rebootJob, tier>>

\* Mutant: reboot_pending is cleared without comparing the owner.
RollbackAnyReboot(r, p) ==
    /\ reboot_pending' = None
    /\ tier' = "none"
    /\ status' = [status EXCEPT ![r] = IF @ = "Absent" THEN @ ELSE "Failed"]
    /\ NotifyOne(p)
    /\ UNCHANGED <<admission, op, slotVars, self_update, taskVars, rebootJob>>

\* Mutant: the job is failed and its reservation stays.
RollbackKeepsReservation(r, p) ==
    /\ status' = [status EXCEPT ![r] = IF @ = "Absent" THEN @ ELSE "Failed"]
    /\ NotifyOne(p)
    /\ UNCHANGED <<admission, op, slotVars, self_update, reboot_pending, tier,
                   taskVars, rebootJob>>

\* rollback_reboot(r, Some(error)); only the owner's call has an effect.
RollbackReboot(r, p) ==
    /\ IF reboot_pending = r
       THEN /\ reboot_pending' = None
            /\ tier' = "none"
            /\ status' = [status EXCEPT ![r] = IF @ = "Absent" THEN @ ELSE "Failed"]
            /\ NotifyOne(p)
       ELSE /\ pc' = p
            /\ UNCHANGED <<reboot_pending, tier, status, permit, waiters>>
    /\ UNCHANGED <<admission, op, slotVars, self_update, taskVars, rebootJob>>

\* The reboot command failed: the task rolls its own reservation back.
RebootFailed(t) ==
    /\ pc[t] = "rollback"
    /\ RollbackReboot(RebootJob(t),
                      GoTo(t, IF t \in RebootIds THEN "done" ELSE "complete"))

\* The uncommitted guard of a patch task goes out of scope after complete_job:
\* Drop spawns a task that calls rollback_reboot once more.
GuardDrop(r) ==
    /\ pc[r] = "guardDrop"
    /\ RollbackReboot(r, GoTo(r, "done"))

-----------------------------------------------------------------------------
(* dispatch_mutation *)

\* Mutant: a reserved reboot does not reject mutations.
RejectedUnlessReboot(j) ==
    \/ admission = "Frozen"
    \/ self_update \notin {None, j}

\* The early returns of the wait loop: closed admission, a reserved reboot,
\* another job's self-update.
Rejected(j) ==
    \/ admission = "Frozen"
    \/ reboot_pending # None
    \/ self_update \notin {None, j}

\* Mutant: only max_concurrent is waited for.
WaitForCountOnly(j) ==
    status[j] # "Running" /\ Cardinality(RunningJobs) >= MaxConcurrent

\* Mutant: off by one in the max_concurrent comparison.
WaitPastLimit(j) ==
    \/ status[j] # "Running" /\ Cardinality(RunningJobs) > MaxConcurrent
    \/ active_mutation # None

\* The conditions the wait loop parks on.
MustWait(j) ==
    \/ status[j] # "Running" /\ Cardinality(RunningJobs) >= MaxConcurrent
    \/ active_mutation # None

DispatchReject(j) ==
    /\ pc[j] \in {"dispatch", "woken"}
    /\ Rejected(j)
    /\ pc' = GoTo(j, "fail")
    /\ UNCHANGED <<admission, status, op, slotVars, self_update, reboot_pending,
                   permit, waiters, taskVars, rebootJob, tier>>

\* The lock is released before the Notified future is polled.
DispatchWait(j) ==
    /\ pc[j] \in {"dispatch", "woken"}
    /\ ~Rejected(j)
    /\ MustWait(j)
    /\ pc' = GoTo(j, "parking")
    /\ UNCHANGED <<admission, status, op, slotVars, self_update, reboot_pending,
                   permit, waiters, taskVars, rebootJob, tier>>

\* First poll of Notify::notified: take the stored permit or join the queue.
PollNotified(j) ==
    /\ pc[j] = "parking"
    /\ IF permit
       THEN /\ permit' = FALSE
            /\ pc' = GoTo(j, "dispatch")
            /\ UNCHANGED waiters
       ELSE /\ waiters' = Append(waiters, j)
            /\ pc' = GoTo(j, "parked")
            /\ UNCHANGED permit
    /\ UNCHANGED <<admission, status, op, slotVars, self_update, reboot_pending,
                   taskVars, rebootJob, tier>>

\* Both slots are free: take them.  A record, if there still is one, becomes
\* Running whatever its status was.
DispatchAcquire(j) ==
    /\ pc[j] \in {"dispatch", "woken"}
    /\ ~Rejected(j)
    /\ ~MustWait(j)
    /\ active_mutation' = j
    /\ mutation_generation' = mutation_generation + 1
    /\ gen' = [gen EXCEPT ![j] = mutation_generation + 1]
    /\ status' = [status EXCEPT ![j] = IF @ = "Absent" THEN @ ELSE "Running"]
    /\ pc' = GoTo(j, "acquired")
    /\ UNCHANGED <<admission, op, self_update, reboot_pending, permit, waiters,
                   taskVars, rebootJob, tier>>

\* persist_jobs returns: the watchdog task and its blocking closure start.
SpawnWatchdog(j) ==
    /\ pc[j] = "acquired"
    /\ watchdog' = [watchdog EXCEPT ![j] = "running"]
    /\ closure' = [closure EXCEPT ![j] = "exec"]
    /\ pc' = GoTo(j, "await")
    /\ UNCHANGED <<admission, status, op, slotVars, self_update, reboot_pending,
                   permit, waiters, result, rebootJob, tier>>

\* The blocking operation returns Ok, or Err / panics.  Nobody looks at what
\* a detached one returns.
ClosureExits(j) ==
    /\ closure[j] = "exec"
    /\ \E outcome \in {"ok", "err", "none"} :
          /\ (outcome = "none") <=> (watchdog[j] = "none")
          /\ closure' = [closure EXCEPT ![j] = outcome]
    /\ UNCHANGED <<admission, status, op, slotVars, self_update, reboot_pending,
                   notifyVars, watchdog, result, rebootJob, tier>>

\* Mutant: the generation is compared with the next one.
OwnsNext(j) == active_mutation = j /\ mutation_generation = gen[j] + 1

\* still_owns: the slot was not handed to a newer operation.
StillOwns(j) == active_mutation = j /\ mutation_generation = gen[j]

\* Mutant: only an error of the closure is an error.
OutcomeUnlessErr(j) == IF closure[j] = "err" THEN "err" ELSE "ok"

\* What the watchdog reports: an elapsed backstop is an error.
Outcome(j) == IF closure[j] = "ok" THEN "ok" ELSE "err"

\* The watchdog's locked section, entered when the closure has exited or, with
\* the closure still executing, when the backstop has elapsed (an Err result).
WatchdogFinalize(j) ==
    LET callerAlive == pc[j] = "await" IN
    /\ watchdog[j] = "running"
    /\ watchdog' = [watchdog EXCEPT ![j] = "none"]
    /\ gen' = [gen EXCEPT ![j] = 0]
    /\ closure' = [closure EXCEPT ![j] = IF @ = "exec" THEN "exec" ELSE "none"]
    /\ active_mutation' = IF StillOwns(j) THEN None ELSE active_mutation
    /\ result' = IF callerAlive
                 THEN [result EXCEPT ![j] = Outcome(j)]
                 ELSE result
    /\ status' = IF /\ ~callerAlive
                    /\ StillOwns(j)
                    /\ status[j] \in {"Running", "Pending"}
                 THEN [status EXCEPT ![j] = "Failed"]
                 ELSE status
    /\ NotifyOne(pc)
    /\ UNCHANGED <<admission, op, mutation_generation, self_update,
                   reboot_pending, rebootJob, tier>>

\* The caller gets the result.  A successful patch task may find that a
\* reboot is required and permitted (allow_reboot).
ReceiveResult(j) ==
    /\ pc[j] = "await"
    /\ result[j] # "none"
    /\ \E l \in {"complete", "fail", "reserve"} :
          /\ (l = "fail") <=> (result[j] = "err")
          /\ l = "reserve" => op[j] = "PatchApply"
          /\ pc' = GoTo(j, l)
    /\ result' = [result EXCEPT ![j] = "none"]
    /\ UNCHANGED <<admission, status, op, slotVars, self_update, reboot_pending,
                   permit, waiters, watchdog, closure, rebootJob, tier>>

\* The future of dispatch_mutation is dropped at one of its awaits.  A parked
\* task leaves the queue.  A woken one hands its notification on, unless it
\* had already taken it and waited for the scheduler lock.
CallerDropped(j) ==
    /\ "caller" \in MayDrop
    /\ \/ /\ pc[j] \in {"dispatch", "woken", "parking", "acquired", "await"}
          /\ pc' = GoTo(j, "dropped")
          /\ UNCHANGED <<permit, waiters>>
       \/ /\ pc[j] = "parked"
          /\ \E i \in 1..Len(waiters) :
                /\ waiters[i] = j
                /\ waiters' = SubSeq(waiters, 1, i - 1)
                                 \o SubSeq(waiters, i + 1, Len(waiters))
          /\ pc' = GoTo(j, "dropped")
          /\ UNCHANGED permit
       \/ /\ pc[j] = "woken"
          /\ NotifyOne(GoTo(j, "dropped"))
    /\ UNCHANGED <<admission, status, op, slotVars, self_update, reboot_pending,
                   taskVars, rebootJob, tier>>

-----------------------------------------------------------------------------
(* After dispatch_mutation: the rest of the handler task *)

\* Mutant: the self-update task forgets its reservation.
AfterFinishNoRelease(j) == IF op[j] = "Refresh" THEN "delete" ELSE "done"

\* Where a task goes after complete_job or fail_job: a refresh deletes its
\* tracking record, a self-update releases its reservation.
AfterFinish(j) ==
    CASE op[j] = "Refresh"    -> "delete"
      [] op[j] = "SelfUpdate" -> "release"
      [] OTHER                -> "done"

\* complete_job / fail_job / fail_job_with_diagnostics: whatever the status
\* was, if the record exists.
FinishJob(j, s, p) ==
    /\ status' = [status EXCEPT ![j] = IF @ = "Absent" THEN @ ELSE s]
    /\ NotifyOne(p)
    /\ UNCHANGED <<admission, op, slotVars, self_update, reboot_pending,
                   taskVars, tier>>

\* A patch task that still holds its guard drops it after complete_job.
CompleteJob(j) ==
    /\ pc[j] = "complete"
    /\ FinishJob(j, "Completed",
                 [t \in Ids |-> IF t = j THEN AfterFinish(j)
                                ELSE IF t = rebootJob[j] THEN "guardDrop" ELSE pc[t]])
    /\ rebootJob' = [rebootJob EXCEPT ![j] = None]

FailJob(j) ==
    /\ pc[j] = "fail"
    /\ FinishJob(j, "Failed", GoTo(j, AfterFinish(j)))
    /\ UNCHANGED rebootJob

\* delete_job on the tracking record of a cache refresh.
DeleteTrackingJob(j) ==
    /\ pc[j] = "delete"
    /\ status' = IF status[j] \in Terminal
                 THEN [status EXCEPT ![j] = "Absent"] ELSE status
    /\ pc' = GoTo(j, "done")
    /\ UNCHANGED <<admission, op, slotVars, self_update, reboot_pending,
                   permit, waiters, taskVars, rebootJob, tier>>

\* release_self_update: only the owner's call has an effect.
ReleaseSelfUpdate(j) ==
    /\ pc[j] = "release"
    /\ IF self_update = j
       THEN /\ self_update' = None
            /\ NotifyOne(GoTo(j, "done"))
       ELSE /\ pc' = GoTo(j, "done")
            /\ UNCHANGED <<self_update, permit, waiters>>
    /\ UNCHANGED <<admission, status, op, slotVars, reboot_pending, taskVars,
                   rebootJob, tier>>

-----------------------------------------------------------------------------
(* Requests of clients and of the shutdown sequence *)

\* DELETE /jobs/{id}: only a terminal record is removed.
DeleteJob(j) ==
    /\ status[j] \in Terminal
    /\ status' = [status EXCEPT ![j] = "Absent"]
    /\ UNCHANGED <<admission, op, slotVars, self_update, reboot_pending,
                   notifyVars, taskVars, rebootJob, tier>>

\* SIGTERM: freeze_admission.
FreezeAdmission ==
    /\ admission' = "Frozen"
    /\ NotifyOne(pc)
    /\ UNCHANGED <<status, op, slotVars, self_update, reboot_pending,
                   taskVars, rebootJob, tier>>

Environment ==
    \/ \E j \in JobIds :
          \/ \E o \in Requests \cap {"Install", "Refresh", "PatchApply"} : AdmitJob(j, o)
          \/ "SelfUpdate" \in Requests /\ TryReserveSelfUpdate(j)
          \/ "Rollback" \in Requests /\ CreateRollbackJob(j)
    \/ \E r \in RebootIds :
          \/ "Reboot" \in Requests /\ AdmitReboot(r, "plain")
          \/ "ForceReboot" \in Requests /\ AdmitReboot(r, "force")
          \/ "AckReboot" \in Requests /\ AdmitReboot(r, "ack")
    \/ "Delete" \in Requests /\ \E j \in Ids : DeleteJob(j)
    \/ "Freeze" \in Requests /\ admission = "Open" /\ FreezeAdmission

\* The dispatch and the completion steps of the task of job j.
JobTask(j) ==
    \/ DispatchReject(j)
    \/ DispatchWait(j)
    \/ PollNotified(j)
    \/ DispatchAcquire(j)
    \/ SpawnWatchdog(j)
    \/ ReceiveResult(j)
    \/ PatchReserveReboot(j)
    \/ SetJobRebooting(j)
    \/ CompleteJob(j)
    \/ FailJob(j)
    \/ DeleteTrackingJob(j)
    \/ ReleaseSelfUpdate(j)

\* The reboot steps, of a reboot task or of a patch task.
RebootTask(t) ==
    \/ ReserveReturns(t)
    \/ BeginRebootExecution(t)
    \/ RebootCommandOk(t)
    \/ RebootCommandErr(t)
    \/ RebootFailed(t)

Next ==
    \/ Environment
    \/ \E j \in JobIds : JobTask(j)
    \/ \E t \in Ids : RebootTask(t)
    \/ \E r \in RebootIds : GuardDrop(r)
    \/ \E j \in JobIds : ClosureExits(j)
    \/ \E j \in JobIds : WatchdogFinalize(j)
    \/ \E j \in JobIds : CallerDropped(j)
    \/ \E r \in RebootIds : HandlerDropped(r)

Spec == Init /\ [][Next]_vars

\* Tokio polls every runnable task again and again, and the watchdog's timer
\* fires.  Nothing is assumed of clients, of SIGTERM, of drops, nor of a
\* closure: a package manager may hang for ever.
Fairness ==
    /\ \A j \in JobIds : WF_vars(JobTask(j)) /\ WF_vars(WatchdogFinalize(j))
    /\ \A t \in Ids : WF_vars(RebootTask(t))
    /\ \A r \in RebootIds : WF_vars(GuardDrop(r))

FairSpec == Spec /\ Fairness

-----------------------------------------------------------------------------
(* Properties *)

\* Every variable has its type; tasks of reboot jobs never enter the wait loop.
TypeOK ==
    /\ admission \in {"Open", "Frozen"}
    /\ status \in [Ids -> Status]
    /\ op \in [Ids -> Ops]
    /\ active_mutation \in JobIds \cup {None}
    /\ mutation_generation \in Nat
    /\ self_update \in JobIds \cup {None}
    /\ reboot_pending \in RebootIds \cup {None}
    /\ permit \in BOOLEAN
    /\ waiters \in Seq(JobIds)
    /\ pc \in [Ids -> JobPcs \cup RebootPcs]
    /\ \A j \in JobIds : pc[j] \in JobPcs
    /\ \A r \in RebootIds : pc[r] \in RebootPcs
    /\ gen \in [JobIds -> Nat]
    /\ watchdog \in [JobIds -> {"none", "running"}]
    /\ closure \in [JobIds -> {"none", "exec", "ok", "err"}]
    /\ result \in [JobIds -> {"none", "ok", "err"}]
    /\ rebootJob \in [JobIds -> RebootIds \cup {None}]
    /\ tier \in Tiers \cup {"none"}

\* Job j has passed the wait loop and its watchdog has not finalized it yet.
Holding(j) == pc[j] = "acquired" \/ watchdog[j] = "running"

\* At most one mutation is between acquisition and finalization, and the
\* active_mutation field names it (dispatch_mutation: "At most one mutation
\* runs at a time").
OneMutation ==
    \A j \in JobIds : Holding(j) =>
        /\ active_mutation = j
        /\ \A k \in JobIds \ {j} : ~Holding(k)

\* The slot is never left behind: a job named by active_mutation still has the
\* caller that will spawn its watchdog or the watchdog that will clear it.
SlotHasHolder ==
    \A j \in JobIds : active_mutation = j => Holding(j)

\* While a self-update is reserved, the only other mutation under way is a
\* background cache refresh that held the slot before
\* (try_reserve_self_update with the barrier of dispatch_mutation).
SelfUpdateExclusive ==
    self_update # None =>
        \A j \in JobIds : Holding(j) => j = self_update \/ IsInternal(j)

\* From the reservation of a forced reboot without the corruption
\* acknowledgement (and of every reboot after patching) until it is rolled
\* back, no mutation is under way and no self-update is reserved.
ForcedRebootFence ==
    (reboot_pending # None /\ tier = "force") =>
        /\ self_update = None
        /\ \A j \in JobIds : ~Holding(j)

\* While a reboot without force is reserved, what may be under way is a cache
\* refresh, which reserve_reboot does not look for, or an operation whose record
\* was deleted while it was queued; never a recorded user job.
PlainRebootFence ==
    (reboot_pending # None /\ tier = "plain") =>
        \A j \in JobIds : Holding(j) => IsInternal(j) \/ status[j] = "Absent"

\* The backstop gives the slot away while a hung operation still executes; its
\* job is then never reported as Completed.
DetachedNeverCompletes ==
    \A j \in JobIds : closure[j] = "exec" => status[j] # "Completed"

\* begin_reboot_execution never returns false: whoever is about to call it owns
\* the reservation and its reboot job was not failed by anybody else.
OwnerBegins ==
    \A t \in Ids : pc[t] = "begin" =>
        /\ reboot_pending = RebootJob(t)
        /\ status[RebootJob(t)] = "Pending"

\* No more than max_concurrent jobs are Running, although a job stays Running
\* after its slot went to the next one, until its task calls complete_job.
ConcurrencyBound == Cardinality(RunningJobs) <= MaxConcurrent

\* A reboot reservation is cleared only by the task that owns it: a guard
\* dropped late never clears the reservation of a newer reboot.
ReservationClearedByOwner ==
    [][(reboot_pending # None /\ reboot_pending' # reboot_pending) =>
          /\ reboot_pending' = None
          /\ \E t \in Ids : pc[t] = "rollback" /\ RebootJob(t) = reboot_pending]_vars

\* Where a task is about to test the slot again, holds it, or is on its way to the
\* notification that ends its turn.
Driving == {"dispatch", "woken", "acquired", "await", "complete", "fail", "reserve"}

\* Nothing keeps the task from its next step: at the await the result is in the
\* channel, or a watchdog runs that will put it there.
CanGoOn(k) ==
    /\ pc[k] \in Driving
    /\ pc[k] = "await" => watchdog[k] = "running" \/ result[k] # "none"

\* Nobody is forgotten in the queue: while a task is parked in dispatch_mutation,
\* another can go on and leads to the next notification, although the test and
\* the first poll of notified() are two steps and a release wakes one waiter.
NoLostWakeup ==
    (\E j \in JobIds : pc[j] = "parked") => \E k \in JobIds : CanGoOn(k)

\* What a client read as the end of a job stays its end until the record is
\* deleted: no watchdog, late guard, reservation or other task reports a second
\* one.  The only exception is a job failed while it was queued: dispatch_mutation
\* does not ask whether the job is Pending, and starts it if the reservation that
\* failed it was rolled back meanwhile.
EndIsFinal ==
    [][\A j \in JobIds :
          status[j] \in Terminal /\ status'[j] \notin {status[j], "Absent"} =>
              /\ status[j] = "Failed" /\ status'[j] = "Running"
              /\ pc[j] \in {"dispatch", "woken"}]_vars

\* Every task that enters dispatch_mutation ends, with its job resolved, even
\* if the package manager hangs: no wakeup is lost although each release wakes
\* one waiter only.
DispatchedJobsFinish ==
    \A j \in JobIds :
        pc[j] = "dispatch" ~> pc[j] = "done" /\ status[j] \notin {"Pending", "Running"}

\* A self-update reservation is always released in the end.
SelfUpdateReleased == self_update # None ~> self_update = None

\* A reboot reservation is rolled back or reaches the reboot command.
ReservationResolves ==
    \A r \in RebootIds :
        reboot_pending = r ~> reboot_pending # r \/ status[r] = "Rebooting"

-----------------------------------------------------------------------------
(* The inductive invariant behind OneMutation, SelfUpdateExclusive,         *)
(* ForcedRebootFence, OwnerBegins and ReservationClearedByOwner             *)

\* Exactly the tasks suspended in Notified::await are queued, each once.
WaitersParked ==
    /\ \A i \in 1..Len(waiters) : pc[waiters[i]] = "parked"
    /\ \A i, k \in 1..Len(waiters) : waiters[i] = waiters[k] => i = k

\* A watchdog outlives at most the await of its caller, and the result is in
\* the channel only once the watchdog has finalized the job.
WatchdogPhase ==
    \A j \in JobIds :
        /\ watchdog[j] = "running" => result[j] = "none"
        /\ watchdog[j] = "running" \/ result[j] # "none" => pc[j] \in {"await", "dropped"}

\* Whoever holds the slot is named by it, with the generation it captured.
SlotOwned ==
    \A j \in JobIds : Holding(j) =>
        active_mutation = j /\ mutation_generation = gen[j]

BeforeReboot == {"reserved", "setRebooting", "begin"}
DuringReboot == {"rebootCmd", "rollback"}

\* A task between reserve_reboot and the end of the reboot owns the
\* reservation, and its reboot job has the status its progress implies.
ReservationOwned ==
    \A t \in Ids : pc[t] \in BeforeReboot \cup DuringReboot =>
        /\ reboot_pending = RebootJob(t)
        /\ reboot_pending # None
        /\ status[reboot_pending] = IF pc[t] \in BeforeReboot THEN "Pending" ELSE "Rebooting"

\* A guard is held by one patch task, until that task has completed its job;
\* by then, and when the guard is dropped, its reservation is gone.
GuardHeld ==
    /\ \A j \in JobIds : rebootJob[j] # None =>
          /\ pc[j] \in BeforeReboot \cup DuringReboot \cup {"complete"}
          /\ pc[rebootJob[j]] = "guarded"
          /\ pc[j] = "complete" => reboot_pending # rebootJob[j]
          /\ \A k \in JobIds \ {j} : rebootJob[k] # rebootJob[j]
    /\ \A r \in RebootIds : pc[r] = "guardDrop" => reboot_pending # r

\* Where the task of a self-update is until it has called release_self_update.
SelfUpdating == {"dispatch", "parking", "parked", "woken", "acquired", "await",
                 "complete", "fail", "release"}

\* No reservation is left behind: a self-update has the task that will release it,
\* a reboot the task that will execute it and roll it back if the command fails,
\* or a command that returned Ok and a machine about to go down.
ReservationsHeld ==
    /\ self_update # None => pc[self_update] \in SelfUpdating
    /\ reboot_pending # None =>
          \/ \E t \in Ids : /\ pc[t] \in BeforeReboot \cup DuringReboot
                            /\ RebootJob(t) = reboot_pending
          \/ pc[reboot_pending] = "done" /\ status[reboot_pending] = "Rebooting"

Inv ==
    /\ TypeOK
    /\ WaitersParked
    /\ WatchdogPhase
    /\ SlotOwned
    /\ SelfUpdateExclusive
    /\ ForcedRebootFence
    /\ ReservationOwned
    /\ GuardHeld

-----------------------------------------------------------------------------
(* The abstract specification the scheduler implements *)

Host == INSTANCE HostExclusion WITH
    Jobs       <- JobIds,
    Reboots    <- RebootIds,
    mutating   <- {j \in JobIds : Holding(j) /\ ~IsInternal(j)},
    refreshing <- {j \in JobIds : Holding(j) /\ IsInternal(j)},
    updating   <- self_update,
    rebooting  <- reboot_pending,
    strict     <- (tier = "force")

\* Every step of the scheduler, seen through who is between acquisition and
\* finalization and what is reserved, is a step HostExclusion allows: queue,
\* wakeups, generations, watchdogs and dropped callers do not show.
KeepsHostExclusion == Host!Spec

=============================================================================
