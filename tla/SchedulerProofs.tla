--------------------------- MODULE SchedulerProofs ---------------------------
(***************************************************************************)
(* Proofs about Scheduler for every set of ids, every queue and            *)
(* concurrency limit, every set of requests and with or without dropped    *)
(* futures.                                                                *)
(***************************************************************************)
EXTENDS Scheduler, FiniteSetTheorems, SequenceTheorems, TLAPS

Pcs == JobPcs \cup RebootPcs

-----------------------------------------------------------------------------
(* Notify::notify_one *)

\* notify_one keeps the types: only a job task is ever queued, and a woken
\* task is back at the top of the wait loop.
LEMMA NotifyOneType ==
    ASSUME TypeOK,
           NEW p \in [Ids -> Pcs],
           \A j \in JobIds : p[j] \in JobPcs,
           \A r \in RebootIds : p[r] \in RebootPcs,
           NotifyOne(p)
    PROVE  /\ permit' \in BOOLEAN
           /\ waiters' \in Seq(JobIds)
           /\ pc' \in [Ids -> Pcs]
           /\ \A j \in JobIds : pc'[j] \in JobPcs
           /\ \A r \in RebootIds : pc'[r] \in RebootPcs
<1>1. CASE waiters = <<>>
  BY <1>1 DEF NotifyOne, TypeOK
<1>2. CASE waiters # <<>>
  <2>1. Head(waiters) \in JobIds /\ Tail(waiters) \in Seq(JobIds)
    BY <1>2 DEF TypeOK
  <2>2. /\ pc' = [p EXCEPT ![Head(waiters)] = "woken"]
        /\ waiters' = Tail(waiters)
        /\ permit' = permit
    BY <1>2 DEF NotifyOne
  <2>3. Head(waiters) \notin RebootIds
    BY <2>1, SchedulerAssumption
  <2> QED
    BY <2>1, <2>2, <2>3 DEF TypeOK, Ids, Pcs, JobPcs
<1> QED
  BY <1>1, <1>2

\* p with one queue discipline: the queue holds parked tasks, each once.
QueueOf(p) ==
    /\ \A i \in 1..Len(waiters) : p[waiters[i]] = "parked"
    /\ \A i, k \in 1..Len(waiters) : waiters[i] = waiters[k] => i = k

\* A task is where p says, or it was parked and is now woken.
Moves(p, t) == pc'[t] = p[t] \/ (p[t] = "parked" /\ pc'[t] = "woken")

\* notify_one wakes at most one task, and one that was parked; the others stay
\* where they are and the queue still holds exactly parked tasks.
LEMMA NotifyOneEffect ==
    ASSUME TypeOK,
           NEW p \in [Ids -> Pcs],
           QueueOf(p),
           NotifyOne(p)
    PROVE  /\ \A t \in Ids : Moves(p, t)
           /\ WaitersParked'
<1>1. CASE waiters = <<>>
  BY <1>1 DEF NotifyOne, TypeOK, QueueOf, Moves, WaitersParked
<1>2. CASE waiters # <<>>
  <2> DEFINE h == Head(waiters)
  <2>1. /\ pc' = [p EXCEPT ![h] = "woken"]
        /\ waiters' = Tail(waiters)
    BY <1>2 DEF NotifyOne
  <2>2. /\ Len(waiters) \in Nat /\ Len(waiters) > 0
        /\ h = waiters[1]
        /\ Len(Tail(waiters)) = Len(waiters) - 1
        /\ \A i \in 1..Len(Tail(waiters)) : Tail(waiters)[i] = waiters[i + 1]
    BY <1>2 DEF TypeOK
  <2>3. p[h] = "parked" /\ h \in JobIds
    BY <2>2 DEF QueueOf, TypeOK
  <2>4. \A t \in Ids : Moves(p, t)
    BY <2>1, <2>3 DEF Moves, Ids
  <2>5. \A i \in 1..Len(waiters') : /\ i + 1 \in 1..Len(waiters)
                                    /\ waiters'[i] = waiters[i + 1]
                                    /\ waiters[i + 1] # h
                                    /\ waiters[i + 1] \in Ids
    BY <2>1, <2>2 DEF QueueOf, TypeOK, Ids
  <2>6. \A i \in 1..Len(waiters') : pc'[waiters'[i]] = "parked"
    BY <2>1, <2>5 DEF QueueOf
  <2>7. \A i, k \in 1..Len(waiters') : waiters'[i] = waiters'[k] => i = k
    <3> TAKE i, k \in 1..Len(waiters')
    <3>1. waiters'[i] = waiters'[k] => i + 1 = k + 1
      BY <2>5 DEF QueueOf
    <3>2. i \in Nat /\ k \in Nat
      BY <2>1, <2>2
    <3> QED
      BY <3>1, <3>2
  <2> QED
    BY <2>4, <2>6, <2>7 DEF WaitersParked
<1> QED
  BY <1>1, <1>2


-----------------------------------------------------------------------------
(* Type correctness *)

\* p is a value pc may take.
PcType(p) ==
    /\ p \in [Ids -> Pcs]
    /\ \A j \in JobIds : p[j] \in JobPcs
    /\ \A r \in RebootIds : p[r] \in RebootPcs

\* A task that moves to a place of its own kind keeps pc well typed.
LEMMA GoToType ==
    ASSUME TypeOK, NEW t \in Ids, NEW l,
           t \in JobIds => l \in JobPcs,
           t \in RebootIds => l \in RebootPcs
    PROVE  PcType(GoTo(t, l))
BY SchedulerAssumption DEF TypeOK, PcType, GoTo, Pcs, Ids

\* The same for a patch task and the reboot job it reserves.
LEMMA PatchReserveType ==
    ASSUME TypeOK, NEW j \in JobIds, NEW r \in RebootIds
    PROVE  PcType([pc EXCEPT ![j] = "reserved", ![r] = "guarded"])
BY SchedulerAssumption DEF TypeOK, PcType, Pcs, Ids, JobPcs, RebootPcs

\* NotifyOneType with the hypotheses and the conclusion folded.
LEMMA NotifyOnePcType ==
    ASSUME TypeOK, NEW p, PcType(p), NotifyOne(p)
    PROVE  permit' \in BOOLEAN /\ waiters' \in Seq(JobIds) /\ PcType(pc')
BY NotifyOneType DEF PcType


\* Every action of the scheduler preserves the type invariant.
LEMMA TypeStep == ASSUME TypeOK, Next PROVE TypeOK'
<1>1. ASSUME NEW j \in JobIds, NEW o \in Ops, AdmitJob(j, o) PROVE TypeOK'
  <2>1. PcType(GoTo(j, "dispatch"))
    BY <1>1, GoToType, SchedulerAssumption DEF AdmitJob, Ids, JobPcs, RebootPcs
  <2>2. permit' \in BOOLEAN /\ waiters' \in Seq(JobIds) /\ PcType(pc')
    BY <1>1, <2>1, NotifyOnePcType DEF AdmitJob
  <2> QED
    BY <1>1, <2>2 DEF AdmitJob, TypeOK, PcType, Pcs, Ids, slotVars, taskVars, Status
<1>2. ASSUME NEW j \in JobIds, CreateRollbackJob(j) PROVE TypeOK'
  <2>1. PcType(GoTo(j, "done"))
    BY <1>2, GoToType, SchedulerAssumption DEF CreateRollbackJob, Ids, JobPcs, RebootPcs
  <2>2. permit' \in BOOLEAN /\ waiters' \in Seq(JobIds) /\ PcType(pc')
    BY <1>2, <2>1, NotifyOnePcType DEF CreateRollbackJob
  <2> QED
    BY <1>2, <2>2 DEF CreateRollbackJob, TypeOK, PcType, Pcs, Ids, slotVars, taskVars, Status, Ops
<1>3. ASSUME NEW j \in JobIds, TryReserveSelfUpdate(j) PROVE TypeOK'
  <2>1. PcType(GoTo(j, "dispatch"))
    BY <1>3, GoToType, SchedulerAssumption DEF TryReserveSelfUpdate, Ids, JobPcs, RebootPcs
  <2>2. permit' \in BOOLEAN /\ waiters' \in Seq(JobIds) /\ PcType(pc')
    BY <1>3, <2>1, NotifyOnePcType DEF TryReserveSelfUpdate
  <2> QED
    BY <1>3, <2>2 DEF TryReserveSelfUpdate, TypeOK, PcType, Pcs, Ids, slotVars, taskVars, Status, Ops
<1>4. ASSUME NEW r \in RebootIds, NEW k \in Tiers, AdmitReboot(r, k) PROVE TypeOK'
  <2>1. PcType(GoTo(r, "reserved"))
    BY <1>4, GoToType, SchedulerAssumption DEF AdmitReboot, Ids, JobPcs, RebootPcs
  <2>2. permit' \in BOOLEAN /\ waiters' \in Seq(JobIds) /\ PcType(pc')
    BY <1>4, <2>1, NotifyOnePcType DEF AdmitReboot, ReserveReboot
  <2> QED
    BY <1>4, <2>2 DEF AdmitReboot, TypeOK, PcType, Pcs, Ids, slotVars, taskVars, Status, Ops, FailPending, ReserveReboot
<1>5. ASSUME NEW j \in JobIds, PatchReserveReboot(j) PROVE TypeOK'
  <2>1. ASSUME NEW r \in RebootIds,
               ReserveReboot(r, "force", [pc EXCEPT ![j] = "reserved", ![r] = "guarded"]),
               rebootJob' = [rebootJob EXCEPT ![j] = r]
        PROVE  TypeOK'
    <3>1. PcType([pc EXCEPT ![j] = "reserved", ![r] = "guarded"])
      BY PatchReserveType
    <3>2. permit' \in BOOLEAN /\ waiters' \in Seq(JobIds) /\ PcType(pc')
      BY <2>1, <3>1, NotifyOnePcType DEF ReserveReboot
    <3> QED
      BY <2>1, <3>2 DEF ReserveReboot, FailPending, TypeOK, PcType, Pcs, Ids, Status,
                        Ops, Tiers, slotVars, taskVars
  <2>2. CASE pc' = GoTo(j, "complete") /\ UNCHANGED <<admission, status, op, slotVars,
                self_update, reboot_pending, permit, waiters, taskVars, rebootJob, tier>>
    <3>1. PcType(pc')
      BY <2>2, GoToType, SchedulerAssumption DEF Ids, JobPcs
    <3> QED
      BY <2>2, <3>1 DEF TypeOK, PcType, Pcs, Ids, slotVars, taskVars
  <2> QED
    BY <1>5, <2>1, <2>2 DEF PatchReserveReboot
<1>6. ASSUME NEW t \in Ids, ReserveReturns(t) PROVE TypeOK'
  <2>1. PcType(pc')
    BY <1>6, GoToType, SchedulerAssumption DEF ReserveReturns, Ids, JobPcs, RebootPcs
  <2> QED
    BY <1>6, <2>1 DEF ReserveReturns, TypeOK, PcType, Pcs, Ids, slotVars, taskVars
<1>7. ASSUME NEW r \in RebootIds, HandlerDropped(r) PROVE TypeOK'
  <2>1. PcType(pc')
    BY <1>7, GoToType, SchedulerAssumption DEF HandlerDropped, Ids, JobPcs, RebootPcs
  <2> QED
    BY <1>7, <2>1 DEF HandlerDropped, TypeOK, PcType, Pcs, Ids, slotVars, taskVars
<1>8. ASSUME NEW j \in JobIds, SetJobRebooting(j) PROVE TypeOK'
  <2>1. PcType(GoTo(j, "begin"))
    BY GoToType, SchedulerAssumption DEF Ids, JobPcs
  <2>2. permit' \in BOOLEAN /\ waiters' \in Seq(JobIds) /\ PcType(pc')
    BY <1>8, <2>1, NotifyOnePcType DEF SetJobRebooting, TypeOK
  <2> QED
    BY <1>8, <2>2 DEF SetJobRebooting, TypeOK, PcType, Pcs, Ids, Status, slotVars, taskVars
<1>9. ASSUME NEW t \in Ids, BeginRebootExecution(t) PROVE TypeOK'
  <2>1. /\ PcType(GoTo(t, "rebootCmd"))
        /\ PcType(GoTo(t, IF t \in RebootIds THEN "done" ELSE "complete"))
    BY GoToType, SchedulerAssumption DEF Ids, JobPcs, RebootPcs
  <2>2. permit' \in BOOLEAN /\ waiters' \in Seq(JobIds) /\ PcType(pc')
    BY <1>9, <2>1, NotifyOnePcType DEF BeginRebootExecution, TypeOK
  <2> QED
    BY <1>9, <2>2 DEF BeginRebootExecution, TypeOK, PcType, Pcs, Ids, Status, slotVars, taskVars
<1>10. ASSUME NEW t \in Ids, RebootCommandOk(t) PROVE TypeOK'
  <2>1. PcType(pc')
    BY <1>10, SchedulerAssumption
       DEF RebootCommandOk, TypeOK, PcType, Pcs, Ids, JobPcs, RebootPcs, RebootJob
  <2> QED
    BY <1>10, <2>1 DEF RebootCommandOk, TypeOK, PcType, Pcs, Ids, slotVars, taskVars
<1>11. ASSUME NEW t \in Ids, RebootCommandErr(t) PROVE TypeOK'
  <2>1. PcType(pc')
    BY <1>11, GoToType, SchedulerAssumption DEF RebootCommandErr, Ids, JobPcs, RebootPcs
  <2> QED
    BY <1>11, <2>1 DEF RebootCommandErr, TypeOK, PcType, Pcs, Ids, slotVars, taskVars
<1>12. ASSUME NEW r \in RebootIds \cup {None}, NEW p, PcType(p), RollbackReboot(r, p)
      PROVE  TypeOK'
  <2>1. permit' \in BOOLEAN /\ waiters' \in Seq(JobIds) /\ PcType(pc')
    BY <1>12, NotifyOnePcType DEF RollbackReboot, TypeOK
  <2> QED
    BY <1>12, <2>1 DEF RollbackReboot, TypeOK, PcType, Pcs, Ids, Status, slotVars, taskVars
<1>13. ASSUME NEW t \in Ids, RebootFailed(t) PROVE TypeOK'
  <2>1. PcType(GoTo(t, IF t \in RebootIds THEN "done" ELSE "complete"))
    BY GoToType, SchedulerAssumption DEF Ids, JobPcs, RebootPcs
  <2>2. RebootJob(t) \in RebootIds \cup {None}
    BY DEF RebootJob, TypeOK, Ids
  <2> QED
    BY <1>13, <1>12, <2>1, <2>2 DEF RebootFailed
<1>14. ASSUME NEW r \in RebootIds, GuardDrop(r) PROVE TypeOK'
  <2>1. PcType(GoTo(r, "done"))
    BY GoToType, SchedulerAssumption DEF Ids, JobPcs, RebootPcs
  <2> QED
    BY <1>14, <1>12, <2>1 DEF GuardDrop
<1>15. ASSUME NEW j \in JobIds, DispatchReject(j) PROVE TypeOK'
  <2>1. PcType(pc')
    BY <1>15, GoToType, SchedulerAssumption DEF DispatchReject, Ids, JobPcs, RebootPcs
  <2> QED
    BY <1>15, <2>1 DEF DispatchReject, TypeOK, PcType, Pcs, Ids, slotVars, taskVars
<1>16. ASSUME NEW j \in JobIds, DispatchWait(j) PROVE TypeOK'
  <2>1. PcType(pc')
    BY <1>16, GoToType, SchedulerAssumption DEF DispatchWait, Ids, JobPcs, RebootPcs
  <2> QED
    BY <1>16, <2>1 DEF DispatchWait, TypeOK, PcType, Pcs, Ids, slotVars, taskVars
<1>17. ASSUME NEW j \in JobIds, PollNotified(j) PROVE TypeOK'
  <2>1. PcType(pc')
    BY <1>17, GoToType, SchedulerAssumption DEF PollNotified, Ids, JobPcs
  <2>2. permit' \in BOOLEAN
    BY <1>17, Zenon DEF PollNotified, TypeOK
  <2>3. waiters' = waiters \/ waiters' = Append(waiters, j)
    <3>1. CASE permit = TRUE
      BY <1>17, <3>1 DEF PollNotified
    <3>2. CASE permit = FALSE
      BY <1>17, <3>2 DEF PollNotified
    <3> QED
      BY <3>1, <3>2 DEF TypeOK
  <2>4. waiters' \in Seq(JobIds)
    <3>1. waiters \in Seq(JobIds)
      BY DEF TypeOK
    <3>2. Append(waiters, j) \in Seq(JobIds)
      BY <3>1, <1>17
    <3> QED
      BY <2>3, <3>1, <3>2
  <2> QED
    BY <1>17, <2>1, <2>2, <2>4 DEF PollNotified, TypeOK, PcType, Pcs, Ids, slotVars, taskVars
<1>18. ASSUME NEW j \in JobIds, DispatchAcquire(j) PROVE TypeOK'
  <2>1. PcType(pc')
    BY <1>18, GoToType, SchedulerAssumption DEF DispatchAcquire, Ids, JobPcs, RebootPcs
  <2> QED
    BY <1>18, <2>1 DEF DispatchAcquire, TypeOK, PcType, Pcs, Ids, slotVars, taskVars, Status
<1>19. ASSUME NEW j \in JobIds, SpawnWatchdog(j) PROVE TypeOK'
  <2>1. PcType(pc')
    BY <1>19, GoToType, SchedulerAssumption DEF SpawnWatchdog, Ids, JobPcs, RebootPcs
  <2> QED
    BY <1>19, <2>1 DEF SpawnWatchdog, TypeOK, PcType, Pcs, Ids, slotVars, taskVars
<1>20. ASSUME NEW j \in JobIds, ClosureExits(j) PROVE TypeOK'
  BY <1>20 DEF ClosureExits, TypeOK, slotVars, notifyVars
<1>21. ASSUME NEW j \in JobIds, WatchdogFinalize(j) PROVE TypeOK'
  <2>1. PcType(pc)
    BY DEF TypeOK, PcType, Pcs
  <2>2. permit' \in BOOLEAN /\ waiters' \in Seq(JobIds) /\ PcType(pc')
    BY <1>21, <2>1, NotifyOnePcType DEF WatchdogFinalize
  <2> QED
    BY <1>21, <2>2 DEF WatchdogFinalize, Outcome, TypeOK, PcType, Pcs, Ids, Status
<1>22. ASSUME NEW j \in JobIds, ReceiveResult(j) PROVE TypeOK'
  <2>1. PcType(pc')
    BY <1>22, GoToType, SchedulerAssumption DEF ReceiveResult, Ids, JobPcs, RebootPcs
  <2> QED
    BY <1>22, <2>1 DEF ReceiveResult, TypeOK, PcType, Pcs, Ids, slotVars, taskVars
<1>23. ASSUME NEW j \in JobIds, CallerDropped(j) PROVE TypeOK'
  <2>1. PcType(GoTo(j, "dropped"))
    BY GoToType, SchedulerAssumption DEF Ids, JobPcs
  <2>2. ASSUME NEW i \in 1..Len(waiters)
        PROVE  SubSeq(waiters, 1, i - 1) \o SubSeq(waiters, i + 1, Len(waiters)) \in Seq(JobIds)
    BY <2>2 DEF TypeOK
  <2>3. permit' \in BOOLEAN /\ waiters' \in Seq(JobIds) /\ PcType(pc')
    BY <1>23, <2>1, <2>2, NotifyOnePcType DEF CallerDropped, TypeOK
  <2> QED
    BY <1>23, <2>3 DEF CallerDropped, TypeOK, PcType, Pcs, Ids, slotVars, taskVars
<1>24. ASSUME NEW j \in JobIds, CompleteJob(j) PROVE TypeOK'
  <2> DEFINE p == [t \in Ids |-> IF t = j THEN AfterFinish(j)
                                ELSE IF t = rebootJob[j] THEN "guardDrop" ELSE pc[t]]
  <2>1. AfterFinish(j) \in JobPcs
    BY DEF AfterFinish, JobPcs
  <2>2. PcType(p)
    BY <2>1, SchedulerAssumption DEF PcType, TypeOK, Pcs, Ids, RebootPcs
  <2>3. permit' \in BOOLEAN /\ waiters' \in Seq(JobIds) /\ PcType(pc')
    BY <1>24, <2>2, NotifyOnePcType DEF CompleteJob, FinishJob
  <2> QED
    BY <1>24, <2>3 DEF CompleteJob, FinishJob, TypeOK, PcType, Pcs, Ids, Status, slotVars, taskVars
<1>25. ASSUME NEW j \in JobIds, FailJob(j) PROVE TypeOK'
  <2>1. AfterFinish(j) \in JobPcs
    BY DEF AfterFinish, JobPcs
  <2>2. PcType(GoTo(j, AfterFinish(j)))
    BY <2>1, GoToType, SchedulerAssumption DEF Ids
  <2>3. permit' \in BOOLEAN /\ waiters' \in Seq(JobIds) /\ PcType(pc')
    BY <1>25, <2>2, NotifyOnePcType DEF FailJob, FinishJob
  <2> QED
    BY <1>25, <2>3 DEF FailJob, FinishJob, TypeOK, PcType, Pcs, Ids, Status, slotVars, taskVars
<1>26. ASSUME NEW j \in JobIds, DeleteTrackingJob(j) PROVE TypeOK'
  <2>1. PcType(pc')
    BY <1>26, GoToType, SchedulerAssumption DEF DeleteTrackingJob, Ids, JobPcs, RebootPcs
  <2> QED
    BY <1>26, <2>1 DEF DeleteTrackingJob, TypeOK, PcType, Pcs, Ids, slotVars, taskVars, Status
<1>27. ASSUME NEW j \in JobIds, ReleaseSelfUpdate(j) PROVE TypeOK'
  <2>1. PcType(GoTo(j, "done"))
    BY GoToType, SchedulerAssumption DEF Ids, JobPcs
  <2>2. permit' \in BOOLEAN /\ waiters' \in Seq(JobIds) /\ PcType(pc')
    BY <1>27, <2>1, NotifyOnePcType DEF ReleaseSelfUpdate, TypeOK
  <2> QED
    BY <1>27, <2>2 DEF ReleaseSelfUpdate, TypeOK, PcType, Pcs, Ids, slotVars, taskVars
<1>28. ASSUME NEW j \in Ids, DeleteJob(j) PROVE TypeOK'
  BY <1>28 DEF DeleteJob, TypeOK, Status, slotVars, taskVars, notifyVars
<1>29. ASSUME FreezeAdmission PROVE TypeOK'
  <2>1. PcType(pc)
    BY DEF TypeOK, PcType, Pcs
  <2>2. permit' \in BOOLEAN /\ waiters' \in Seq(JobIds) /\ PcType(pc')
    BY <1>29, <2>1, NotifyOnePcType DEF FreezeAdmission
  <2> QED
    BY <1>29, <2>2 DEF FreezeAdmission, TypeOK, PcType, Pcs, slotVars, taskVars
<1> QED
  BY <1>1, <1>2, <1>3, <1>4, <1>5, <1>6, <1>7, <1>8, <1>9, <1>10, <1>11,
     <1>12, <1>13, <1>14, <1>15, <1>16, <1>17, <1>18, <1>19, <1>20, <1>21,
     <1>22, <1>23, <1>24, <1>25, <1>26, <1>27, <1>28, <1>29
     DEF Next, Environment, JobTask, RebootTask, Ops, Tiers

\* The initial state is well typed.
LEMMA InitType == ASSUME Init PROVE TypeOK
<1>1. permit \in BOOLEAN
  BY Zenon DEF Init
<1>2. waiters \in Seq(JobIds)
  BY DEF Init
<1>3. /\ status \in [Ids -> Status] /\ op \in [Ids -> Ops]
      /\ pc \in [Ids -> JobPcs \cup RebootPcs]
      /\ \A j \in JobIds : pc[j] \in JobPcs
      /\ \A r \in RebootIds : pc[r] \in RebootPcs
  BY DEF Init, Status, Ops, JobPcs, RebootPcs, Ids
<1> QED
  BY <1>1, <1>2, <1>3 DEF Init, TypeOK

\* Every reachable state of the scheduler is well typed.
THEOREM TypeCorrect == Spec => []TypeOK
<1>1. Init => TypeOK
  BY InitType
<1>2. TypeOK /\ [Next]_vars => TypeOK'
  <2>1. TypeOK /\ UNCHANGED vars => TypeOK'
    BY DEF TypeOK, vars
  <2> QED
    BY <2>1, TypeStep
<1> QED
  BY <1>1, <1>2, PTL DEF Spec


-----------------------------------------------------------------------------
(* The inductive invariant *)

\* The tasks p moves are not queued, so the queue is unaffected, and whether
\* or not the step notifies, every task ends where p puts it, except that one
\* parked task may have been woken.
LEMMA MovePc ==
    ASSUME TypeOK, WaitersParked,
           NEW p, PcType(p),
           \A u \in Ids : p[u] # pc[u] => pc[u] # "parked",
           NotifyOne(p) \/ (pc' = p /\ waiters' = waiters)
    PROVE  WaitersParked' /\ \A u \in Ids : Moves(p, u)
<1>1. p \in [Ids -> Pcs]
  BY DEF PcType
<1>2. \A i \in 1..Len(waiters) : waiters[i] \in Ids
  BY DEF TypeOK, Ids
<1>3. QueueOf(p)
  BY <1>2 DEF WaitersParked, QueueOf
<1>4. CASE NotifyOne(p)
  BY <1>1, <1>3, <1>4, NotifyOneEffect
<1>5. CASE pc' = p /\ waiters' = waiters
  BY <1>3, <1>5 DEF QueueOf, WaitersParked, Moves
<1> QED
  BY <1>4, <1>5

\* The usual case: one task moves.
LEMMA MoveOne ==
    ASSUME TypeOK, WaitersParked,
           NEW t \in Ids, NEW l,
           PcType(GoTo(t, l)), pc[t] # "parked", l # "parked",
           NotifyOne(GoTo(t, l)) \/ (pc' = GoTo(t, l) /\ waiters' = waiters)
    PROVE  /\ WaitersParked'
           /\ pc'[t] = l
           /\ \A u \in Ids \ {t} : Moves(pc, u)
<1> DEFINE p == GoTo(t, l)
<1>1. p[t] = l /\ \A u \in Ids \ {t} : p[u] = pc[u]
  BY DEF GoTo, TypeOK
<1>2. WaitersParked' /\ \A u \in Ids : Moves(p, u)
  <2> HIDE DEF p
  <2> QED
    BY <1>1, MovePc DEF p
<1> QED
  BY <1>1, <1>2 DEF Moves

\* No task acquires the slot and no watchdog runs its locked section.
Calm ==
    /\ UNCHANGED <<active_mutation, mutation_generation, gen, watchdog, result>>
    /\ \A j \in JobIds : pc'[j] = "acquired" => pc[j] = "acquired"
    /\ \A j \in JobIds : pc[j] \in {"await", "dropped"} => pc'[j] \in {"await", "dropped"}

\* In a calm step the slot keeps its owner, and nobody becomes a holder.
LEMMA CalmSlot ==
    ASSUME WatchdogPhase, SlotOwned, Calm
    PROVE  /\ WatchdogPhase'
           /\ SlotOwned'
           /\ \A j \in JobIds : Holding(j)' => Holding(j)
BY DEF Calm, WatchdogPhase, SlotOwned, Holding

\* A step that makes nobody a holder and reserves nothing leaves the two
\* fences up.
LEMMA FencesKept ==
    ASSUME SelfUpdateExclusive, ForcedRebootFence,
           \A j \in JobIds : Holding(j)' => Holding(j) /\ op'[j] = op[j],
           self_update' \in {None, self_update},
           reboot_pending' = None \/ UNCHANGED <<reboot_pending, tier>>
    PROVE  SelfUpdateExclusive' /\ ForcedRebootFence'
<1>1. SelfUpdateExclusive'
  BY DEF SelfUpdateExclusive, IsInternal
<1>2. ForcedRebootFence'
  BY DEF ForcedRebootFence
<1> QED
  BY <1>1, <1>2

\* Nobody holds the slot while active_mutation is empty, and a task that is
\* not at its await, dropped or just past the wait loop does not hold it.
LEMMA NotHolding ==
    ASSUME TypeOK, WatchdogPhase, SlotOwned, NEW j \in JobIds
    PROVE  /\ active_mutation = None => ~Holding(j)
           /\ pc[j] \notin {"acquired", "await", "dropped"} => ~Holding(j)
BY SchedulerAssumption DEF SlotOwned, WatchdogPhase, Holding, Ids

\* Where a task is that takes part in a reboot.
InReboot == BeforeReboot \cup DuringReboot \cup {"complete", "guarded", "guardDrop"}

\* The step is not about a reboot: nobody leaves one, nobody enters one
\* (a job task may reach complete_job), and the reservation is left alone.
Aside ==
    /\ \A u \in Ids : pc[u] \in InReboot => pc'[u] = pc[u]
    /\ \A u \in Ids : pc'[u] \in InReboot =>
          pc'[u] = pc[u] \/ (pc'[u] = "complete" /\ u \in JobIds)
    /\ \A r \in RebootIds : status[r] \in {"Pending", "Rebooting"} => status'[r] = status[r]
    /\ UNCHANGED <<reboot_pending, rebootJob>>

\* Such a step leaves the reservation with its owner and the guards in place.
LEMMA AsideReservation ==
    ASSUME TypeOK, ReservationOwned, GuardHeld, Aside
    PROVE  ReservationOwned' /\ GuardHeld'
<1>1. \A u \in Ids : pc'[u] \in BeforeReboot \cup DuringReboot => pc'[u] = pc[u]
  BY DEF Aside, InReboot, BeforeReboot, DuringReboot
<1>2. ReservationOwned'
  BY <1>1, SchedulerAssumption DEF Aside, ReservationOwned, RebootJob, TypeOK
<1>3. \A j \in JobIds : rebootJob[j] # None =>
         pc'[j] = pc[j] /\ pc'[rebootJob[j]] = pc[rebootJob[j]]
  BY DEF Aside, GuardHeld, InReboot, TypeOK, Ids
<1>4. \A r \in RebootIds : pc'[r] = "guardDrop" => pc[r] = "guardDrop"
  BY DEF Aside, InReboot, Ids
<1>5. reboot_pending' = reboot_pending /\ rebootJob' = rebootJob
  BY DEF Aside
<1>6. GuardHeld'
  BY <1>3, <1>4, <1>5 DEF GuardHeld
<1> QED
  BY <1>2, <1>6

\* One task moves, neither into the slot nor into a reboot, nor out of them
\* except by being dropped; perhaps another one is woken.
LEMMA OrdinaryMove ==
    ASSUME Inv, TypeOK', NEW t \in Ids, NEW l,
           WaitersParked', pc'[t] = l, \A u \in Ids \ {t} : Moves(pc, u),
           pc[t] \notin InReboot,
           pc[t] \notin {"await", "dropped"} \/ l = "dropped",
           l # "acquired",
           l \notin InReboot \/ (l = "complete" /\ t \in JobIds),
           \A j \in JobIds : Holding(j) => op'[j] = op[j],
           \A r \in RebootIds : status'[r] = status[r],
           self_update' \in {None, self_update},
           UNCHANGED <<active_mutation, mutation_generation, gen, watchdog, result,
                       reboot_pending, rebootJob, tier>>
    PROVE  Inv'
<1>1. Calm
  BY DEF Calm, Moves, Ids
<1>2. WatchdogPhase' /\ SlotOwned' /\ \A j \in JobIds : Holding(j)' => Holding(j)
  BY <1>1, CalmSlot DEF Inv
<1>3. SelfUpdateExclusive' /\ ForcedRebootFence'
  BY <1>2, FencesKept DEF Inv
<1>4. Aside
  BY DEF Aside, Moves, InReboot, BeforeReboot, DuringReboot
<1>5. ReservationOwned' /\ GuardHeld'
  BY <1>4, AsideReservation DEF Inv
<1> QED
  BY <1>2, <1>3, <1>5 DEF Inv

\* The same for a task that is not dropped and moves with or without a
\* notification.
LEMMA OrdinaryStep ==
    ASSUME Inv, TypeOK', NEW t \in Ids, NEW l, PcType(GoTo(t, l)),
           pc[t] \notin InReboot \cup {"parked", "acquired", "await", "dropped"},
           l \notin InReboot \cup {"parked", "acquired"},
           NotifyOne(GoTo(t, l)) \/ (pc' = GoTo(t, l) /\ waiters' = waiters),
           \A u \in Ids \ {t} : op'[u] = op[u],
           \A r \in RebootIds : status'[r] = status[r],
           self_update' \in {None, self_update},
           UNCHANGED <<active_mutation, mutation_generation, gen, watchdog, result,
                       reboot_pending, rebootJob, tier>>
    PROVE  Inv'
<1>1. WaitersParked' /\ pc'[t] = l /\ \A u \in Ids \ {t} : Moves(pc, u)
  BY MoveOne DEF Inv
<1>2. \A j \in JobIds : Holding(j) => op'[j] = op[j]
  BY NotHolding DEF Inv, Ids
<1> QED
  BY <1>1, <1>2, OrdinaryMove

\* A task between reserve_reboot and the end of its reboot is alone there.
LEMMA SoleOwner ==
    ASSUME TypeOK, ReservationOwned, GuardHeld, NEW t \in Ids, NEW u \in Ids,
           pc[t] \in BeforeReboot \cup DuringReboot,
           pc[u] \in BeforeReboot \cup DuringReboot
    PROVE  t = u
<1>1. /\ reboot_pending = RebootJob(t) /\ reboot_pending = RebootJob(u)
      /\ reboot_pending # None
  BY DEF ReservationOwned
<1>2. CASE t \in RebootIds /\ u \in RebootIds
  BY <1>1, <1>2 DEF RebootJob
<1>3. CASE t \in JobIds /\ u \in JobIds
  BY <1>1, <1>3, SchedulerAssumption DEF RebootJob, GuardHeld
<1>4. ASSUME NEW r \in RebootIds, NEW j \in JobIds, RebootJob(j) = r, rebootJob[j] # None
      PROVE  pc[r] \notin BeforeReboot \cup DuringReboot
  <2>1. pc[r] = "guarded"
    BY <1>4, SchedulerAssumption DEF RebootJob, GuardHeld
  <2> QED
    BY <2>1 DEF BeforeReboot, DuringReboot
<1>5. CASE t \in RebootIds /\ u \in JobIds
  BY <1>1, <1>4, <1>5, SchedulerAssumption DEF RebootJob
<1>6. CASE u \in RebootIds /\ t \in JobIds
  BY <1>1, <1>4, <1>6, SchedulerAssumption DEF RebootJob
<1> QED
  BY <1>2, <1>3, <1>5, <1>6 DEF Ids

\* The owner of the reservation takes a step of its reboot: it goes on with
\* the status its progress implies, or it stops and is no owner any more; a
\* patch task stops only when the reservation is gone.
LEMMA OwnerStep ==
    ASSUME Inv, TypeOK', NEW t \in Ids, NEW l, PcType(GoTo(t, l)),
           pc[t] \in BeforeReboot \cup DuringReboot,
           l \in BeforeReboot \cup DuringReboot \cup {"complete", "done", "dropped"},
           t \in JobIds => l \notin {"done", "dropped"},
           NotifyOne(GoTo(t, l)) \/ (pc' = GoTo(t, l) /\ waiters' = waiters),
           l \in BeforeReboot \cup DuringReboot =>
              /\ UNCHANGED reboot_pending
              /\ status'[reboot_pending] = IF l \in BeforeReboot THEN "Pending"
                                           ELSE "Rebooting",
           reboot_pending' = None \/ UNCHANGED <<reboot_pending, tier>>,
           l = "complete" => reboot_pending' = None,
           UNCHANGED <<active_mutation, mutation_generation, gen, watchdog, result,
                       op, self_update, rebootJob>>
    PROVE  Inv'
<1>1. pc[t] # "parked" /\ pc[t] \notin {"await", "dropped"} /\ l \notin {"parked", "acquired"}
  BY DEF BeforeReboot, DuringReboot
<1>2. WaitersParked' /\ pc'[t] = l /\ \A u \in Ids \ {t} : Moves(pc, u)
  BY <1>1, MoveOne DEF Inv
<1>3. Calm
  BY <1>1, <1>2 DEF Calm, Moves, Ids
<1>4. WatchdogPhase' /\ SlotOwned' /\ \A j \in JobIds : Holding(j)' => Holding(j)
  BY <1>3, CalmSlot DEF Inv
<1>5. SelfUpdateExclusive' /\ ForcedRebootFence'
  BY <1>4, FencesKept DEF Inv
<1>6. \A u \in Ids : pc'[u] \in BeforeReboot \cup DuringReboot => u = t
  <2> SUFFICES ASSUME NEW u \in Ids, pc'[u] \in BeforeReboot \cup DuringReboot, u # t
               PROVE  FALSE
    OBVIOUS
  <2>1. pc[u] \in BeforeReboot \cup DuringReboot
    BY <1>2 DEF Moves, BeforeReboot, DuringReboot
  <2> QED
    BY <2>1, SoleOwner DEF Inv
<1>7. reboot_pending = RebootJob(t) /\ reboot_pending # None
  BY DEF Inv, ReservationOwned
<1>8. ReservationOwned'
  BY <1>2, <1>6, <1>7 DEF ReservationOwned, RebootJob
<1>9. GuardHeld'
  <2>1. \A r \in RebootIds : pc'[r] = "guardDrop" => pc[r] = "guardDrop"
    BY <1>2 DEF Moves, Ids, BeforeReboot, DuringReboot
  <2>2. \A r \in RebootIds : reboot_pending # r => reboot_pending' # r
    BY SchedulerAssumption DEF Ids
  <2>3. \A r \in RebootIds : pc'[r] = "guardDrop" => reboot_pending' # r
    BY <2>1, <2>2 DEF Inv, GuardHeld
  <2>4. ASSUME NEW j \in JobIds, rebootJob[j] # None
        PROVE  /\ pc'[j] \in BeforeReboot \cup DuringReboot \cup {"complete"}
               /\ pc'[rebootJob[j]] = "guarded"
               /\ pc'[j] = "complete" => reboot_pending' # rebootJob[j]
               /\ \A k \in JobIds \ {j} : rebootJob[k] # rebootJob[j]
    <3>1. /\ pc[j] \in BeforeReboot \cup DuringReboot \cup {"complete"}
          /\ pc[rebootJob[j]] = "guarded"
          /\ pc[j] = "complete" => reboot_pending # rebootJob[j]
          /\ \A k \in JobIds \ {j} : rebootJob[k] # rebootJob[j]
      BY <2>4 DEF Inv, GuardHeld
    <3>2. rebootJob[j] \in RebootIds /\ rebootJob[j] \in Ids /\ j \in Ids
      BY <2>4 DEF Inv, TypeOK, Ids
    <3>3. rebootJob[j] # t
      BY <3>1 DEF BeforeReboot, DuringReboot
    <3>4. pc'[rebootJob[j]] = "guarded"
      BY <1>2, <3>1, <3>2, <3>3 DEF Moves
    <3>5. CASE j = t
      BY <1>2, <3>1, <3>2, <3>4, <3>5, SchedulerAssumption DEF Ids
    <3>6. CASE j # t
      <4>1. pc'[j] = pc[j]
        BY <1>2, <3>1, <3>2, <3>6 DEF Moves, BeforeReboot, DuringReboot
      <4> QED
        BY <2>2, <3>1, <3>2, <3>4, <4>1
    <3> QED
      BY <3>5, <3>6
  <2> QED
    BY <2>3, <2>4 DEF GuardHeld
<1> QED
  BY <1>2, <1>4, <1>5, <1>8, <1>9 DEF Inv

\* What is left of a queue when its element i is taken out.
LEMMA RemovedAt ==
    ASSUME NEW S, NEW s \in Seq(S), NEW i \in 1..Len(s), NEW q,
           q = SubSeq(s, 1, i - 1) \o SubSeq(s, i + 1, Len(s))
    PROVE  /\ Len(q) = Len(s) - 1
           /\ \A k \in 1..Len(q) : q[k] = s[IF k < i THEN k ELSE k + 1]
<1> DEFINE a == SubSeq(s, 1, i - 1)
           b == SubSeq(s, i + 1, Len(s))
<1>0. Len(s) \in Nat /\ i \in Nat /\ i >= 1 /\ i <= Len(s)
  OBVIOUS
<1>1. a \in Seq(S) /\ Len(a) = i - 1 /\ \A k \in 1..(i - 1) : a[k] = s[k]
  BY <1>0
<1>2. b \in Seq(S) /\ Len(b) = Len(s) - i
  BY <1>0
<1>3. \A k \in 1..(Len(s) - i) : b[k] = s[i + k]
  BY <1>0, <1>2
<1> HIDE DEF a, b
<1>4. /\ q = a \o b /\ Len(q) = Len(a) + Len(b)
      /\ \A k \in 1..Len(a) + Len(b) : q[k] = IF k <= Len(a) THEN a[k] ELSE b[k - Len(a)]
  BY <1>1, <1>2, ConcatProperties DEF a, b
<1>5. Len(q) = Len(s) - 1
  <2>1. Len(a) + Len(b) = (i - 1) + (Len(s) - i)
    BY <1>1, <1>2
  <2>2. \A x, y \in Nat : (x - 1) + (y - x) = y - 1
    OBVIOUS
  <2>3. Len(q) = Len(a) + Len(b)
    BY <1>4
  <2> QED
    BY <1>0, <2>1, <2>2, <2>3
<1>6. ASSUME NEW k \in 1..Len(q) PROVE q[k] = s[IF k < i THEN k ELSE k + 1]
  <2>0. k \in Nat /\ k >= 1 /\ k <= Len(s) - 1
    <3>1. k \in 1..(Len(s) - 1)
      BY <1>5, <1>6
    <3> QED
      BY <1>0, <3>1
  <2>1. q[k] = IF k <= i - 1 THEN a[k] ELSE b[k - (i - 1)]
    BY <1>1, <1>4, <1>6
  <2>2. CASE k < i
    BY <1>0, <1>1, <2>0, <2>1, <2>2
  <2>3. CASE ~(k < i)
    <3>1. k - (i - 1) \in 1..(Len(s) - i) /\ i + (k - (i - 1)) = k + 1
      BY <1>0, <2>0, <2>3
    <3>2. q[k] = b[k - (i - 1)]
      BY <1>0, <2>0, <2>1, <2>3
    <3> QED
      BY <1>3, <2>3, <3>1, <3>2
  <2> QED
    BY <2>2, <2>3
<1> QED
  BY <1>5, <1>6

\* Every step of the scheduler preserves the inductive invariant.
LEMMA InvStep == ASSUME Inv, Next PROVE Inv'
<1>a. TypeOK /\ TypeOK'
  BY TypeStep DEF Inv
<1>b. /\ JobIds \subseteq Ids /\ RebootIds \subseteq Ids
      /\ JobIds \cap RebootIds = {} /\ None \notin Ids
  BY SchedulerAssumption DEF Ids
<1>c. InReboot = {"reserved", "setRebooting", "begin", "rebootCmd", "rollback",
                  "complete", "guarded", "guardDrop"}
  BY DEF InReboot, BeforeReboot, DuringReboot
<1>1. ASSUME NEW j \in JobIds, NEW o \in Ops, AdmitJob(j, o) PROVE Inv'
  <2>1. PcType(GoTo(j, "dispatch")) /\ "dispatch" \notin InReboot \cup {"parked", "acquired"}
    BY <1>a, <1>b, <1>c, GoToType DEF JobPcs
  <2>2. pc[j] \notin InReboot \cup {"parked", "acquired", "await", "dropped"}
    BY <1>1, <1>c DEF AdmitJob
  <2>3. NotifyOne(GoTo(j, "dispatch")) \/ (pc' = GoTo(j, "dispatch") /\ waiters' = waiters)
    BY <1>1 DEF AdmitJob
  <2>4. /\ \A u \in Ids \ {j} : op'[u] = op[u]
        /\ \A r \in RebootIds : status'[r] = status[r]
        /\ self_update' \in {None, self_update}
        /\ UNCHANGED <<active_mutation, mutation_generation, gen, watchdog, result,
                       reboot_pending, rebootJob, tier>>
    BY <1>1, <1>a, <1>b DEF AdmitJob, TypeOK, slotVars, taskVars
  <2> QED
    BY <1>a, <1>b, <2>1, <2>2, <2>3, <2>4, OrdinaryStep
<1>2. ASSUME NEW j \in JobIds, CreateRollbackJob(j) PROVE Inv'
  <2>1. PcType(GoTo(j, "done")) /\ "done" \notin InReboot \cup {"parked", "acquired"}
    BY <1>a, <1>b, <1>c, GoToType DEF JobPcs
  <2>2. pc[j] \notin InReboot \cup {"parked", "acquired", "await", "dropped"}
    BY <1>2, <1>c DEF CreateRollbackJob
  <2>3. NotifyOne(GoTo(j, "done")) \/ (pc' = GoTo(j, "done") /\ waiters' = waiters)
    BY <1>2 DEF CreateRollbackJob
  <2>4. /\ \A u \in Ids \ {j} : op'[u] = op[u]
        /\ \A r \in RebootIds : status'[r] = status[r]
        /\ self_update' \in {None, self_update}
        /\ UNCHANGED <<active_mutation, mutation_generation, gen, watchdog, result,
                       reboot_pending, rebootJob, tier>>
    BY <1>2, <1>a, <1>b DEF CreateRollbackJob, TypeOK, slotVars, taskVars
  <2> QED
    BY <1>a, <1>b, <2>1, <2>2, <2>3, <2>4, OrdinaryStep
<1>3. ASSUME NEW j \in JobIds, DispatchReject(j) PROVE Inv'
  <2>1. PcType(GoTo(j, "fail")) /\ "fail" \notin InReboot \cup {"parked", "acquired"}
    BY <1>a, <1>b, <1>c, GoToType DEF JobPcs
  <2>2. pc[j] \notin InReboot \cup {"parked", "acquired", "await", "dropped"}
    BY <1>3, <1>c DEF DispatchReject
  <2>3. NotifyOne(GoTo(j, "fail")) \/ (pc' = GoTo(j, "fail") /\ waiters' = waiters)
    BY <1>3 DEF DispatchReject
  <2>4. /\ \A u \in Ids \ {j} : op'[u] = op[u]
        /\ \A r \in RebootIds : status'[r] = status[r]
        /\ self_update' \in {None, self_update}
        /\ UNCHANGED <<active_mutation, mutation_generation, gen, watchdog, result,
                       reboot_pending, rebootJob, tier>>
    BY <1>3, <1>a, <1>b DEF DispatchReject, TypeOK, slotVars, taskVars
  <2> QED
    BY <1>a, <1>b, <2>1, <2>2, <2>3, <2>4, OrdinaryStep
<1>4. ASSUME NEW j \in JobIds, DispatchWait(j) PROVE Inv'
  <2>1. PcType(GoTo(j, "parking")) /\ "parking" \notin InReboot \cup {"parked", "acquired"}
    BY <1>a, <1>b, <1>c, GoToType DEF JobPcs
  <2>2. pc[j] \notin InReboot \cup {"parked", "acquired", "await", "dropped"}
    BY <1>4, <1>c DEF DispatchWait
  <2>3. NotifyOne(GoTo(j, "parking")) \/ (pc' = GoTo(j, "parking") /\ waiters' = waiters)
    BY <1>4 DEF DispatchWait
  <2>4. /\ \A u \in Ids \ {j} : op'[u] = op[u]
        /\ \A r \in RebootIds : status'[r] = status[r]
        /\ self_update' \in {None, self_update}
        /\ UNCHANGED <<active_mutation, mutation_generation, gen, watchdog, result,
                       reboot_pending, rebootJob, tier>>
    BY <1>4, <1>a, <1>b DEF DispatchWait, TypeOK, slotVars, taskVars
  <2> QED
    BY <1>a, <1>b, <2>1, <2>2, <2>3, <2>4, OrdinaryStep
<1>5. ASSUME NEW j \in JobIds, FailJob(j) PROVE Inv'
  <2>1. PcType(GoTo(j, AfterFinish(j))) /\ AfterFinish(j) \notin InReboot \cup {"parked", "acquired"}
    BY <1>a, <1>b, <1>c, GoToType DEF JobPcs, AfterFinish
  <2>2. pc[j] \notin InReboot \cup {"parked", "acquired", "await", "dropped"}
    BY <1>5, <1>c DEF FailJob
  <2>3. NotifyOne(GoTo(j, AfterFinish(j))) \/ (pc' = GoTo(j, AfterFinish(j)) /\ waiters' = waiters)
    BY <1>5 DEF FailJob, FinishJob
  <2>4. /\ \A u \in Ids \ {j} : op'[u] = op[u]
        /\ \A r \in RebootIds : status'[r] = status[r]
        /\ self_update' \in {None, self_update}
        /\ UNCHANGED <<active_mutation, mutation_generation, gen, watchdog, result,
                       reboot_pending, rebootJob, tier>>
    BY <1>5, <1>a, <1>b DEF FailJob, TypeOK, slotVars, taskVars, FinishJob
  <2> QED
    BY <1>a, <1>b, <2>1, <2>2, <2>3, <2>4, OrdinaryStep
<1>6. ASSUME NEW j \in JobIds, DeleteTrackingJob(j) PROVE Inv'
  <2>1. PcType(GoTo(j, "done")) /\ "done" \notin InReboot \cup {"parked", "acquired"}
    BY <1>a, <1>b, <1>c, GoToType DEF JobPcs
  <2>2. pc[j] \notin InReboot \cup {"parked", "acquired", "await", "dropped"}
    BY <1>6, <1>c DEF DeleteTrackingJob
  <2>3. NotifyOne(GoTo(j, "done")) \/ (pc' = GoTo(j, "done") /\ waiters' = waiters)
    BY <1>6 DEF DeleteTrackingJob
  <2>4. /\ \A u \in Ids \ {j} : op'[u] = op[u]
        /\ \A r \in RebootIds : status'[r] = status[r]
        /\ self_update' \in {None, self_update}
        /\ UNCHANGED <<active_mutation, mutation_generation, gen, watchdog, result,
                       reboot_pending, rebootJob, tier>>
    BY <1>6, <1>a, <1>b DEF DeleteTrackingJob, TypeOK, slotVars, taskVars
  <2> QED
    BY <1>a, <1>b, <2>1, <2>2, <2>3, <2>4, OrdinaryStep
<1>7. ASSUME NEW j \in JobIds, ReleaseSelfUpdate(j) PROVE Inv'
  <2>1. PcType(GoTo(j, "done")) /\ "done" \notin InReboot \cup {"parked", "acquired"}
    BY <1>a, <1>b, <1>c, GoToType DEF JobPcs
  <2>2. pc[j] \notin InReboot \cup {"parked", "acquired", "await", "dropped"}
    BY <1>7, <1>c DEF ReleaseSelfUpdate
  <2>3. NotifyOne(GoTo(j, "done")) \/ (pc' = GoTo(j, "done") /\ waiters' = waiters)
    BY <1>7 DEF ReleaseSelfUpdate
  <2>4. /\ \A u \in Ids \ {j} : op'[u] = op[u]
        /\ \A r \in RebootIds : status'[r] = status[r]
        /\ self_update' \in {None, self_update}
        /\ UNCHANGED <<active_mutation, mutation_generation, gen, watchdog, result,
                       reboot_pending, rebootJob, tier>>
    BY <1>7, <1>a, <1>b DEF ReleaseSelfUpdate, TypeOK, slotVars, taskVars
  <2> QED
    BY <1>a, <1>b, <2>1, <2>2, <2>3, <2>4, OrdinaryStep
<1>d. BeforeReboot = {"reserved", "setRebooting", "begin"} /\ DuringReboot = {"rebootCmd", "rollback"}
  BY DEF BeforeReboot, DuringReboot
<1>e. ASSUME NEW t \in Ids, pc[t] \in BeforeReboot \cup DuringReboot
      PROVE  /\ reboot_pending = RebootJob(t)
             /\ reboot_pending \in RebootIds
             /\ status[reboot_pending] = IF pc[t] \in BeforeReboot THEN "Pending" ELSE "Rebooting"
  BY <1>a, <1>e DEF Inv, ReservationOwned, TypeOK
<1>f. ASSUME NEW j \in JobIds, rebootJob[j] # None
      PROVE  /\ pc[j] \in BeforeReboot \cup DuringReboot \cup {"complete"}
             /\ rebootJob[j] \in RebootIds
             /\ pc[rebootJob[j]] = "guarded"
  BY <1>a, <1>f DEF Inv, GuardHeld, TypeOK
<1>8. ASSUME NEW t \in Ids, ReserveReturns(t) PROVE Inv'
  <2> DEFINE l == IF t \in RebootIds THEN "begin" ELSE "setRebooting"
  <2>1. pc[t] = "reserved" /\ l \in BeforeReboot
    BY <1>8, <1>d DEF ReserveReturns
  <2>2. PcType(GoTo(t, l))
    BY <1>a, <1>b, GoToType DEF Ids, JobPcs, RebootPcs
  <2>3. /\ pc' = GoTo(t, l) /\ waiters' = waiters
        /\ status' = status
        /\ UNCHANGED <<active_mutation, mutation_generation, gen, watchdog, result,
                       op, self_update, rebootJob, reboot_pending, tier>>
    BY <1>8 DEF ReserveReturns, slotVars, taskVars
  <2>4. status'[reboot_pending] = "Pending" /\ l \notin {"done", "dropped", "complete"}
    BY <1>d, <1>e, <2>1, <2>3
  <2> QED
    BY <1>a, <1>d, <2>1, <2>2, <2>3, <2>4, OwnerStep
<1>9. ASSUME NEW r \in RebootIds, HandlerDropped(r) PROVE Inv'
  <2>1. pc[r] = "reserved"
    BY <1>9 DEF HandlerDropped
  <2>2. PcType(GoTo(r, "dropped"))
    BY <1>a, <1>b, GoToType DEF RebootPcs
  <2>3. /\ pc' = GoTo(r, "dropped") /\ waiters' = waiters
        /\ UNCHANGED <<active_mutation, mutation_generation, gen, watchdog, result,
                       op, self_update, rebootJob, reboot_pending, tier>>
    BY <1>9 DEF HandlerDropped, slotVars, taskVars
  <2> QED
    BY <1>a, <1>b, <1>d, <2>1, <2>2, <2>3, OwnerStep
<1>10. ASSUME NEW j \in JobIds, SetJobRebooting(j) PROVE Inv'
  <2>1. pc[j] = "setRebooting"
    BY <1>10 DEF SetJobRebooting
  <2>2. PcType(GoTo(j, "begin"))
    BY <1>a, <1>b, GoToType DEF JobPcs
  <2>3. NotifyOne(GoTo(j, "begin")) \/ (pc' = GoTo(j, "begin") /\ waiters' = waiters)
    BY <1>10 DEF SetJobRebooting
  <2>4. /\ \A r \in RebootIds : status'[r] = status[r]
        /\ UNCHANGED <<active_mutation, mutation_generation, gen, watchdog, result,
                       op, self_update, rebootJob, reboot_pending, tier>>
    BY <1>10, <1>a, <1>b DEF SetJobRebooting, TypeOK, slotVars, taskVars
  <2>5. status'[reboot_pending] = "Pending"
    BY <1>b, <1>d, <1>e, <2>1, <2>4
  <2> QED
    BY <1>a, <1>b, <1>d, <2>1, <2>2, <2>3, <2>4, <2>5, OwnerStep
<1>11. ASSUME NEW t \in Ids, BeginRebootExecution(t) PROVE Inv'
  <2>1. pc[t] = "begin"
    BY <1>11 DEF BeginRebootExecution
  <2>2. PcType(GoTo(t, "rebootCmd"))
    BY <1>a, <1>b, GoToType DEF Ids, JobPcs, RebootPcs
  <2>3. reboot_pending = RebootJob(t) /\ status[RebootJob(t)] = "Pending" /\ reboot_pending \in Ids
    BY <1>b, <1>d, <1>e, <2>1
  <2>4. /\ NotifyOne(GoTo(t, "rebootCmd"))
        /\ status' = [status EXCEPT ![reboot_pending] = "Rebooting"]
        /\ UNCHANGED <<active_mutation, mutation_generation, gen, watchdog, result,
                       op, self_update, rebootJob, reboot_pending, tier>>
    BY <1>11, <2>3 DEF BeginRebootExecution, slotVars, taskVars
  <2>5. status'[reboot_pending] = "Rebooting"
    BY <1>a, <2>3, <2>4 DEF TypeOK
  <2> QED
    BY <1>a, <1>d, <2>1, <2>2, <2>4, <2>5, OwnerStep
<1>12. ASSUME NEW t \in Ids, RebootCommandErr(t) PROVE Inv'
  <2>1. pc[t] = "rebootCmd"
    BY <1>12 DEF RebootCommandErr
  <2>2. PcType(GoTo(t, "rollback"))
    BY <1>a, <1>b, GoToType DEF Ids, JobPcs, RebootPcs
  <2>3. /\ pc' = GoTo(t, "rollback") /\ waiters' = waiters
        /\ status' = status
        /\ UNCHANGED <<active_mutation, mutation_generation, gen, watchdog, result,
                       op, self_update, rebootJob, reboot_pending, tier>>
    BY <1>12 DEF RebootCommandErr, slotVars, taskVars
  <2>4. status'[reboot_pending] = "Rebooting"
    BY <1>d, <1>e, <2>1, <2>3
  <2> QED
    BY <1>a, <1>d, <2>1, <2>2, <2>3, <2>4, OwnerStep
<1>13. ASSUME NEW t \in Ids, RebootFailed(t) PROVE Inv'
  <2> DEFINE l == IF t \in RebootIds THEN "done" ELSE "complete"
  <2>1. pc[t] = "rollback" /\ l \in {"done", "complete"} /\ (t \in JobIds => l = "complete")
    BY <1>13, <1>b DEF RebootFailed
  <2>2. PcType(GoTo(t, l))
    BY <1>a, <1>b, GoToType DEF Ids, JobPcs, RebootPcs
  <2>3. reboot_pending = RebootJob(t)
    BY <1>d, <1>e, <2>1
  <2>4. /\ NotifyOne(GoTo(t, l))
        /\ reboot_pending' = None
        /\ UNCHANGED <<active_mutation, mutation_generation, gen, watchdog, result,
                       op, self_update, rebootJob>>
    BY <1>13, <2>3 DEF RebootFailed, RollbackReboot, slotVars, taskVars
  <2> QED
    BY <1>a, <1>d, <2>1, <2>2, <2>4, OwnerStep
<1>14. ASSUME NEW j \in JobIds, TryReserveSelfUpdate(j) PROVE Inv'
  <2>1. PcType(GoTo(j, "dispatch")) /\ pc[j] = "idle"
    BY <1>14, <1>a, <1>b, GoToType DEF TryReserveSelfUpdate, JobPcs
  <2>2. /\ self_update' = j
        /\ reboot_pending = None
        /\ \A r \in RebootIds : status'[r] = status[r]
        /\ \A u \in Ids \ {j} : op'[u] = op[u]
        /\ UNCHANGED <<active_mutation, mutation_generation, gen, watchdog, result,
                       reboot_pending, rebootJob, tier>>
    BY <1>14, <1>a, <1>b DEF TryReserveSelfUpdate, TypeOK, slotVars, taskVars
  <2>3. WaitersParked' /\ pc'[j] = "dispatch" /\ \A u \in Ids \ {j} : Moves(pc, u)
    BY <1>14, <1>a, <1>b, <2>1, MoveOne DEF TryReserveSelfUpdate, Inv
  <2>4. Calm /\ Aside
    BY <1>b, <1>c, <2>1, <2>2, <2>3 DEF Calm, Aside, Moves
  <2>5. WatchdogPhase' /\ SlotOwned' /\ \A k \in JobIds : Holding(k)' => Holding(k)
    BY <2>4, CalmSlot DEF Inv
  <2>6. SelfUpdateExclusive'
    <3>1. \A k \in JobIds : Holding(k) => k # j /\ IsInternal(k)
      BY <1>14, <1>a, <1>b, <2>1, NotHolding
         DEF TryReserveSelfUpdate, SlotFreeOrInternal, Inv, SlotOwned
    <3> QED
      BY <1>b, <2>2, <2>5, <3>1 DEF SelfUpdateExclusive, IsInternal
  <2>7. ForcedRebootFence'
    BY <2>2 DEF ForcedRebootFence
  <2>8. ReservationOwned' /\ GuardHeld'
    BY <1>a, <2>4, AsideReservation DEF Inv
  <2> QED
    BY <1>a, <2>3, <2>5, <2>6, <2>7, <2>8 DEF Inv
<1>15. ASSUME NEW r \in RebootIds, NEW k \in Tiers, NEW p, ReserveReboot(r, k, p), Calm
       PROVE  /\ WatchdogPhase' /\ SlotOwned' /\ SelfUpdateExclusive' /\ ForcedRebootFence'
              /\ \A t \in Ids : pc[t] \notin BeforeReboot \cup DuringReboot
              /\ reboot_pending' = r /\ status'[r] = "Pending"
  <2>1. WatchdogPhase' /\ SlotOwned' /\ \A j \in JobIds : Holding(j)' => Holding(j)
    BY <1>15, CalmSlot DEF Inv
  <2>2. /\ reboot_pending = None /\ reboot_pending' = r /\ tier' = k
        /\ self_update' = self_update
        /\ k = "force" => self_update = None /\ active_mutation = None
        /\ \A j \in JobIds : op'[j] = op[j]
    BY <1>15, <1>a, <1>b DEF ReserveReboot, CanReboot, TypeOK
  <2>3. SelfUpdateExclusive'
    BY <2>1, <2>2 DEF Inv, SelfUpdateExclusive, IsInternal
  <2>4. ForcedRebootFence'
    BY <1>a, <2>1, <2>2, NotHolding DEF Inv, ForcedRebootFence
  <2>5. \A t \in Ids : pc[t] \notin BeforeReboot \cup DuringReboot
    BY <2>2 DEF Inv, ReservationOwned
  <2>6. status'[r] = "Pending"
    BY <1>15, <1>b DEF ReserveReboot, FailPending
  <2> QED
    BY <2>1, <2>2, <2>3, <2>4, <2>5, <2>6
<1>16. ASSUME NEW r \in RebootIds, NEW k \in Tiers, AdmitReboot(r, k) PROVE Inv'
  <2>1. PcType(GoTo(r, "reserved")) /\ pc[r] = "idle"
    BY <1>16, <1>a, <1>b, GoToType DEF AdmitReboot, ReserveReboot, RebootPcs
  <2>2. WaitersParked' /\ pc'[r] = "reserved" /\ \A u \in Ids \ {r} : Moves(pc, u)
    BY <1>16, <1>a, <1>b, <2>1, MoveOne DEF AdmitReboot, ReserveReboot, Inv
  <2>3. rebootJob' = rebootJob
    BY <1>16 DEF AdmitReboot
  <2>4. Calm
    BY <1>16, <1>b, <2>1, <2>2 DEF AdmitReboot, ReserveReboot, Calm, Moves, slotVars, taskVars
  <2>5. /\ WatchdogPhase' /\ SlotOwned' /\ SelfUpdateExclusive' /\ ForcedRebootFence'
        /\ \A t \in Ids : pc[t] \notin BeforeReboot \cup DuringReboot
        /\ reboot_pending' = r /\ status'[r] = "Pending"
    BY <1>15, <1>16, <2>4 DEF AdmitReboot
  <2>6. \A t \in Ids : pc'[t] \in BeforeReboot \cup DuringReboot => t = r
    BY <1>d, <2>2, <2>5 DEF Moves
  <2>7. ReservationOwned'
    BY <1>b, <1>d, <2>2, <2>5, <2>6 DEF ReservationOwned, RebootJob
  <2>8. \A j \in JobIds : rebootJob[j] # None =>
           /\ rebootJob[j] # r /\ pc'[j] = pc[j] /\ pc'[rebootJob[j]] = pc[rebootJob[j]]
    BY <1>b, <1>d, <1>f, <2>1, <2>2 DEF Moves
  <2>9. \A u \in RebootIds : pc'[u] = "guardDrop" => u # r
    BY <2>2
  <2>10. GuardHeld'
    BY <2>3, <2>5, <2>8, <2>9 DEF Inv, GuardHeld
  <2> QED
    BY <1>a, <2>2, <2>5, <2>7, <2>10 DEF Inv
<1>17. ASSUME NEW j \in JobIds, PatchReserveReboot(j) PROVE Inv'
  <2>1. pc[j] = "reserve" /\ rebootJob[j] = None
    BY <1>17, <1>d DEF PatchReserveReboot, Inv, GuardHeld
  <2>2. ASSUME NEW r \in RebootIds,
               ReserveReboot(r, "force", [pc EXCEPT ![j] = "reserved", ![r] = "guarded"]),
               rebootJob' = [rebootJob EXCEPT ![j] = r]
        PROVE  Inv'
    <3> DEFINE p == [pc EXCEPT ![j] = "reserved", ![r] = "guarded"]
    <3>0. /\ pc[r] = "idle" /\ j # r
          /\ p[j] = "reserved" /\ p[r] = "guarded" /\ \A u \in Ids \ {j, r} : p[u] = pc[u]
      BY <1>a, <1>b, <2>2 DEF ReserveReboot, TypeOK
    <3>1. PcType(p)
      BY <1>a, PatchReserveType
    <3>2. WaitersParked' /\ \A u \in Ids : Moves(p, u)
      <4>1. \A u \in Ids : p[u] # pc[u] => pc[u] # "parked"
        BY <2>1, <3>0
      <4>2. NotifyOne(p)
        BY <2>2 DEF ReserveReboot
      <4> HIDE DEF p
      <4> QED
        BY <1>a, <3>1, <4>1, <4>2, MovePc DEF Inv
    <3> HIDE DEF p
    <3>3. /\ pc'[j] = "reserved" /\ pc'[r] = "guarded"
          /\ \A u \in Ids \ {j, r} : Moves(pc, u)
      BY <1>b, <3>0, <3>2 DEF Moves
    <3>4. Calm
      BY <1>b, <2>1, <2>2, <3>0, <3>3 DEF ReserveReboot, Calm, Moves, slotVars, taskVars
    <3>5. /\ WatchdogPhase' /\ SlotOwned' /\ SelfUpdateExclusive' /\ ForcedRebootFence'
          /\ \A t \in Ids : pc[t] \notin BeforeReboot \cup DuringReboot
          /\ reboot_pending' = r /\ status'[r] = "Pending"
      BY <1>15, <2>2, <3>4 DEF Tiers
    <3>6. \A t \in Ids : pc'[t] \in BeforeReboot \cup DuringReboot => t = j
      BY <1>d, <3>3, <3>5 DEF Moves
    <3>7. rebootJob'[j] = r /\ \A i \in JobIds \ {j} : rebootJob'[i] = rebootJob[i]
      BY <1>a, <2>2 DEF TypeOK
    <3>8. ReservationOwned'
      BY <1>b, <1>d, <3>3, <3>5, <3>6, <3>7 DEF ReservationOwned, RebootJob
    <3>9. \A i \in JobIds \ {j} : rebootJob[i] # None =>
             /\ rebootJob[i] # r /\ pc'[i] = pc[i] /\ pc'[rebootJob[i]] = pc[rebootJob[i]]
      BY <1>b, <1>d, <1>f, <3>0, <3>3 DEF Moves
    <3>10. \A u \in RebootIds : pc'[u] = "guardDrop" => u # r
      BY <3>3
    <3>11. ASSUME NEW i \in JobIds, rebootJob'[i] # None
           PROVE  /\ pc'[i] \in BeforeReboot \cup DuringReboot \cup {"complete"}
                  /\ pc'[rebootJob'[i]] = "guarded"
                  /\ pc'[i] = "complete" => reboot_pending' # rebootJob'[i]
                  /\ \A m \in JobIds \ {i} : rebootJob'[m] # rebootJob'[i]
      <4>1. CASE i = j
        BY <1>b, <1>d, <3>3, <3>7, <3>9, <4>1
      <4>2. CASE i # j
        BY <3>5, <3>7, <3>9, <3>11, <4>2 DEF Inv, GuardHeld
      <4> QED
        BY <4>1, <4>2
    <3>12. GuardHeld'
      BY <3>5, <3>10, <3>11 DEF GuardHeld
    <3> QED
      BY <1>a, <3>2, <3>5, <3>8, <3>12 DEF Inv
  <2>3. CASE pc' = GoTo(j, "complete") /\ UNCHANGED <<admission, status, op, slotVars,
                self_update, reboot_pending, permit, waiters, taskVars, rebootJob, tier>>
    <3>1. PcType(GoTo(j, "complete"))
      BY <1>a, <1>b, GoToType DEF JobPcs
    <3>2. WaitersParked' /\ pc'[j] = "complete" /\ \A u \in Ids \ {j} : Moves(pc, u)
      BY <1>a, <1>b, <2>1, <2>3, <3>1, MoveOne DEF Inv
    <3>3. /\ op' = op /\ status' = status
          /\ UNCHANGED <<self_update, active_mutation, mutation_generation, gen, watchdog,
                         result, reboot_pending, rebootJob, tier>>
      BY <2>3 DEF slotVars, taskVars
    <3> QED
      BY <1>a, <1>b, <1>c, <2>1, <3>2, <3>3, OrdinaryMove
  <2> QED
    BY <1>17, <2>2, <2>3 DEF PatchReserveReboot
<1>18. ASSUME NEW t \in Ids, RebootCommandOk(t) PROVE Inv'
  <2> DEFINE r == RebootJob(t)
             p == [pc EXCEPT ![t] = "done", ![r] = "done"]
  <2>1. pc[t] = "rebootCmd" /\ pc' = p /\ waiters' = waiters
    BY <1>18 DEF RebootCommandOk
  <2>2. /\ reboot_pending = r /\ r \in RebootIds /\ r \in Ids
        /\ t \in JobIds => rebootJob[t] = r /\ pc[r] = "guarded"
        /\ t \in RebootIds => r = t
    BY <1>b, <1>d, <1>e, <1>f, <2>1 DEF RebootJob
  <2>3. /\ \A j \in JobIds : rebootJob'[j] = IF j = t THEN None ELSE rebootJob[j]
        /\ status' = status
        /\ UNCHANGED <<active_mutation, mutation_generation, gen, watchdog, result,
                       op, self_update, reboot_pending, tier>>
    BY <1>18 DEF RebootCommandOk, slotVars, taskVars
  <2> HIDE DEF r
  <2>4. /\ pc'[t] = "done" /\ pc'[r] = "done"
        /\ \A u \in Ids \ {t, r} : pc'[u] = pc[u]
        /\ pc[r] \in {"guarded", "rebootCmd"}
    BY <1>a, <1>b, <2>1, <2>2 DEF TypeOK, Ids
  <2>5. WaitersParked'
    <3>a. waiters \in Seq(JobIds)
      BY <1>a DEF TypeOK
    <3>b. \A i \in 1..Len(waiters) : waiters[i] \in JobIds /\ pc[waiters[i]] = "parked"
      BY <3>a DEF Inv, WaitersParked
    <3>1. \A i \in 1..Len(waiters) : waiters[i] \in Ids /\ waiters[i] \notin {t, r}
      BY <1>b, <2>1, <2>4, <3>b
    <3>2. \A i \in 1..Len(waiters) : pc'[waiters[i]] = pc[waiters[i]]
      BY <2>4, <3>1
    <3> QED
      BY <2>1, <3>2 DEF Inv, WaitersParked
  <2>6. Calm
    BY <1>b, <2>1, <2>2, <2>3, <2>4 DEF Calm
  <2>7. WatchdogPhase' /\ SlotOwned' /\ \A j \in JobIds : Holding(j)' => Holding(j)
    BY <2>6, CalmSlot DEF Inv
  <2>8. SelfUpdateExclusive' /\ ForcedRebootFence'
    BY <2>3, <2>7, FencesKept DEF Inv
  <2>9. \A u \in Ids : pc'[u] \notin BeforeReboot \cup DuringReboot
    <3> SUFFICES ASSUME NEW u \in Ids, pc'[u] \in BeforeReboot \cup DuringReboot
                 PROVE  FALSE
      OBVIOUS
    <3>1. u \notin {t, r} /\ pc'[u] = pc[u]
      BY <1>d, <2>4
    <3> QED
      BY <1>a, <1>d, <2>1, <3>1, SoleOwner DEF Inv
  <2>10. ReservationOwned'
    BY <2>9 DEF ReservationOwned
  <2>11. ASSUME NEW j \in JobIds, rebootJob'[j] # None
         PROVE  /\ j # t /\ pc'[j] = pc[j] /\ rebootJob'[j] = rebootJob[j]
                /\ pc'[rebootJob[j]] = pc[rebootJob[j]]
    <3>1. j # t /\ rebootJob'[j] = rebootJob[j]
      BY <2>3, <2>11
    <3>2. rebootJob[j] # r /\ rebootJob[j] # t
      <4>1. CASE t \in JobIds
        BY <1>b, <1>f, <2>2, <2>11, <3>1, <4>1 DEF Inv, GuardHeld
      <4>2. CASE t \in RebootIds
        BY <1>f, <2>1, <2>2, <2>11, <3>1, <4>2
      <4> QED
        BY <4>1, <4>2 DEF Ids
    <3> QED
      BY <1>b, <1>f, <2>2, <2>4, <2>11, <3>1, <3>2
  <2>12. \A u \in RebootIds : pc'[u] = "guardDrop" => pc[u] = "guardDrop"
    BY <1>b, <2>4
  <2>13. \A j, k \in JobIds : rebootJob'[j] # None /\ rebootJob'[k] = rebootJob'[j] => k = j
    BY <2>11 DEF Inv, GuardHeld
  <2>14. GuardHeld'
    BY <2>3, <2>11, <2>12, <2>13 DEF Inv, GuardHeld
  <2> QED
    BY <1>a, <2>5, <2>7, <2>8, <2>10, <2>14 DEF Inv
<1>19. ASSUME NEW r \in RebootIds, GuardDrop(r) PROVE Inv'
  <2>1. pc[r] = "guardDrop" /\ reboot_pending # r
    BY <1>19 DEF GuardDrop, Inv, GuardHeld
  <2>2. /\ pc' = GoTo(r, "done") /\ waiters' = waiters /\ status' = status
        /\ UNCHANGED <<active_mutation, mutation_generation, gen, watchdog, result,
                       op, self_update, rebootJob, reboot_pending, tier>>
    BY <1>19, <2>1 DEF GuardDrop, RollbackReboot, slotVars, taskVars
  <2>3. PcType(GoTo(r, "done"))
    BY <1>a, <1>b, GoToType DEF RebootPcs
  <2>4. WaitersParked' /\ pc'[r] = "done" /\ \A u \in Ids \ {r} : Moves(pc, u)
    BY <1>a, <1>b, <2>1, <2>2, <2>3, MoveOne DEF Inv
  <2>5. Calm
    BY <1>b, <2>1, <2>2, <2>4 DEF Calm, Moves
  <2>6. WatchdogPhase' /\ SlotOwned' /\ \A j \in JobIds : Holding(j)' => Holding(j)
    BY <2>5, CalmSlot DEF Inv
  <2>7. SelfUpdateExclusive' /\ ForcedRebootFence'
    BY <2>2, <2>6, FencesKept DEF Inv
  <2>8. \A u \in Ids : pc'[u] \in InReboot => pc'[u] = pc[u]
    BY <1>c, <2>4 DEF Moves
  <2>9. ReservationOwned'
    BY <1>c, <1>d, <2>2, <2>8 DEF Inv, ReservationOwned, RebootJob
  <2>10. \A j \in JobIds : rebootJob[j] # None =>
            pc'[j] = pc[j] /\ pc'[rebootJob[j]] = pc[rebootJob[j]]
    BY <1>b, <1>d, <1>f, <2>1, <2>4 DEF Moves
  <2>11. \A u \in RebootIds : pc'[u] = "guardDrop" => pc[u] = "guardDrop"
    BY <1>b, <1>c, <2>8
  <2>12. GuardHeld'
    BY <2>2, <2>10, <2>11 DEF Inv, GuardHeld
  <2> QED
    BY <1>a, <2>4, <2>6, <2>7, <2>9, <2>12 DEF Inv
<1>20. ASSUME NEW j \in JobIds, CompleteJob(j) PROVE Inv'
  <2> DEFINE p == [t \in Ids |-> IF t = j THEN AfterFinish(j)
                                ELSE IF t = rebootJob[j] THEN "guardDrop" ELSE pc[t]]
  <2>1. /\ pc[j] = "complete" /\ NotifyOne(p)
        /\ rebootJob' = [rebootJob EXCEPT ![j] = None]
        /\ \A r \in RebootIds : status'[r] = status[r]
        /\ UNCHANGED <<active_mutation, mutation_generation, gen, watchdog, result,
                       op, self_update, reboot_pending, tier>>
    BY <1>20, <1>a, <1>b DEF CompleteJob, FinishJob, TypeOK, slotVars, taskVars
  <2>2. /\ p[j] = AfterFinish(j) /\ AfterFinish(j) \in {"delete", "release", "done"}
        /\ \A u \in Ids \ {j} : p[u] = IF u = rebootJob[j] THEN "guardDrop" ELSE pc[u]
    BY <1>b DEF AfterFinish
  <2>3. PcType(p)
    <3>1. /\ "guardDrop" \in RebootPcs
          /\ AfterFinish(j) \in JobPcs
      BY <2>2 DEF JobPcs, RebootPcs
    <3>2. \A u \in JobIds : p[u] \in JobPcs
      BY <1>a, <1>b, <2>2, <3>1 DEF TypeOK
    <3>3. \A r \in RebootIds : p[r] \in RebootPcs
      BY <1>a, <1>b, <2>2, <3>1 DEF TypeOK
    <3>4. \A u \in Ids : p[u] \in Pcs
      BY <3>2, <3>3 DEF Pcs, Ids
    <3> QED BY <3>2, <3>3, <3>4 DEF PcType
  <2> HIDE DEF p
  <2>4. rebootJob[j] # None => /\ rebootJob[j] \in RebootIds /\ rebootJob[j] # j
                               /\ pc[rebootJob[j]] = "guarded"
                               /\ reboot_pending # rebootJob[j]
    BY <1>b, <1>f, <2>1 DEF Inv, GuardHeld
  <2>5. \A u \in Ids : p[u] # pc[u] => pc[u] \in {"complete", "guarded"}
    BY <1>b, <2>1, <2>2, <2>4
  <2>6. WaitersParked' /\ \A u \in Ids : Moves(p, u)
    BY <1>a, <2>1, <2>3, <2>5, MovePc DEF Inv
  <2>7. Calm
    <3>1. \A k \in JobIds : p[k] = IF k = j THEN AfterFinish(j) ELSE pc[k]
      BY <1>b, <2>2, <2>4
    <3> QED
      BY <1>b, <2>1, <2>2, <2>6, <3>1 DEF Calm, Moves
  <2>8. WatchdogPhase' /\ SlotOwned' /\ \A k \in JobIds : Holding(k)' => Holding(k)
    BY <2>7, CalmSlot DEF Inv
  <2>9. SelfUpdateExclusive' /\ ForcedRebootFence'
    BY <2>1, <2>8, FencesKept DEF Inv
  <2>10. \A k \in JobIds : rebootJob'[k] = IF k = j THEN None ELSE rebootJob[k]
    BY <1>a, <2>1 DEF TypeOK
  <2>11. \A u \in Ids : pc'[u] \in BeforeReboot \cup DuringReboot => pc'[u] = pc[u] /\ u # j
    BY <1>d, <2>2, <2>5, <2>6 DEF Moves
  <2>12. ReservationOwned'
    <3> SUFFICES ASSUME NEW u \in Ids, pc'[u] \in BeforeReboot \cup DuringReboot
                 PROVE  /\ reboot_pending' = RebootJob(u)'
                        /\ reboot_pending' # None
                        /\ status'[reboot_pending'] =
                              IF pc'[u] \in BeforeReboot THEN "Pending" ELSE "Rebooting"
      BY DEF ReservationOwned
    <3>1. pc'[u] = pc[u] /\ u # j /\ pc[u] \in BeforeReboot \cup DuringReboot
      BY <2>11
    <3>2. RebootJob(u)' = RebootJob(u)
      BY <2>10, <3>1 DEF RebootJob, Ids
    <3> QED
      BY <1>b, <1>e, <2>1, <3>1, <3>2
  <2>13. ASSUME NEW k \in JobIds, rebootJob'[k] # None
         PROVE  /\ k # j /\ pc'[k] = pc[k] /\ rebootJob'[k] = rebootJob[k]
                /\ pc'[rebootJob[k]] = pc[rebootJob[k]]
    <3>1. k # j /\ rebootJob'[k] = rebootJob[k]
      BY <2>10, <2>13
    <3>2. pc[k] # "parked" /\ pc[rebootJob[k]] = "guarded" /\ rebootJob[k] \in RebootIds
          /\ rebootJob[k] # rebootJob[j]
      BY <1>d, <1>f, <2>13, <3>1 DEF Inv, GuardHeld
    <3>a. rebootJob[j] \in RebootIds \cup {None}
      BY <1>a DEF TypeOK
    <3>3. k # rebootJob[j] /\ rebootJob[k] # j
      BY <1>b, <3>a, <3>2
    <3> QED
      BY <1>b, <2>2, <2>6, <3>1, <3>2, <3>3 DEF Moves
  <2>14. \A u \in RebootIds : pc'[u] = "guardDrop" => pc[u] = "guardDrop" \/ u = rebootJob[j]
    BY <1>b, <2>2, <2>6 DEF Moves
  <2>15. \A k, m \in JobIds : rebootJob'[k] # None /\ rebootJob'[m] = rebootJob'[k] => m = k
    BY <2>13 DEF Inv, GuardHeld
  <2>16. \A u \in RebootIds : pc'[u] = "guardDrop" => reboot_pending' # u
    BY <1>b, <2>1, <2>4, <2>14 DEF Inv, GuardHeld
  <2>17. GuardHeld'
    BY <2>1, <2>13, <2>15, <2>16 DEF Inv, GuardHeld
  <2> QED
    BY <1>a, <2>6, <2>8, <2>9, <2>12, <2>17 DEF Inv
<1>21. ASSUME NEW j \in JobIds, DispatchAcquire(j) PROVE Inv'
  <2>1. /\ pc[j] \in {"dispatch", "woken"}
        /\ reboot_pending = None /\ self_update \in {None, j} /\ active_mutation = None
    BY <1>21 DEF DispatchAcquire, Rejected, MustWait
  <2>2. /\ pc' = GoTo(j, "acquired") /\ waiters' = waiters
        /\ active_mutation' = j
        /\ gen'[j] = mutation_generation'
        /\ \A r \in RebootIds : status'[r] = status[r]
        /\ UNCHANGED <<watchdog, result, self_update, reboot_pending, rebootJob>>
    BY <1>21, <1>a, <1>b DEF DispatchAcquire, TypeOK, taskVars
  <2>3. PcType(GoTo(j, "acquired"))
    BY <1>a, <1>b, GoToType DEF JobPcs
  <2>4. WaitersParked' /\ pc'[j] = "acquired" /\ \A u \in Ids \ {j} : Moves(pc, u)
    BY <1>a, <1>b, <2>1, <2>2, <2>3, MoveOne DEF Inv
  <2>5. \A k \in JobIds : ~Holding(k)
    BY <1>a, <2>1, NotHolding DEF Inv
  <2>6. \A k \in JobIds : Holding(k)' => k = j
    BY <1>b, <2>2, <2>4, <2>5 DEF Holding, Moves
  <2>7. SlotOwned'
    BY <2>2, <2>6 DEF SlotOwned
  <2>8. WatchdogPhase'
    BY <1>b, <2>1, <2>2, <2>4 DEF Inv, WatchdogPhase, Moves
  <2>9. SelfUpdateExclusive' /\ ForcedRebootFence'
    BY <2>1, <2>2, <2>6 DEF SelfUpdateExclusive, ForcedRebootFence
  <2>10. Aside
    BY <1>c, <2>1, <2>2, <2>4 DEF Aside, Moves
  <2>11. ReservationOwned' /\ GuardHeld'
    BY <1>a, <2>10, AsideReservation DEF Inv
  <2> QED
    BY <1>a, <2>4, <2>7, <2>8, <2>9, <2>11 DEF Inv
<1>22. ASSUME NEW j \in JobIds, SpawnWatchdog(j) PROVE Inv'
  <2>1. /\ pc[j] = "acquired" /\ pc' = GoTo(j, "await") /\ waiters' = waiters
        /\ watchdog' = [watchdog EXCEPT ![j] = "running"]
        /\ status' = status /\ op' = op
        /\ UNCHANGED <<active_mutation, mutation_generation, gen, result, self_update,
                       reboot_pending, rebootJob, tier>>
    BY <1>22 DEF SpawnWatchdog, slotVars
  <2>2. PcType(GoTo(j, "await"))
    BY <1>a, <1>b, GoToType DEF JobPcs
  <2>3. WaitersParked' /\ pc'[j] = "await" /\ \A u \in Ids \ {j} : Moves(pc, u)
    BY <1>a, <1>b, <2>1, <2>2, MoveOne DEF Inv
  <2>4. \A k \in JobIds : watchdog'[k] = IF k = j THEN "running" ELSE watchdog[k]
    BY <1>a, <2>1 DEF TypeOK
  <2>5. \A k \in JobIds : Holding(k)' => Holding(k)
    BY <1>b, <2>1, <2>3, <2>4 DEF Holding, Moves
  <2>6. SlotOwned'
    BY <2>1, <2>5 DEF Inv, SlotOwned
  <2>7. WatchdogPhase'
    BY <1>b, <2>1, <2>3, <2>4 DEF Inv, WatchdogPhase, Moves
  <2>8. SelfUpdateExclusive' /\ ForcedRebootFence'
    BY <2>1, <2>5, FencesKept DEF Inv
  <2>9. Aside
    BY <1>c, <2>1, <2>3 DEF Aside, Moves
  <2>10. ReservationOwned' /\ GuardHeld'
    BY <1>a, <2>9, AsideReservation DEF Inv
  <2> QED
    BY <1>a, <2>3, <2>6, <2>7, <2>8, <2>10 DEF Inv
<1>23. ASSUME NEW j \in JobIds, PollNotified(j) PROVE Inv'
  <2>1. /\ pc[j] = "parking" /\ op' = op /\ status' = status
        /\ UNCHANGED <<active_mutation, mutation_generation, gen, watchdog, result,
                       self_update, reboot_pending, rebootJob, tier>>
    BY <1>23 DEF PollNotified, slotVars, taskVars
  <2>2. CASE pc' = GoTo(j, "dispatch") /\ waiters' = waiters
    <3>1. PcType(GoTo(j, "dispatch"))
      BY <1>a, <1>b, GoToType DEF JobPcs
    <3> QED
      BY <1>a, <1>b, <1>c, <2>1, <2>2, <3>1, OrdinaryStep
  <2>3. CASE pc' = GoTo(j, "parked") /\ waiters' = Append(waiters, j)
    <3>1. pc'[j] = "parked" /\ \A u \in Ids \ {j} : pc'[u] = pc[u]
      BY <1>a, <1>b, <2>3 DEF GoTo, TypeOK
    <3>2. /\ Len(waiters) \in Nat /\ Len(waiters') = Len(waiters) + 1
          /\ waiters'[Len(waiters) + 1] = j
          /\ \A i \in 1..Len(waiters) : waiters'[i] = waiters[i] /\ waiters[i] \in Ids
      <4>1. waiters \in Seq(JobIds) /\ JobIds \subseteq Ids
        BY <1>a, <1>b DEF TypeOK
      <4> QED BY <2>3, <4>1
    <3>3. \A i \in 1..Len(waiters) : waiters[i] # j /\ pc[waiters[i]] = "parked"
      BY <2>1 DEF Inv, WaitersParked
    <3>4. \A i \in 1..Len(waiters') : i \in 1..Len(waiters) \/ i = Len(waiters) + 1
      <4> DEFINE n == Len(waiters)
                 m == Len(waiters')
      <4>1. n \in Nat /\ m = n + 1
        BY <3>2
      <4> HIDE DEF n, m
      <4>2. \A i \in 1..m : i \in 1..n \/ i = n + 1
        BY <4>1
      <4> QED BY <4>2 DEF n, m
    <3>5. \A i \in 1..Len(waiters') : pc'[waiters'[i]] = "parked"
      BY <3>1, <3>2, <3>3, <3>4
    <3>6. \A i, k \in 1..Len(waiters') : waiters'[i] = waiters'[k] => i = k
      BY <3>2, <3>3, <3>4 DEF Inv, WaitersParked
    <3>7. WaitersParked'
      BY <3>5, <3>6 DEF WaitersParked
    <3>8. \A u \in Ids \ {j} : Moves(pc, u)
      BY <3>1 DEF Moves
    <3> QED
      BY <1>a, <1>b, <1>c, <2>1, <3>1, <3>7, <3>8, OrdinaryMove
  <2>4. \/ pc' = GoTo(j, "dispatch") /\ waiters' = waiters
        \/ pc' = GoTo(j, "parked") /\ waiters' = Append(waiters, j)
    <3>1. CASE permit = TRUE
      BY <1>23, <3>1 DEF PollNotified
    <3>2. CASE permit = FALSE
      BY <1>23, <3>2 DEF PollNotified
    <3> QED
      BY <1>a, <3>1, <3>2 DEF TypeOK
  <2> QED
    BY <2>2, <2>3, <2>4
<1>24. ASSUME waiters' = waiters, pc' = pc, UNCHANGED <<slotVars, watchdog, result>>,
              UNCHANGED <<op, self_update, reboot_pending, rebootJob, tier>>,
              \A r \in RebootIds : status[r] \in {"Pending", "Rebooting"} => status'[r] = status[r]
       PROVE  Inv'
  <2>1. WaitersParked'
    BY <1>24 DEF Inv, WaitersParked
  <2>2. Calm /\ Aside
    BY <1>24 DEF Calm, Aside, slotVars
  <2>3. WatchdogPhase' /\ SlotOwned' /\ \A j \in JobIds : Holding(j)' => Holding(j)
    BY <2>2, CalmSlot DEF Inv
  <2>4. SelfUpdateExclusive' /\ ForcedRebootFence'
    BY <1>24, <2>3, FencesKept DEF Inv
  <2>5. ReservationOwned' /\ GuardHeld'
    BY <1>a, <2>2, AsideReservation DEF Inv
  <2> QED
    BY <1>a, <2>1, <2>3, <2>4, <2>5 DEF Inv
<1>25. ASSUME NEW j \in JobIds, ClosureExits(j) PROVE Inv'
  BY <1>24, <1>25 DEF ClosureExits, notifyVars
<1>26. ASSUME NEW j \in Ids, DeleteJob(j) PROVE Inv'
  <2>1. \A r \in RebootIds : status[r] \in {"Pending", "Rebooting"} => status'[r] = status[r]
    BY <1>26, <1>a, <1>b DEF DeleteJob, TypeOK, Terminal
  <2> QED
    BY <1>24, <1>26, <2>1 DEF DeleteJob, notifyVars, taskVars
<1>27. PcType(pc) /\ \A u \in Ids : pc[u] # pc[u] => pc[u] # "parked"
  BY <1>a DEF TypeOK, PcType, Pcs
<1>28. ASSUME FreezeAdmission PROVE Inv'
  <2>1. WaitersParked' /\ \A u \in Ids : Moves(pc, u)
    BY <1>28, <1>a, <1>27, MovePc DEF FreezeAdmission, Inv
  <2>2. /\ status' = status /\ op' = op
        /\ UNCHANGED <<active_mutation, mutation_generation, gen, watchdog, result,
                       self_update, reboot_pending, rebootJob, tier>>
    BY <1>28 DEF FreezeAdmission, slotVars, taskVars
  <2>3. Calm /\ Aside
    BY <1>b, <1>c, <2>1, <2>2 DEF Calm, Aside, Moves
  <2>4. WatchdogPhase' /\ SlotOwned' /\ \A j \in JobIds : Holding(j)' => Holding(j)
    BY <2>3, CalmSlot DEF Inv
  <2>5. SelfUpdateExclusive' /\ ForcedRebootFence'
    BY <2>2, <2>4, FencesKept DEF Inv
  <2>6. ReservationOwned' /\ GuardHeld'
    BY <1>a, <2>3, AsideReservation DEF Inv
  <2> QED
    BY <1>a, <2>1, <2>4, <2>5, <2>6 DEF Inv
<1>29. ASSUME NEW j \in JobIds, WatchdogFinalize(j) PROVE Inv'
  <2>1. /\ watchdog[j] = "running" /\ NotifyOne(pc) /\ op' = op
        /\ watchdog' = [watchdog EXCEPT ![j] = "none"]
        /\ UNCHANGED <<self_update, reboot_pending, rebootJob, tier>>
    BY <1>29 DEF WatchdogFinalize
  <2>2. \A r \in RebootIds : status'[r] = status[r]
    BY <1>29, <1>a, <1>b DEF WatchdogFinalize, TypeOK
  <2>3. \A k \in JobIds : result'[k] # result[k] => k = j /\ pc[k] = "await"
    BY <1>29, <1>a DEF WatchdogFinalize, TypeOK
  <2>4. WaitersParked' /\ \A u \in Ids : Moves(pc, u)
    BY <1>a, <1>27, <2>1, MovePc DEF Inv
  <2>5. \A k \in JobIds : watchdog'[k] = IF k = j THEN "none" ELSE watchdog[k]
    BY <1>a, <2>1 DEF TypeOK
  <2>6. \A k \in JobIds : Holding(k) => k = j
    BY <1>a, <2>1 DEF Inv, SlotOwned, Holding
  <2>7. pc[j] \in {"await", "dropped"} /\ result[j] = "none"
    BY <2>1 DEF Inv, WatchdogPhase
  <2>8. \A k \in JobIds : ~Holding(k)'
    BY <1>b, <2>4, <2>5, <2>6, <2>7 DEF Holding, Moves
  <2>9. SlotOwned' /\ SelfUpdateExclusive'
    BY <2>8 DEF SlotOwned, SelfUpdateExclusive
  <2>10. ForcedRebootFence'
    BY <2>1, <2>8 DEF Inv, ForcedRebootFence
  <2>11. WatchdogPhase'
    BY <1>b, <2>3, <2>4, <2>5, <2>7 DEF Inv, WatchdogPhase, Moves
  <2>12. Aside
    BY <1>c, <2>1, <2>2, <2>4 DEF Aside, Moves
  <2>13. ReservationOwned' /\ GuardHeld'
    BY <1>a, <2>12, AsideReservation DEF Inv
  <2> QED
    BY <1>a, <2>4, <2>9, <2>10, <2>11, <2>13 DEF Inv
<1>30. ASSUME NEW j \in JobIds, ReceiveResult(j) PROVE Inv'
  <2>1. PICK l \in {"complete", "fail", "reserve"} : pc' = GoTo(j, l)
    BY <1>30 DEF ReceiveResult
  <2>2. /\ pc[j] = "await" /\ result[j] # "none" /\ waiters' = waiters
        /\ result' = [result EXCEPT ![j] = "none"]
        /\ status' = status /\ op' = op
        /\ UNCHANGED <<active_mutation, mutation_generation, gen, watchdog, self_update,
                       reboot_pending, rebootJob, tier>>
    BY <1>30 DEF ReceiveResult, slotVars
  <2>3. PcType(GoTo(j, l))
    BY <1>a, <1>b, GoToType DEF JobPcs
  <2>4. WaitersParked' /\ pc'[j] = l /\ \A u \in Ids \ {j} : Moves(pc, u)
    BY <1>a, <1>b, <2>1, <2>2, <2>3, MoveOne DEF Inv
  <2>5. \A k \in JobIds : result'[k] = IF k = j THEN "none" ELSE result[k]
    BY <1>a, <2>2 DEF TypeOK
  <2>6. watchdog[j] # "running"
    BY <2>2 DEF Inv, WatchdogPhase
  <2>7. WatchdogPhase'
    BY <1>b, <2>2, <2>4, <2>5, <2>6 DEF Inv, WatchdogPhase, Moves
  <2>8. \A k \in JobIds : Holding(k)' => Holding(k)
    BY <1>b, <2>2, <2>4 DEF Holding, Moves
  <2>9. SlotOwned'
    BY <2>2, <2>8 DEF Inv, SlotOwned
  <2>10. SelfUpdateExclusive' /\ ForcedRebootFence'
    BY <2>2, <2>8, FencesKept DEF Inv
  <2>11. Aside
    BY <1>c, <2>2, <2>4 DEF Aside, Moves
  <2>12. ReservationOwned' /\ GuardHeld'
    BY <1>a, <2>11, AsideReservation DEF Inv
  <2> QED
    BY <1>a, <2>4, <2>7, <2>9, <2>10, <2>12 DEF Inv
<1>31. ASSUME NEW j \in JobIds, CallerDropped(j) PROVE Inv'
  <2>1. /\ op' = op /\ status' = status
        /\ UNCHANGED <<active_mutation, mutation_generation, gen, watchdog, result,
                       self_update, reboot_pending, rebootJob, tier>>
    BY <1>31 DEF CallerDropped, slotVars, taskVars
  <2>2. PcType(GoTo(j, "dropped"))
    BY <1>a, <1>b, GoToType DEF JobPcs
  <2>3. pc[j] \in {"dispatch", "woken", "parking", "acquired", "await", "parked"}
    BY <1>31 DEF CallerDropped
  <2>4. WaitersParked' /\ pc'[j] = "dropped" /\ \A u \in Ids \ {j} : Moves(pc, u)
    <3>1. CASE /\ pc[j] # "parked"
               /\ NotifyOne(GoTo(j, "dropped")) \/ (pc' = GoTo(j, "dropped") /\ waiters' = waiters)
      BY <1>a, <1>b, <2>2, <3>1, MoveOne DEF Inv
    <3>2. ASSUME NEW i \in 1..Len(waiters), waiters[i] = j, pc' = GoTo(j, "dropped"),
                 waiters' = SubSeq(waiters, 1, i - 1) \o SubSeq(waiters, i + 1, Len(waiters))
          PROVE  WaitersParked' /\ pc'[j] = "dropped" /\ \A u \in Ids \ {j} : Moves(pc, u)
      <4>1. pc'[j] = "dropped" /\ \A u \in Ids \ {j} : pc'[u] = pc[u]
        BY <1>a, <1>b, <3>2 DEF GoTo, TypeOK
      <4>2. /\ Len(waiters) \in Nat /\ i \in Nat
            /\ Len(waiters') = Len(waiters) - 1
            /\ \A k \in 1..Len(waiters') :
                  waiters'[k] = waiters[IF k < i THEN k ELSE k + 1]
        <5>1. waiters \in Seq(JobIds)
          BY <1>a DEF TypeOK
        <5>2. /\ Len(waiters') = Len(waiters) - 1
              /\ \A k \in 1..Len(waiters') :
                    waiters'[k] = waiters[IF k < i THEN k ELSE k + 1]
          BY <3>2, <5>1, RemovedAt, Zenon
        <5> QED
          BY <5>1, <5>2
      <4> DEFINE at(k) == IF k < i THEN k ELSE k + 1
      <4>3. \A k \in 1..Len(waiters') : at(k) \in 1..Len(waiters) /\ at(k) # i
        BY <4>2
      <4>4. \A k, m \in 1..Len(waiters') : at(k) = at(m) => k = m
        BY <4>2
      <4>5. \A k \in 1..Len(waiters') : waiters'[k] = waiters[at(k)]
        BY <4>2
      <4> HIDE DEF at
      <4>6. \A k \in 1..Len(waiters) : waiters[k] \in Ids
        BY <1>a, <1>b DEF TypeOK
      <4>7. \A k \in 1..Len(waiters') : waiters'[k] # j /\ waiters'[k] \in Ids
                                        /\ pc[waiters'[k]] = "parked"
        <5>1. \A k \in 1..Len(waiters) : k # i => waiters[k] # j /\ pc[waiters[k]] = "parked"
          BY <3>2 DEF Inv, WaitersParked
        <5> QED
          BY <4>3, <4>5, <4>6, <5>1
      <4>8. \A k \in 1..Len(waiters') : pc'[waiters'[k]] = "parked"
        BY <4>1, <4>7
      <4>9. \A k, m \in 1..Len(waiters') : waiters'[k] = waiters'[m] => k = m
        BY <4>3, <4>4, <4>5 DEF Inv, WaitersParked
      <4> QED
        BY <4>1, <4>8, <4>9 DEF WaitersParked, Moves
    <3> QED
      BY <1>31, <3>1, <3>2 DEF CallerDropped
  <2> QED
    BY <1>a, <1>b, <1>c, <2>1, <2>3, <2>4, OrdinaryMove
<1> QED
  BY <1>1, <1>2, <1>3, <1>4, <1>5, <1>6, <1>7, <1>8, <1>9, <1>10, <1>11, <1>12,
     <1>13, <1>14, <1>16, <1>17, <1>18, <1>19, <1>20, <1>21, <1>22, <1>23, <1>25,
     <1>26, <1>28, <1>29, <1>30, <1>31
     DEF Next, Environment, JobTask, RebootTask, Ops, Tiers

\* The inductive invariant holds in every reachable state.
THEOREM InvHolds == Spec => []Inv
<1>1. Init => Inv
  <2> SUFFICES ASSUME Init PROVE Inv
    OBVIOUS
  <2>1. TypeOK
    BY InitType
  <2>2. WaitersParked
    BY DEF Init, WaitersParked
  <2>3. WatchdogPhase /\ SlotOwned /\ SelfUpdateExclusive /\ ForcedRebootFence
    BY DEF Init, WatchdogPhase, SlotOwned, SelfUpdateExclusive, ForcedRebootFence, Holding, Ids
  <2>4. ReservationOwned /\ GuardHeld
    BY DEF Init, ReservationOwned, GuardHeld, BeforeReboot, DuringReboot, Ids
  <2> QED
    BY <2>1, <2>2, <2>3, <2>4 DEF Inv
<1>2. Inv /\ UNCHANGED vars => Inv'
  <2> SUFFICES ASSUME Inv, UNCHANGED vars PROVE Inv'
    OBVIOUS
  <2> USE DEF vars
  <2>1. TypeOK'
    BY DEF Inv, TypeOK
  <2>2. WaitersParked' /\ WatchdogPhase' /\ SlotOwned'
    BY DEF Inv, WaitersParked, WatchdogPhase, SlotOwned, Holding
  <2>3. SelfUpdateExclusive' /\ ForcedRebootFence'
    BY DEF Inv, SelfUpdateExclusive, ForcedRebootFence, Holding, IsInternal
  <2>4. ReservationOwned' /\ GuardHeld'
    BY DEF Inv, ReservationOwned, GuardHeld, RebootJob
  <2> QED
    BY <2>1, <2>2, <2>3, <2>4 DEF Inv
<1> QED
  BY <1>1, <1>2, InvStep, PTL DEF Spec

\* At most one package mutation is between acquisition and finalization, with
\* any number of tasks, whoever is dropped and however the watchdog's timer
\* races the closure.
THEOREM MutualExclusion == Spec => []OneMutation
<1>1. Inv => OneMutation
  BY DEF Inv, SlotOwned, OneMutation
<1> QED
  BY <1>1, InvHolds, PTL

\* While a self-update is reserved only it, or a cache refresh that was there
\* before, is under way.
THEOREM SelfUpdateIsExclusive == Spec => []SelfUpdateExclusive
<1>1. Inv => SelfUpdateExclusive
  BY DEF Inv
<1> QED
  BY <1>1, InvHolds, PTL

\* A forced reboot without the corruption acknowledgement never meets a
\* mutation or a self-update.
THEOREM ForcedRebootIsFenced == Spec => []ForcedRebootFence
<1>1. Inv => ForcedRebootFence
  BY DEF Inv
<1> QED
  BY <1>1, InvHolds, PTL

\* begin_reboot_execution always finds the reservation its caller made.
THEOREM OwnerAlwaysBegins == Spec => []OwnerBegins
<1>1. Inv => OwnerBegins
  BY DEF Inv, ReservationOwned, OwnerBegins, BeforeReboot, DuringReboot
<1> QED
  BY <1>1, InvHolds, PTL

\* A step clears or replaces a reservation only as the rollback of its owner.
LEMMA OnlyOwnerClears ==
    ASSUME Inv, Next, reboot_pending # None, reboot_pending' # reboot_pending
    PROVE  /\ reboot_pending' = None
           /\ \E t \in Ids : pc[t] = "rollback" /\ RebootJob(t) = reboot_pending
<1>1. ASSUME NEW t \in Ids, RebootFailed(t)
      PROVE  /\ reboot_pending' = None
             /\ pc[t] = "rollback" /\ RebootJob(t) = reboot_pending
  BY <1>1 DEF RebootFailed, RollbackReboot
<1>2. ASSUME NEW r \in RebootIds, GuardDrop(r) PROVE FALSE
  BY <1>2 DEF GuardDrop, RollbackReboot, Inv, GuardHeld
<1>3. ASSUME Environment PROVE FALSE
  BY <1>3 DEF Environment, AdmitJob, TryReserveSelfUpdate, CreateRollbackJob, AdmitReboot,
              ReserveReboot, CanReboot, DeleteJob, FreezeAdmission
<1>4. ASSUME NEW j \in JobIds, JobTask(j) PROVE FALSE
  <2>1. CASE PatchReserveReboot(j)
    BY <2>1 DEF PatchReserveReboot, ReserveReboot, CanReboot
  <2>2. CASE \/ DispatchReject(j) \/ DispatchWait(j) \/ PollNotified(j)
             \/ DispatchAcquire(j) \/ SpawnWatchdog(j) \/ ReceiveResult(j)
    BY <2>2 DEF DispatchReject, DispatchWait, PollNotified, DispatchAcquire,
                SpawnWatchdog, ReceiveResult
  <2>3. CASE \/ SetJobRebooting(j) \/ CompleteJob(j) \/ FailJob(j)
             \/ DeleteTrackingJob(j) \/ ReleaseSelfUpdate(j)
    BY <2>3 DEF SetJobRebooting, CompleteJob, FailJob, FinishJob, DeleteTrackingJob,
                ReleaseSelfUpdate
  <2> QED
    BY <1>4, <2>1, <2>2, <2>3 DEF JobTask
<1>5. ASSUME NEW t \in Ids, RebootTask(t) PROVE RebootFailed(t)
  BY <1>5 DEF RebootTask, ReserveReturns, BeginRebootExecution, RebootCommandOk,
              RebootCommandErr
<1>6. ASSUME NEW j \in JobIds, ClosureExits(j) \/ WatchdogFinalize(j) \/ CallerDropped(j)
      PROVE  FALSE
  BY <1>6 DEF ClosureExits, WatchdogFinalize, CallerDropped
<1>7. ASSUME NEW r \in RebootIds, HandlerDropped(r) PROVE FALSE
  BY <1>7 DEF HandlerDropped
<1> QED
  BY <1>1, <1>2, <1>3, <1>4, <1>5, <1>6, <1>7 DEF Next

\* A reboot reservation is only ever cleared by the rollback of its owner.
THEOREM ReservationNeverStolen == Spec => ReservationClearedByOwner
<1>1. Inv /\ [Next]_vars =>
        [(reboot_pending # None /\ reboot_pending' # reboot_pending) =>
            /\ reboot_pending' = None
            /\ \E t \in Ids : pc[t] = "rollback" /\ RebootJob(t) = reboot_pending]_vars
  BY OnlyOwnerClears DEF vars
<1> QED
  BY <1>1, InvHolds, PTL DEF Spec, ReservationClearedByOwner

-----------------------------------------------------------------------------
(* max_concurrent *)

\* The Running jobs are finitely many and no more than max_concurrent.
Bounded == IsFiniteSet(RunningJobs) /\ ConcurrencyBound

\* A step that makes no job Running keeps the bound.
LEMMA NoneStarts ==
    ASSUME Bounded, \A j \in Ids : status'[j] = "Running" => status[j] = "Running"
    PROVE  Bounded'
<1>1. RunningJobs' \subseteq RunningJobs
  BY DEF RunningJobs
<1>2. /\ IsFiniteSet(RunningJobs') /\ Cardinality(RunningJobs') <= Cardinality(RunningJobs)
      /\ Cardinality(RunningJobs') \in Nat /\ Cardinality(RunningJobs) \in Nat
  BY <1>1, FS_Subset, FS_CardinalityType DEF Bounded
<1>3. Cardinality(RunningJobs') <= MaxConcurrent
  BY <1>2, SchedulerAssumption DEF Bounded, ConcurrencyBound
<1>. QED
  BY <1>2, <1>3 DEF Bounded, ConcurrencyBound

\* Only the acquisition of the slot makes a job Running, and it looks at the
\* count first.
LEMMA BoundedStep == ASSUME TypeOK, Bounded, Next PROVE Bounded'
<1>1. ASSUME NEW j \in JobIds, NEW o \in Ops, AdmitJob(j, o) PROVE Bounded'
  BY <1>1, NoneStarts
    DEF AdmitJob, slotVars, notifyVars, taskVars, TypeOK, Ids, RebootJob,
        Terminal
<1>2. ASSUME NEW j \in JobIds, CreateRollbackJob(j) PROVE Bounded'
  BY <1>2, NoneStarts
    DEF CreateRollbackJob, slotVars, notifyVars, taskVars, TypeOK, Ids,
        RebootJob, Terminal
<1>3. ASSUME NEW j \in JobIds, TryReserveSelfUpdate(j) PROVE Bounded'
  BY <1>3, NoneStarts
    DEF TryReserveSelfUpdate, slotVars, notifyVars, taskVars, TypeOK, Ids,
        RebootJob, Terminal
<1>4. ASSUME NEW r \in RebootIds, NEW k \in Tiers, AdmitReboot(r, k) PROVE Bounded'
  BY <1>4, NoneStarts
    DEF AdmitReboot, ReserveReboot, CanReboot, FailPending, slotVars,
        notifyVars, taskVars, TypeOK, Ids, RebootJob, Terminal
<1>5. ASSUME NEW j \in JobIds, PatchReserveReboot(j) PROVE Bounded'

  <2>1. status' = status \/ \E r \in RebootIds : status' = FailPending(r)
    BY <1>5 DEF PatchReserveReboot, ReserveReboot
  <2>. QED
    BY <2>1, NoneStarts DEF FailPending
<1>6. ASSUME NEW t \in Ids, ReserveReturns(t) PROVE Bounded'
  BY <1>6, NoneStarts
    DEF ReserveReturns, slotVars, notifyVars, taskVars, TypeOK, Ids,
        RebootJob, Terminal
<1>7. ASSUME NEW r \in RebootIds, HandlerDropped(r) PROVE Bounded'
  BY <1>7, NoneStarts
    DEF HandlerDropped, slotVars, notifyVars, taskVars, TypeOK, Ids,
        RebootJob, Terminal
<1>8. ASSUME NEW j \in JobIds, SetJobRebooting(j) PROVE Bounded'
  BY <1>8, NoneStarts
    DEF SetJobRebooting, slotVars, notifyVars, taskVars, TypeOK, Ids,
        RebootJob, Terminal
<1>9. ASSUME NEW t \in Ids, BeginRebootExecution(t) PROVE Bounded'
  BY <1>9, NoneStarts
    DEF BeginRebootExecution, slotVars, notifyVars, taskVars, TypeOK, Ids,
        RebootJob, Terminal
<1>10. ASSUME NEW t \in Ids, RebootCommandOk(t) PROVE Bounded'
  BY <1>10, NoneStarts
    DEF RebootCommandOk, slotVars, notifyVars, taskVars, TypeOK, Ids,
        RebootJob, Terminal
<1>11. ASSUME NEW t \in Ids, RebootCommandErr(t) PROVE Bounded'
  BY <1>11, NoneStarts
    DEF RebootCommandErr, slotVars, notifyVars, taskVars, TypeOK, Ids,
        RebootJob, Terminal
<1>12. ASSUME NEW t \in Ids, RebootFailed(t) PROVE Bounded'
  BY <1>12, NoneStarts
    DEF RebootFailed, RollbackReboot, slotVars, notifyVars, taskVars, TypeOK,
        Ids, RebootJob, Terminal
<1>13. ASSUME NEW r \in RebootIds, GuardDrop(r) PROVE Bounded'
  BY <1>13, NoneStarts
    DEF GuardDrop, RollbackReboot, slotVars, notifyVars, taskVars, TypeOK,
        Ids, RebootJob, Terminal
<1>14. ASSUME NEW j \in JobIds, DispatchReject(j) PROVE Bounded'
  BY <1>14, NoneStarts
    DEF DispatchReject, slotVars, notifyVars, taskVars, TypeOK, Ids,
        RebootJob, Terminal
<1>15. ASSUME NEW j \in JobIds, DispatchWait(j) PROVE Bounded'
  BY <1>15, NoneStarts
    DEF DispatchWait, slotVars, notifyVars, taskVars, TypeOK, Ids, RebootJob,
        Terminal
<1>16. ASSUME NEW j \in JobIds, PollNotified(j) PROVE Bounded'
  BY <1>16, NoneStarts
    DEF PollNotified, slotVars, notifyVars, taskVars, TypeOK, Ids, RebootJob,
        Terminal
<1>17. ASSUME NEW j \in JobIds, DispatchAcquire(j) PROVE Bounded'

  <2>1. \A k \in Ids : status'[k] = IF k = j /\ status[j] # "Absent" THEN "Running" ELSE status[k]
    BY <1>17 DEF DispatchAcquire, TypeOK, Ids
  <2>2. CASE status[j] \in {"Absent", "Running"}
    BY <2>1, <2>2, NoneStarts
  <2>3. CASE status[j] \notin {"Absent", "Running"}
    <3>1. RunningJobs' = RunningJobs \cup {j} /\ j \notin RunningJobs
      BY <2>1, <2>3 DEF RunningJobs, Ids
    <3>2. IsFiniteSet(RunningJobs) /\ Cardinality(RunningJobs) \in Nat
      BY FS_CardinalityType DEF Bounded
    <3>3. IsFiniteSet(RunningJobs') /\ Cardinality(RunningJobs') = Cardinality(RunningJobs) + 1
      BY <3>1, <3>2, FS_AddElement
    <3>4. ~(Cardinality(RunningJobs) >= MaxConcurrent)
      BY <1>17, <2>3 DEF DispatchAcquire, MustWait
    <3>5. Cardinality(RunningJobs') <= MaxConcurrent
      BY <3>2, <3>3, <3>4, SchedulerAssumption
    <3>. QED
      BY <3>3, <3>5 DEF Bounded, ConcurrencyBound
  <2>. QED
    BY <2>2, <2>3
<1>18. ASSUME NEW j \in JobIds, SpawnWatchdog(j) PROVE Bounded'
  BY <1>18, NoneStarts
    DEF SpawnWatchdog, slotVars, notifyVars, taskVars, TypeOK, Ids, RebootJob,
        Terminal
<1>19. ASSUME NEW j \in JobIds, ClosureExits(j) PROVE Bounded'
  BY <1>19, NoneStarts
    DEF ClosureExits, slotVars, notifyVars, taskVars, TypeOK, Ids, RebootJob,
        Terminal
<1>20. ASSUME NEW j \in JobIds, WatchdogFinalize(j) PROVE Bounded'
  BY <1>20, NoneStarts
    DEF WatchdogFinalize, slotVars, notifyVars, taskVars, TypeOK, Ids,
        RebootJob, Terminal
<1>21. ASSUME NEW j \in JobIds, ReceiveResult(j) PROVE Bounded'
  BY <1>21, NoneStarts
    DEF ReceiveResult, slotVars, notifyVars, taskVars, TypeOK, Ids, RebootJob,
        Terminal
<1>22. ASSUME NEW j \in JobIds, CallerDropped(j) PROVE Bounded'
  BY <1>22, NoneStarts
    DEF CallerDropped, slotVars, notifyVars, taskVars, TypeOK, Ids, RebootJob,
        Terminal
<1>23. ASSUME NEW j \in JobIds, CompleteJob(j) PROVE Bounded'
  BY <1>23, NoneStarts
    DEF CompleteJob, FinishJob, slotVars, notifyVars, taskVars, TypeOK, Ids,
        RebootJob, Terminal
<1>24. ASSUME NEW j \in JobIds, FailJob(j) PROVE Bounded'
  BY <1>24, NoneStarts
    DEF FailJob, FinishJob, slotVars, notifyVars, taskVars, TypeOK, Ids,
        RebootJob, Terminal
<1>25. ASSUME NEW j \in JobIds, DeleteTrackingJob(j) PROVE Bounded'
  BY <1>25, NoneStarts
    DEF DeleteTrackingJob, Terminal, slotVars, notifyVars, taskVars, TypeOK,
        Ids, RebootJob, Terminal
<1>26. ASSUME NEW j \in JobIds, ReleaseSelfUpdate(j) PROVE Bounded'
  BY <1>26, NoneStarts
    DEF ReleaseSelfUpdate, slotVars, notifyVars, taskVars, TypeOK, Ids,
        RebootJob, Terminal
<1>27. ASSUME NEW j \in Ids, DeleteJob(j) PROVE Bounded'
  BY <1>27, NoneStarts
    DEF DeleteJob, Terminal, slotVars, notifyVars, taskVars, TypeOK, Ids,
        RebootJob, Terminal
<1>28. ASSUME FreezeAdmission PROVE Bounded'
  BY <1>28, NoneStarts
    DEF FreezeAdmission, slotVars, notifyVars, taskVars, TypeOK, Ids,
        RebootJob, Terminal
<1>. QED
  BY <1>1, <1>2, <1>3, <1>4, <1>5, <1>6, <1>7, <1>8, <1>9, <1>10, <1>11,
     <1>12, <1>13, <1>14, <1>15, <1>16, <1>17, <1>18, <1>19, <1>20, <1>21,
     <1>22, <1>23, <1>24, <1>25, <1>26, <1>27, <1>28
    DEF Next, Environment, JobTask, RebootTask, Ops, Tiers

\* At most max_concurrent jobs are Running, although a job stays Running after
\* its slot went to the next one: for any number of jobs, and 0 included.
THEOREM ConcurrencyIsBounded == Spec => []ConcurrencyBound
<1>1. Init => Bounded
  <2>. SUFFICES ASSUME Init PROVE Bounded
    OBVIOUS
  <2>1. RunningJobs = {}
    BY DEF Init, RunningJobs
  <2>2. IsFiniteSet({}) /\ Cardinality({}) = 0
    BY FS_EmptySet
  <2>. QED
    BY <2>1, <2>2, SchedulerAssumption DEF Bounded, ConcurrencyBound
<1>2. TypeOK /\ Bounded /\ UNCHANGED vars => Bounded'
  BY NoneStarts DEF vars
<1>3. Bounded => ConcurrencyBound
  BY DEF Bounded
<1>. QED
  BY <1>1, <1>2, <1>3, BoundedStep, TypeCorrect, PTL DEF Spec

-----------------------------------------------------------------------------
(* What a step does to a job's task *)

\* Tasks that are not parked are where p puts them after the step, whether or
\* not it notifies; one parked task may have been woken.
LEMMA PcStep ==
    ASSUME Inv, NEW p, p \in [Ids -> Pcs],
           \A u \in Ids : p[u] # pc[u] => pc[u] # "parked",
           NotifyOne(p) \/ pc' = p
    PROVE  \A u \in Ids : Moves(p, u)
<1>1. \A i \in 1..Len(waiters) : waiters[i] \in Ids
  BY DEF Inv, TypeOK, Ids
<1>2. QueueOf(p)
  BY <1>1 DEF Inv, WaitersParked, QueueOf
<1>. QED
  BY <1>2, NotifyOneEffect DEF Inv, Moves

\* The usual case: one task moves.
LEMMA TaskStep ==
    ASSUME Inv, NEW t \in Ids, NEW l \in Pcs, pc[t] # "parked", l # "parked",
           NotifyOne(GoTo(t, l)) \/ pc' = GoTo(t, l)
    PROVE  pc'[t] = l /\ \A u \in Ids \ {t} : Moves(pc, u)
<1>. DEFINE p == GoTo(t, l)
<1>1. /\ p \in [Ids -> Pcs] /\ p[t] = l
      /\ \A u \in Ids \ {t} : p[u] = pc[u]
  BY DEF GoTo, Inv, TypeOK, Pcs
<1>2. \A u \in Ids : Moves(p, u)
  <2>. HIDE DEF p
  <2>. QED
    BY <1>1, PcStep DEF p
<1>. QED
  BY <1>1, <1>2 DEF Moves

-----------------------------------------------------------------------------
(* Holders of the slot and the reports of their jobs *)

\* A task is here only after its operation returned Ok.
Succeeded == {"reserve", "reserved", "setRebooting", "begin", "rebootCmd", "rollback",
              "complete"}

\* The record of a holder is Running or was deleted; a job that reports
\* success, and one that is about to, has no operation left executing.
JobSettled(j) ==
    /\ Holding(j) => status[j] \in {"Running", "Absent"}
    /\ pc[j] \in Succeeded => closure[j] # "exec"
    /\ result[j] = "ok" => closure[j] # "exec"
    /\ status[j] = "Completed" =>
          pc[j] \in {"delete", "release", "done"} /\ closure[j] # "exec"

Settled == \A j \in JobIds : JobSettled(j)

\* How a step may change who holds the slot: a job becomes a holder only while
\* no reboot is reserved, what is recorded of a holder stays, and the slot
\* keeps naming a job that is no holder only if a caller was dropped.
Handover(j) ==
    /\ Holding(j)' /\ ~Holding(j) => reboot_pending = None /\ reboot_pending' = None
    /\ Holding(j) => op'[j] = op[j] /\ (Holding(j)' => status'[j] = status[j])
    /\ active_mutation' = j =>
          Holding(j)' \/ (active_mutation = j /\ ~Holding(j)) \/ "caller" \in MayDrop

\* The step leaves alone what dispatch_mutation keeps for job j.
Same(j) == /\ closure'[j] = closure[j] /\ result'[j] = result[j]
           /\ watchdog'[j] = watchdog[j]
           /\ active_mutation' = j => active_mutation = j

\* The step is not about job j: its task may be woken, its record failed by a
\* reservation or deleted by a client.
Rests(j) ==
    /\ Moves(pc, j) /\ Same(j) /\ op'[j] = op[j]
    /\ \/ status'[j] = status[j]
       \/ status[j] = "Pending" /\ status'[j] = "Failed"
       \/ status[j] \in Terminal /\ status'[j] = "Absent"

\* A job the step is not about stays settled.
LEMMA RestSettled ==
    ASSUME NEW j \in JobIds, JobSettled(j), Rests(j)
    PROVE  JobSettled(j)' /\ Handover(j)
BY DEF JobSettled, Rests, Same, Handover, Holding, Moves, Succeeded, Terminal

\* A task outside dispatch_mutation's critical section that stays outside: what
\* it may report is bounded by what it has reached.
LEMMA OutsideSettled ==
    ASSUME Inv, NEW j \in JobIds, JobSettled(j), Same(j),
           pc[j] \notin {"acquired", "await", "dropped"}, pc'[j] # "acquired",
           pc'[j] \in Succeeded => pc[j] \in Succeeded,
           status'[j] = "Completed" =>
              /\ pc'[j] \in {"delete", "release", "done"}
              /\ pc[j] \in Succeeded \/ status[j] = "Completed"
    PROVE  JobSettled(j)' /\ Handover(j)
<1>1. watchdog[j] # "running" /\ result[j] = "none"
  BY DEF Inv, WatchdogPhase
<1>2. ~Holding(j) /\ ~Holding(j)'
  BY <1>1 DEF Holding, Same
<1>. QED
  BY <1>1, <1>2 DEF JobSettled, Same, Handover

\* Every step keeps the jobs settled and hands the slot over only as allowed.
LEMMA SettledStep ==
    ASSUME Inv, Settled, Next
    PROVE  Settled' /\ \A j \in JobIds : Handover(j)
<1>a. TypeOK
  BY DEF Inv
<1>b. /\ JobIds \subseteq Ids /\ RebootIds \subseteq Ids
      /\ JobIds \cap RebootIds = {} /\ None \notin Ids
      /\ \A t \in Ids : t \in JobIds \/ t \in RebootIds
  BY SchedulerAssumption DEF Ids
<1>c. \A j \in JobIds : JobSettled(j)
  BY DEF Settled
<1>d. \A j \in JobIds :
         /\ watchdog[j] = "running" => result[j] = "none"
         /\ watchdog[j] = "running" \/ result[j] # "none" => pc[j] \in {"await", "dropped"}
         /\ Holding(j) => active_mutation = j /\ mutation_generation = gen[j]
  BY DEF Inv, WatchdogPhase, SlotOwned
<1>e. ASSUME NEW t \in Ids, pc[t] \in BeforeReboot \cup DuringReboot
      PROVE  RebootJob(t) \in RebootIds
  BY <1>a, <1>e DEF Inv, ReservationOwned, TypeOK
<1>f. "begin" \in BeforeReboot /\ {"rebootCmd", "rollback"} \subseteq DuringReboot
  BY DEF BeforeReboot, DuringReboot
<1>p. pc \in [Ids -> Pcs]
  BY <1>a DEF TypeOK, Pcs
<1>1. ASSUME NEW j \in JobIds, NEW o \in Ops, AdmitJob(j, o) PROVE Settled' /\ \A i \in JobIds : Handover(i)
  <2>1. pc'[j] = "dispatch" /\ \A u \in Ids \ {j} : Moves(pc, u)
    BY <1>1, <1>a, <1>b, TaskStep DEF AdmitJob, Pcs, JobPcs, RebootPcs, Ids
  <2>2. \A i \in JobIds \ {j} : Rests(i)
    BY <1>1, <1>a, <1>b, <2>1
      DEF AdmitJob, Rests, Same, Moves, TypeOK, slotVars, taskVars, notifyVars
  <2>3. JobSettled(j)' /\ Handover(j)
    <3>1. ASSUME j \in JobIds
          PROVE  /\ Same(j) /\ JobSettled(j)
                 /\ pc[j] \notin {"acquired", "await", "dropped"} /\ pc'[j] # "acquired"
                 /\ pc'[j] \in Succeeded => pc[j] \in Succeeded
      BY <1>1, <1>a, <1>b, <2>1, <1>c, <3>1
        DEF AdmitJob, Same, Succeeded, TypeOK, slotVars, taskVars
    <3>2. ASSUME j \in JobIds, status'[j] = "Completed"
          PROVE  /\ pc'[j] \in {"delete", "release", "done"}
                 /\ pc[j] \in Succeeded \/ status[j] = "Completed"
      BY <1>1, <1>a, <1>b, <2>1, <1>c, <3>2
        DEF JobSettled, AdmitJob, Same, Succeeded, TypeOK, slotVars, taskVars
    <3>. QED
      BY <3>1, <3>2, OutsideSettled
  <2>. QED
    BY <1>b, <1>c, <2>2, <2>3, RestSettled DEF Settled
<1>2. ASSUME NEW j \in JobIds, CreateRollbackJob(j) PROVE Settled' /\ \A i \in JobIds : Handover(i)
  <2>1. pc'[j] = "done" /\ \A u \in Ids \ {j} : Moves(pc, u)
    BY <1>2, <1>a, <1>b, TaskStep
      DEF CreateRollbackJob, Pcs, JobPcs, RebootPcs, Ids
  <2>2. \A i \in JobIds \ {j} : Rests(i)
    BY <1>2, <1>a, <1>b, <2>1
      DEF CreateRollbackJob, Rests, Same, Moves, TypeOK, slotVars, taskVars,
          notifyVars
  <2>3. JobSettled(j)' /\ Handover(j)
    <3>1. ASSUME j \in JobIds
          PROVE  /\ Same(j) /\ JobSettled(j)
                 /\ pc[j] \notin {"acquired", "await", "dropped"} /\ pc'[j] # "acquired"
                 /\ pc'[j] \in Succeeded => pc[j] \in Succeeded
      BY <1>2, <1>a, <1>b, <2>1, <1>c, <3>1
        DEF CreateRollbackJob, Same, Succeeded, TypeOK, slotVars, taskVars
    <3>2. ASSUME j \in JobIds, status'[j] = "Completed"
          PROVE  /\ pc'[j] \in {"delete", "release", "done"}
                 /\ pc[j] \in Succeeded \/ status[j] = "Completed"
      BY <1>2, <1>a, <1>b, <2>1, <1>c, <3>2
        DEF JobSettled, CreateRollbackJob, Same, Succeeded, TypeOK, slotVars,
            taskVars
    <3>. QED
      BY <3>1, <3>2, OutsideSettled
  <2>. QED
    BY <1>b, <1>c, <2>2, <2>3, RestSettled DEF Settled
<1>3. ASSUME NEW j \in JobIds, TryReserveSelfUpdate(j) PROVE Settled' /\ \A i \in JobIds : Handover(i)
  <2>1. pc'[j] = "dispatch" /\ \A u \in Ids \ {j} : Moves(pc, u)
    BY <1>3, <1>a, <1>b, TaskStep
      DEF TryReserveSelfUpdate, Pcs, JobPcs, RebootPcs, Ids
  <2>2. \A i \in JobIds \ {j} : Rests(i)
    BY <1>3, <1>a, <1>b, <2>1
      DEF TryReserveSelfUpdate, Rests, Same, Moves, TypeOK, slotVars,
          taskVars, notifyVars
  <2>3. JobSettled(j)' /\ Handover(j)
    <3>1. ASSUME j \in JobIds
          PROVE  /\ Same(j) /\ JobSettled(j)
                 /\ pc[j] \notin {"acquired", "await", "dropped"} /\ pc'[j] # "acquired"
                 /\ pc'[j] \in Succeeded => pc[j] \in Succeeded
      BY <1>3, <1>a, <1>b, <2>1, <1>c, <3>1
        DEF TryReserveSelfUpdate, Same, Succeeded, TypeOK, slotVars, taskVars
    <3>2. ASSUME j \in JobIds, status'[j] = "Completed"
          PROVE  /\ pc'[j] \in {"delete", "release", "done"}
                 /\ pc[j] \in Succeeded \/ status[j] = "Completed"
      BY <1>3, <1>a, <1>b, <2>1, <1>c, <3>2
        DEF JobSettled, TryReserveSelfUpdate, Same, Succeeded, TypeOK,
            slotVars, taskVars
    <3>. QED
      BY <3>1, <3>2, OutsideSettled
  <2>. QED
    BY <1>b, <1>c, <2>2, <2>3, RestSettled DEF Settled
<1>4. ASSUME NEW r \in RebootIds, NEW k \in Tiers, AdmitReboot(r, k) PROVE Settled' /\ \A i \in JobIds : Handover(i)
  <2>1. pc'[r] = "reserved" /\ \A u \in Ids \ {r} : Moves(pc, u)
    BY <1>4, <1>a, <1>b, TaskStep
      DEF AdmitReboot, ReserveReboot, CanReboot, FailPending, Pcs, JobPcs,
          RebootPcs, Ids
  <2>2. \A i \in JobIds : Rests(i)
    BY <1>4, <1>a, <1>b, <2>1
      DEF AdmitReboot, ReserveReboot, CanReboot, FailPending, Rests, Same,
          Moves, TypeOK, slotVars, taskVars, notifyVars
  <2>. QED
    BY <1>c, <2>2, RestSettled DEF Settled
<1>5. ASSUME NEW j \in JobIds, PatchReserveReboot(j) PROVE Settled' /\ \A i \in JobIds : Handover(i)
  <2>1. \/ pc' = GoTo(j, "complete") /\ status' = status /\ op' = op
        \/ \E r \in RebootIds :
              /\ NotifyOne([pc EXCEPT ![j] = "reserved", ![r] = "guarded"])
              /\ pc[r] = "idle" /\ status' = FailPending(r)
              /\ op' = [op EXCEPT ![r] = "Reboot"]
    BY <1>5 DEF PatchReserveReboot, ReserveReboot
  <2>2. /\ pc'[j] \in {"complete", "reserved"} /\ pc[j] = "reserve"
        /\ \A u \in JobIds \ {j} : Moves(pc, u)
    <3>1. CASE pc' = GoTo(j, "complete")
      BY <1>5, <1>a, <1>b, <3>1, TaskStep DEF PatchReserveReboot, Pcs, JobPcs
    <3>2. ASSUME NEW r \in RebootIds, pc[r] = "idle",
                 NotifyOne([pc EXCEPT ![j] = "reserved", ![r] = "guarded"])
          PROVE  pc'[j] = "reserved" /\ \A u \in JobIds \ {j} : Moves(pc, u)
      <4>. DEFINE p == [pc EXCEPT ![j] = "reserved", ![r] = "guarded"]
      <4>1. /\ p \in [Ids -> Pcs] /\ p[j] = "reserved" /\ pc[j] = "reserve"
            /\ \A u \in Ids \ {j, r} : p[u] = pc[u]
        BY <1>5, <1>a, <1>b DEF PatchReserveReboot, TypeOK, Pcs, JobPcs, RebootPcs
      <4>. HIDE DEF p
      <4>2. \A u \in Ids : p[u] # pc[u] => pc[u] # "parked"
        BY <3>2, <4>1
      <4>3. \A u \in Ids : Moves(p, u)
        BY <3>2, <4>1, <4>2, PcStep DEF p
      <4>. QED
        BY <1>b, <4>1, <4>3 DEF Moves
    <3>. QED
      BY <1>5, <2>1, <3>1, <3>2 DEF PatchReserveReboot
  <2>3. \A u \in JobIds : /\ op'[u] = op[u]
                          /\ status'[u] = status[u]
                             \/ (status[u] = "Pending" /\ status'[u] = "Failed")
    <3>1. ASSUME NEW r \in RebootIds, op' = [op EXCEPT ![r] = "Reboot"], status' = FailPending(r)
          PROVE  \A u \in JobIds : /\ op'[u] = op[u]
                                   /\ status'[u] = status[u]
                                      \/ (status[u] = "Pending" /\ status'[u] = "Failed")
      <4>1. \A u \in JobIds : op'[u] = op[u]
        BY <1>a, <1>b, <3>1 DEF TypeOK
      <4>2. \A u \in JobIds : status'[u] = IF status[u] = "Pending" THEN "Failed" ELSE status[u]
        BY <1>a, <1>b, <3>1 DEF FailPending
      <4>. QED
        BY <4>1, <4>2
    <3>. QED
      BY <2>1, <3>1
  <2>4. UNCHANGED <<closure, result, watchdog, active_mutation>>
    BY <1>5 DEF PatchReserveReboot, ReserveReboot, slotVars, taskVars
  <2>5. \A i \in JobIds \ {j} : Rests(i)
    BY <1>5, <1>a, <1>b, <2>2, <2>3, <2>4
      DEF PatchReserveReboot, ReserveReboot, CanReboot, FailPending, Rests,
          Same
  <2>6. JobSettled(j)' /\ Handover(j)
    <3>1. ASSUME j \in JobIds
          PROVE  /\ Same(j) /\ JobSettled(j)
                 /\ pc[j] \notin {"acquired", "await", "dropped"} /\ pc'[j] # "acquired"
                 /\ pc'[j] \in Succeeded => pc[j] \in Succeeded
      BY <1>5, <1>a, <1>b, <1>c, <2>2, <2>3, <2>4, <3>1
        DEF PatchReserveReboot, Same, Succeeded
    <3>2. ASSUME j \in JobIds, status'[j] = "Completed"
          PROVE  /\ pc'[j] \in {"delete", "release", "done"}
                 /\ pc[j] \in Succeeded \/ status[j] = "Completed"
      BY <1>5, <1>a, <1>b, <1>c, <2>2, <2>3, <2>4, <3>2
        DEF JobSettled, PatchReserveReboot, Same, Succeeded
    <3>. QED
      BY <3>1, <3>2, OutsideSettled
  <2>. QED
    BY <1>b, <1>c, <2>5, <2>6, RestSettled DEF Settled
<1>6. ASSUME NEW t \in Ids, ReserveReturns(t) PROVE Settled' /\ \A i \in JobIds : Handover(i)
  <2>. DEFINE l == IF t \in RebootIds THEN "begin" ELSE "setRebooting"
  <2>1. pc'[t] = l /\ \A u \in Ids \ {t} : Moves(pc, u)
    BY <1>6, <1>a, <1>b, TaskStep DEF ReserveReturns, Pcs, JobPcs, RebootPcs, Ids
  <2>2. \A i \in JobIds \ {t} : Rests(i)
    BY <1>6, <1>a, <1>b, <2>1
      DEF ReserveReturns, Rests, Same, Moves, TypeOK, slotVars, taskVars,
          notifyVars
  <2>3. t \in JobIds => JobSettled(t)' /\ Handover(t)
    <3>1. ASSUME t \in JobIds
          PROVE  /\ Same(t) /\ JobSettled(t)
                 /\ pc[t] \notin {"acquired", "await", "dropped"} /\ pc'[t] # "acquired"
                 /\ pc'[t] \in Succeeded => pc[t] \in Succeeded
      BY <1>6, <1>a, <1>b, <2>1, <1>c, <3>1
        DEF ReserveReturns, Same, Succeeded, TypeOK, slotVars, taskVars
    <3>2. ASSUME t \in JobIds, status'[t] = "Completed"
          PROVE  /\ pc'[t] \in {"delete", "release", "done"}
                 /\ pc[t] \in Succeeded \/ status[t] = "Completed"
      BY <1>6, <1>a, <1>b, <2>1, <1>c, <3>2
        DEF JobSettled, ReserveReturns, Same, Succeeded, TypeOK, slotVars,
            taskVars
    <3>. QED
      BY <3>1, <3>2, OutsideSettled
  <2>. QED
    BY <1>b, <1>c, <2>2, <2>3, RestSettled DEF Settled
<1>7. ASSUME NEW r \in RebootIds, HandlerDropped(r) PROVE Settled' /\ \A i \in JobIds : Handover(i)
  <2>1. pc'[r] = "dropped" /\ \A u \in Ids \ {r} : Moves(pc, u)
    BY <1>7, <1>a, <1>b, TaskStep DEF HandlerDropped, Pcs, JobPcs, RebootPcs, Ids
  <2>2. \A i \in JobIds : Rests(i)
    BY <1>7, <1>a, <1>b, <2>1
      DEF HandlerDropped, Rests, Same, Moves, TypeOK, slotVars, taskVars,
          notifyVars
  <2>. QED
    BY <1>c, <2>2, RestSettled DEF Settled
<1>8. ASSUME NEW j \in JobIds, SetJobRebooting(j) PROVE Settled' /\ \A i \in JobIds : Handover(i)
  <2>1. pc'[j] = "begin" /\ \A u \in Ids \ {j} : Moves(pc, u)
    BY <1>8, <1>a, <1>b, TaskStep DEF SetJobRebooting, Pcs, JobPcs, RebootPcs, Ids
  <2>2. \A i \in JobIds \ {j} : Rests(i)
    BY <1>8, <1>a, <1>b, <2>1
      DEF SetJobRebooting, Rests, Same, Moves, TypeOK, slotVars, taskVars,
          notifyVars
  <2>3. JobSettled(j)' /\ Handover(j)
    <3>1. ASSUME j \in JobIds
          PROVE  /\ Same(j) /\ JobSettled(j)
                 /\ pc[j] \notin {"acquired", "await", "dropped"} /\ pc'[j] # "acquired"
                 /\ pc'[j] \in Succeeded => pc[j] \in Succeeded
      BY <1>8, <1>a, <1>b, <2>1, <1>c, <3>1
        DEF SetJobRebooting, Same, Succeeded, TypeOK, slotVars, taskVars
    <3>2. ASSUME j \in JobIds PROVE status'[j] # "Completed"
      <4>1. status'[j] \in {status[j], "Rebooting"}
        BY <1>8, <1>a, <1>b, <2>1, <1>c, <3>2
          DEF SetJobRebooting, Same, Succeeded, TypeOK, slotVars, taskVars
      <4>2. status[j] # "Completed"
        BY <1>8, <1>c, <3>2 DEF JobSettled, SetJobRebooting
      <4>. QED
        BY <4>1, <4>2
    <3>. QED
      BY <3>1, <3>2, OutsideSettled
  <2>. QED
    BY <1>b, <1>c, <2>2, <2>3, RestSettled DEF Settled
<1>9. ASSUME NEW t \in Ids, BeginRebootExecution(t) PROVE Settled' /\ \A i \in JobIds : Handover(i)
  <2>1. RebootJob(t) \in RebootIds
    BY <1>9, <1>e, <1>f DEF BeginRebootExecution
  <2>2. PICK l \in {"rebootCmd", "done", "complete"} :
           /\ NotifyOne(GoTo(t, l)) \/ pc' = GoTo(t, l)
           /\ t \in JobIds => l # "done"
    BY <1>9, <1>b DEF BeginRebootExecution
  <2>3. pc'[t] = l /\ \A u \in Ids \ {t} : Moves(pc, u)
    BY <1>9, <1>a, <2>2, TaskStep DEF BeginRebootExecution, Pcs, JobPcs, RebootPcs
  <2>4. \A i \in JobIds \ {t} : Rests(i)
    BY <1>9, <1>a, <1>b, <2>1, <2>2, <2>3
      DEF BeginRebootExecution, Rests, Same, Moves, TypeOK, slotVars,
          taskVars, notifyVars
  <2>5. t \in JobIds => JobSettled(t)' /\ Handover(t)
    <3>1. ASSUME t \in JobIds
          PROVE  /\ Same(t) /\ JobSettled(t)
                 /\ pc[t] \notin {"acquired", "await", "dropped"} /\ pc'[t] # "acquired"
                 /\ pc'[t] \in Succeeded => pc[t] \in Succeeded
      BY <1>9, <1>a, <1>b, <2>1, <2>2, <2>3, <1>c, <3>1
        DEF BeginRebootExecution, Same, Succeeded, TypeOK, slotVars, taskVars
    <3>2. ASSUME t \in JobIds, status'[t] = "Completed"
          PROVE  /\ pc'[t] \in {"delete", "release", "done"}
                 /\ pc[t] \in Succeeded \/ status[t] = "Completed"
      <4>1. status'[t] = status[t]
        BY <1>9, <1>a, <1>b, <2>1, <3>2 DEF BeginRebootExecution, TypeOK
      <4>2. pc[t] = "begin"
        BY <1>9 DEF BeginRebootExecution
      <4>. QED
        BY <1>c, <3>2, <4>1, <4>2 DEF JobSettled
    <3>. QED
      BY <3>1, <3>2, OutsideSettled
  <2>. QED
    BY <1>b, <1>c, <2>4, <2>5, RestSettled DEF Settled
<1>10. ASSUME NEW t \in Ids, RebootCommandOk(t) PROVE Settled' /\ \A i \in JobIds : Handover(i)
  <2>1. RebootJob(t) \in RebootIds
    BY <1>10, <1>e, <1>f DEF RebootCommandOk
  <2>2. \A u \in JobIds : pc'[u] = IF u = t THEN "done" ELSE pc[u]
    BY <1>10, <1>a, <1>b, <2>1 DEF RebootCommandOk, TypeOK
  <2>3. \A i \in JobIds \ {t} : Rests(i)
    BY <1>10, <1>a, <1>b, <2>2
      DEF RebootCommandOk, Rests, Same, Moves, TypeOK, slotVars, taskVars,
          notifyVars
  <2>4. t \in JobIds => JobSettled(t)' /\ Handover(t)
    <3>1. ASSUME t \in JobIds
          PROVE  /\ Same(t) /\ JobSettled(t)
                 /\ pc[t] \notin {"acquired", "await", "dropped"} /\ pc'[t] # "acquired"
                 /\ pc'[t] \in Succeeded => pc[t] \in Succeeded
      BY <1>10, <1>a, <1>b, <2>2, <1>c, <3>1
        DEF RebootCommandOk, Same, Succeeded, TypeOK, slotVars, taskVars
    <3>2. ASSUME t \in JobIds, status'[t] = "Completed"
          PROVE  /\ pc'[t] \in {"delete", "release", "done"}
                 /\ pc[t] \in Succeeded \/ status[t] = "Completed"
      BY <1>10, <1>a, <1>b, <2>2, <1>c, <3>2
        DEF JobSettled, RebootCommandOk, Same, Succeeded, TypeOK, slotVars,
            taskVars
    <3>. QED
      BY <3>1, <3>2, OutsideSettled
  <2>. QED
    BY <1>b, <1>c, <2>3, <2>4, RestSettled DEF Settled
<1>11. ASSUME NEW t \in Ids, RebootCommandErr(t) PROVE Settled' /\ \A i \in JobIds : Handover(i)
  <2>1. pc'[t] = "rollback" /\ \A u \in Ids \ {t} : Moves(pc, u)
    BY <1>11, <1>a, <1>b, TaskStep DEF RebootCommandErr, Pcs, JobPcs, RebootPcs, Ids
  <2>2. \A i \in JobIds \ {t} : Rests(i)
    BY <1>11, <1>a, <1>b, <2>1
      DEF RebootCommandErr, Rests, Same, Moves, TypeOK, slotVars, taskVars,
          notifyVars
  <2>3. t \in JobIds => JobSettled(t)' /\ Handover(t)
    <3>1. ASSUME t \in JobIds
          PROVE  /\ Same(t) /\ JobSettled(t)
                 /\ pc[t] \notin {"acquired", "await", "dropped"} /\ pc'[t] # "acquired"
                 /\ pc'[t] \in Succeeded => pc[t] \in Succeeded
      BY <1>11, <1>a, <1>b, <2>1, <1>c, <3>1
        DEF RebootCommandErr, Same, Succeeded, TypeOK, slotVars, taskVars
    <3>2. ASSUME t \in JobIds, status'[t] = "Completed"
          PROVE  /\ pc'[t] \in {"delete", "release", "done"}
                 /\ pc[t] \in Succeeded \/ status[t] = "Completed"
      BY <1>11, <1>a, <1>b, <2>1, <1>c, <3>2
        DEF JobSettled, RebootCommandErr, Same, Succeeded, TypeOK, slotVars,
            taskVars
    <3>. QED
      BY <3>1, <3>2, OutsideSettled
  <2>. QED
    BY <1>b, <1>c, <2>2, <2>3, RestSettled DEF Settled
<1>12. ASSUME NEW t \in Ids, RebootFailed(t) PROVE Settled' /\ \A i \in JobIds : Handover(i)
  <2>1. RebootJob(t) \in RebootIds
    BY <1>12, <1>e, <1>f DEF RebootFailed
  <2>. DEFINE l == IF t \in RebootIds THEN "done" ELSE "complete"
  <2>2. pc'[t] = l /\ \A u \in Ids \ {t} : Moves(pc, u)
    BY <1>12, <1>a, TaskStep DEF RebootFailed, RollbackReboot, Pcs, JobPcs, RebootPcs
  <2>3. \A i \in JobIds \ {t} : Rests(i)
    BY <1>12, <1>a, <1>b, <2>1, <2>2
      DEF RebootFailed, RollbackReboot, Rests, Same, Moves, TypeOK, slotVars,
          taskVars, notifyVars
  <2>4. t \in JobIds => JobSettled(t)' /\ Handover(t)
    <3>1. ASSUME t \in JobIds
          PROVE  /\ Same(t) /\ JobSettled(t)
                 /\ pc[t] \notin {"acquired", "await", "dropped"} /\ pc'[t] # "acquired"
                 /\ pc'[t] \in Succeeded => pc[t] \in Succeeded
      BY <1>12, <1>a, <1>b, <2>1, <2>2, <1>c, <3>1
        DEF RebootFailed, RollbackReboot, Same, Succeeded, TypeOK, slotVars,
            taskVars
    <3>2. ASSUME t \in JobIds PROVE status'[t] # "Completed"
      <4>1. status'[t] \in {status[t], "Rebooting"}
        BY <1>12, <1>a, <1>b, <2>1, <2>2, <1>c, <3>2
          DEF RebootFailed, RollbackReboot, Same, Succeeded, TypeOK, slotVars,
              taskVars
      <4>2. status[t] # "Completed"
        BY <1>12, <1>c, <3>2 DEF JobSettled, RebootFailed, RollbackReboot
      <4>. QED
        BY <4>1, <4>2
    <3>. QED
      BY <3>1, <3>2, OutsideSettled
  <2>. QED
    BY <1>b, <1>c, <2>3, <2>4, RestSettled DEF Settled
<1>13. ASSUME NEW r \in RebootIds, GuardDrop(r) PROVE Settled' /\ \A i \in JobIds : Handover(i)
  <2>1. pc'[r] = "done" /\ \A u \in Ids \ {r} : Moves(pc, u)
    BY <1>13, <1>a, <1>b, TaskStep
      DEF GuardDrop, RollbackReboot, Pcs, JobPcs, RebootPcs, Ids
  <2>2. \A i \in JobIds : Rests(i)
    BY <1>13, <1>a, <1>b, <2>1
      DEF GuardDrop, RollbackReboot, Rests, Same, Moves, TypeOK, slotVars,
          taskVars, notifyVars
  <2>. QED
    BY <1>c, <2>2, RestSettled DEF Settled
<1>14. ASSUME NEW j \in JobIds, DispatchReject(j) PROVE Settled' /\ \A i \in JobIds : Handover(i)
  <2>1. pc'[j] = "fail" /\ \A u \in Ids \ {j} : Moves(pc, u)
    BY <1>14, <1>a, <1>b, TaskStep DEF DispatchReject, Pcs, JobPcs, RebootPcs, Ids
  <2>2. \A i \in JobIds \ {j} : Rests(i)
    BY <1>14, <1>a, <1>b, <2>1
      DEF DispatchReject, Rests, Same, Moves, TypeOK, slotVars, taskVars,
          notifyVars
  <2>3. JobSettled(j)' /\ Handover(j)
    <3>1. ASSUME j \in JobIds
          PROVE  /\ Same(j) /\ JobSettled(j)
                 /\ pc[j] \notin {"acquired", "await", "dropped"} /\ pc'[j] # "acquired"
                 /\ pc'[j] \in Succeeded => pc[j] \in Succeeded
      BY <1>14, <1>a, <1>b, <2>1, <1>c, <3>1
        DEF DispatchReject, Same, Succeeded, TypeOK, slotVars, taskVars
    <3>2. ASSUME j \in JobIds, status'[j] = "Completed"
          PROVE  /\ pc'[j] \in {"delete", "release", "done"}
                 /\ pc[j] \in Succeeded \/ status[j] = "Completed"
      BY <1>14, <1>a, <1>b, <2>1, <1>c, <3>2
        DEF JobSettled, DispatchReject, Same, Succeeded, TypeOK, slotVars,
            taskVars
    <3>. QED
      BY <3>1, <3>2, OutsideSettled
  <2>. QED
    BY <1>b, <1>c, <2>2, <2>3, RestSettled DEF Settled
<1>15. ASSUME NEW j \in JobIds, DispatchWait(j) PROVE Settled' /\ \A i \in JobIds : Handover(i)
  <2>1. pc'[j] = "parking" /\ \A u \in Ids \ {j} : Moves(pc, u)
    BY <1>15, <1>a, <1>b, TaskStep DEF DispatchWait, Pcs, JobPcs, RebootPcs, Ids
  <2>2. \A i \in JobIds \ {j} : Rests(i)
    BY <1>15, <1>a, <1>b, <2>1
      DEF DispatchWait, Rests, Same, Moves, TypeOK, slotVars, taskVars,
          notifyVars
  <2>3. JobSettled(j)' /\ Handover(j)
    <3>1. ASSUME j \in JobIds
          PROVE  /\ Same(j) /\ JobSettled(j)
                 /\ pc[j] \notin {"acquired", "await", "dropped"} /\ pc'[j] # "acquired"
                 /\ pc'[j] \in Succeeded => pc[j] \in Succeeded
      BY <1>15, <1>a, <1>b, <2>1, <1>c, <3>1
        DEF DispatchWait, Same, Succeeded, TypeOK, slotVars, taskVars
    <3>2. ASSUME j \in JobIds, status'[j] = "Completed"
          PROVE  /\ pc'[j] \in {"delete", "release", "done"}
                 /\ pc[j] \in Succeeded \/ status[j] = "Completed"
      BY <1>15, <1>a, <1>b, <2>1, <1>c, <3>2
        DEF JobSettled, DispatchWait, Same, Succeeded, TypeOK, slotVars,
            taskVars
    <3>. QED
      BY <3>1, <3>2, OutsideSettled
  <2>. QED
    BY <1>b, <1>c, <2>2, <2>3, RestSettled DEF Settled
<1>16. ASSUME NEW j \in JobIds, PollNotified(j) PROVE Settled' /\ \A i \in JobIds : Handover(i)
  <2>1. pc'[j] \in {"dispatch", "parked"} /\ \A u \in JobIds \ {j} : pc'[u] = pc[u]
    BY <1>16, <1>a, <1>b DEF PollNotified, GoTo, TypeOK
  <2>2. \A i \in JobIds \ {j} : Rests(i)
    BY <1>16, <1>a, <1>b, <2>1
      DEF PollNotified, Rests, Same, Moves, TypeOK, slotVars, taskVars,
          notifyVars
  <2>3. JobSettled(j)' /\ Handover(j)
    <3>1. ASSUME j \in JobIds
          PROVE  /\ Same(j) /\ JobSettled(j)
                 /\ pc[j] \notin {"acquired", "await", "dropped"} /\ pc'[j] # "acquired"
                 /\ pc'[j] \in Succeeded => pc[j] \in Succeeded
      BY <1>16, <1>a, <1>b, <2>1, <1>c, <3>1
        DEF PollNotified, Same, Succeeded, TypeOK, slotVars, taskVars
    <3>2. ASSUME j \in JobIds, status'[j] = "Completed"
          PROVE  /\ pc'[j] \in {"delete", "release", "done"}
                 /\ pc[j] \in Succeeded \/ status[j] = "Completed"
      BY <1>16, <1>a, <1>b, <2>1, <1>c, <3>2
        DEF JobSettled, PollNotified, Same, Succeeded, TypeOK, slotVars,
            taskVars
    <3>. QED
      BY <3>1, <3>2, OutsideSettled
  <2>. QED
    BY <1>b, <1>c, <2>2, <2>3, RestSettled DEF Settled
<1>17. ASSUME NEW j \in JobIds, DispatchAcquire(j) PROVE Settled' /\ \A i \in JobIds : Handover(i)
  <2>1. pc'[j] = "acquired" /\ \A u \in Ids \ {j} : Moves(pc, u)
    BY <1>17, <1>a, <1>b, TaskStep DEF DispatchAcquire, Pcs, JobPcs, RebootPcs, Ids
  <2>2. \A i \in JobIds \ {j} : Rests(i)
    BY <1>17, <1>a, <1>b, <2>1
      DEF DispatchAcquire, Rests, Same, Moves, TypeOK, slotVars, taskVars,
          notifyVars
  <2>3. JobSettled(j)' /\ Handover(j)
    BY <1>17, <1>a, <1>b, <2>1, <1>c, <1>d
      DEF DispatchAcquire, Rejected, JobSettled, Handover, Holding, Moves,
          Succeeded, TypeOK, slotVars, taskVars, notifyVars
  <2>. QED
    BY <1>b, <1>c, <2>2, <2>3, RestSettled DEF Settled
<1>18. ASSUME NEW j \in JobIds, SpawnWatchdog(j) PROVE Settled' /\ \A i \in JobIds : Handover(i)
  <2>1. pc'[j] = "await" /\ \A u \in Ids \ {j} : Moves(pc, u)
    BY <1>18, <1>a, <1>b, TaskStep DEF SpawnWatchdog, Pcs, JobPcs, RebootPcs, Ids
  <2>2. \A i \in JobIds \ {j} : Rests(i)
    BY <1>18, <1>a, <1>b, <2>1
      DEF SpawnWatchdog, Rests, Same, Moves, TypeOK, slotVars, taskVars,
          notifyVars
  <2>a. /\ pc[j] = "acquired" /\ watchdog'[j] = "running" /\ closure'[j] = "exec"
        /\ status' = status /\ op' = op /\ result' = result
    BY <1>18, <1>a DEF SpawnWatchdog, TypeOK
  <2>b. result[j] = "none" /\ active_mutation = j
    BY <1>d, <2>a DEF Holding
  <2>3. JobSettled(j)'
    BY <1>c, <2>1, <2>a, <2>b DEF JobSettled, Holding, Succeeded
  <2>4. Handover(j)
    BY <2>1, <2>a, <2>b DEF Handover, Holding
  <2>. QED
    BY <1>b, <1>c, <2>2, <2>3, <2>4, RestSettled DEF Settled
<1>19. ASSUME NEW j \in JobIds, ClosureExits(j) PROVE Settled' /\ \A i \in JobIds : Handover(i)
  <2>1. \A i \in JobIds \ {j} : Rests(i)
    BY <1>19, <1>a, <1>b
      DEF ClosureExits, Rests, Same, Moves, TypeOK, slotVars, taskVars,
          notifyVars
  <2>2. JobSettled(j)' /\ Handover(j)
    BY <1>19, <1>a, <1>b, <1>c, <1>d
      DEF ClosureExits, JobSettled, Handover, Holding, Moves, Succeeded,
          TypeOK, slotVars, taskVars, notifyVars
  <2>. QED
    BY <1>b, <1>c, <2>1, <2>2, RestSettled DEF Settled
<1>20. ASSUME NEW j \in JobIds, WatchdogFinalize(j) PROVE Settled' /\ \A i \in JobIds : Handover(i)
  <2>1. \A u \in Ids : Moves(pc, u)
    BY <1>20, <1>p, PcStep DEF WatchdogFinalize
  <2>2. \A i \in JobIds \ {j} : Rests(i)
    BY <1>20, <1>a, <1>b, <2>1
      DEF WatchdogFinalize, Rests, Same, Moves, TypeOK, slotVars, taskVars,
          notifyVars
  <2>3. JobSettled(j)' /\ Handover(j)
    <3>1. /\ watchdog[j] = "running" /\ watchdog'[j] = "none"
          /\ active_mutation = j /\ active_mutation' = None
          /\ status'[j] = "Failed" \/ status'[j] = status[j]
          /\ op' = op
      BY <1>20, <1>a, <1>b, <1>d DEF WatchdogFinalize, StillOwns, Holding, TypeOK
    <3>2. result'[j] = "ok" => closure'[j] # "exec"
      BY <1>20, <1>a, <1>b, <1>d DEF WatchdogFinalize, Outcome, TypeOK
    <3>3. pc'[j] \in {"await", "dropped"} /\ pc[j] \in {"await", "dropped"}
      BY <1>b, <1>d, <2>1, <3>1 DEF Moves
    <3>4. status[j] # "Completed" /\ j # None
      BY <1>b, <1>c, <3>3 DEF JobSettled
    <3>. QED
      BY <3>1, <3>2, <3>3, <3>4 DEF JobSettled, Handover, Holding, Succeeded
  <2>. QED
    BY <1>b, <1>c, <2>2, <2>3, RestSettled DEF Settled
<1>21. ASSUME NEW j \in JobIds, ReceiveResult(j) PROVE Settled' /\ \A i \in JobIds : Handover(i)
  <2>1. PICK l \in {"complete", "fail", "reserve"} :
           pc' = GoTo(j, l) /\ ((l = "fail") <=> (result[j] = "err"))
    BY <1>21 DEF ReceiveResult
  <2>2. pc'[j] = l /\ \A u \in JobIds \ {j} : pc'[u] = pc[u]
    BY <1>a, <1>b, <2>1 DEF GoTo, TypeOK
  <2>3. \A i \in JobIds \ {j} : Rests(i)
    BY <1>21, <1>a, <1>b, <2>1, <2>2
      DEF ReceiveResult, Rests, Same, Moves, TypeOK, slotVars, taskVars,
          notifyVars
  <2>a. /\ pc[j] = "await" /\ result[j] \in {"ok", "err"} /\ result'[j] = "none"
        /\ status' = status /\ op' = op /\ closure' = closure
        /\ watchdog' = watchdog /\ active_mutation' = active_mutation
    BY <1>21, <1>a DEF ReceiveResult, TypeOK, slotVars
  <2>b. watchdog[j] # "running"
    BY <1>d, <2>a
  <2>4. JobSettled(j)'
    BY <1>c, <2>1, <2>2, <2>a, <2>b DEF JobSettled, Holding, Succeeded
  <2>5. Handover(j)
    BY <2>1, <2>2, <2>a, <2>b DEF Handover, Holding
  <2>. QED
    BY <1>b, <1>c, <2>3, <2>4, <2>5, RestSettled DEF Settled
<1>22. ASSUME NEW j \in JobIds, CallerDropped(j) PROVE Settled' /\ \A i \in JobIds : Handover(i)
  <2>1. pc[j] = "parked" => pc' = GoTo(j, "dropped")
    BY <1>22 DEF CallerDropped
  <2>2. pc'[j] = "dropped" /\ \A u \in JobIds \ {j} : Moves(pc, u)
    <3>1. CASE pc' = GoTo(j, "dropped")
      BY <1>a, <1>b, <3>1 DEF GoTo, TypeOK, Moves
    <3>2. CASE pc[j] # "parked" /\ NotifyOne(GoTo(j, "dropped"))
      BY <1>b, <3>2, TaskStep DEF Pcs, JobPcs
    <3>. QED
      BY <1>22, <2>1, <3>1, <3>2 DEF CallerDropped
  <2>3. \A i \in JobIds \ {j} : Rests(i)
    BY <1>22, <1>a, <1>b, <2>2
      DEF CallerDropped, Rests, Same, Moves, TypeOK, slotVars, taskVars,
          notifyVars
  <2>4. JobSettled(j)' /\ Handover(j)
    BY <1>22, <1>a, <1>b, <2>2, <1>c, <1>d
      DEF CallerDropped, JobSettled, Handover, Holding, Moves, Succeeded,
          TypeOK, slotVars, taskVars, notifyVars
  <2>. QED
    BY <1>b, <1>c, <2>3, <2>4, RestSettled DEF Settled
<1>23. ASSUME NEW j \in JobIds, CompleteJob(j) PROVE Settled' /\ \A i \in JobIds : Handover(i)
  <2>. DEFINE p == [t \in Ids |-> IF t = j THEN AfterFinish(j)
                                   ELSE IF t = rebootJob[j] THEN "guardDrop" ELSE pc[t]]
  <2>1. rebootJob[j] \in RebootIds => pc[rebootJob[j]] = "guarded"
    BY <1>b DEF Inv, GuardHeld
  <2>2. /\ p \in [Ids -> Pcs] /\ p[j] = AfterFinish(j)
        /\ \A u \in JobIds \ {j} : p[u] = pc[u]
        /\ \A u \in Ids : p[u] # pc[u] => pc[u] # "parked"
    BY <1>23, <1>a, <1>b, <2>1
       DEF CompleteJob, AfterFinish, TypeOK, Pcs, JobPcs, RebootPcs
  <2>3. NotifyOne(p)
    BY <1>23 DEF CompleteJob, FinishJob
  <2>4. \A u \in Ids : Moves(p, u)
    <3>. HIDE DEF p
    <3>. QED
      BY <2>2, <2>3, PcStep
  <2>5. pc'[j] = AfterFinish(j) /\ \A u \in JobIds \ {j} : Moves(pc, u)
    <3>. HIDE DEF p
    <3>. QED
      BY <1>b, <2>2, <2>4 DEF Moves, AfterFinish
  <2>6. \A i \in JobIds \ {j} : Rests(i)
    BY <1>23, <1>a, <1>b, <2>5
      DEF CompleteJob, FinishJob, Rests, Same, Moves, TypeOK, slotVars,
          taskVars, notifyVars
  <2>7. JobSettled(j)' /\ Handover(j)
    <3>1. ASSUME j \in JobIds
          PROVE  /\ Same(j) /\ JobSettled(j)
                 /\ pc[j] \notin {"acquired", "await", "dropped"} /\ pc'[j] # "acquired"
                 /\ pc'[j] \in Succeeded => pc[j] \in Succeeded
      BY <1>23, <1>a, <1>b, <2>5, <1>c, <3>1
        DEF CompleteJob, FinishJob, AfterFinish, Same, Succeeded, TypeOK,
            slotVars, taskVars
    <3>2. ASSUME j \in JobIds, status'[j] = "Completed"
          PROVE  /\ pc'[j] \in {"delete", "release", "done"}
                 /\ pc[j] \in Succeeded \/ status[j] = "Completed"
      BY <1>23, <1>a, <1>b, <2>5, <1>c, <3>2
        DEF JobSettled, CompleteJob, FinishJob, AfterFinish, Same, Succeeded,
            TypeOK, slotVars, taskVars
    <3>. QED
      BY <3>1, <3>2, OutsideSettled
  <2>. QED
    BY <1>b, <1>c, <2>6, <2>7, RestSettled DEF Settled
<1>24. ASSUME NEW j \in JobIds, FailJob(j) PROVE Settled' /\ \A i \in JobIds : Handover(i)
  <2>1. pc'[j] = AfterFinish(j) /\ \A u \in Ids \ {j} : Moves(pc, u)
    BY <1>24, <1>a, <1>b, TaskStep
      DEF FailJob, FinishJob, Pcs, JobPcs, RebootPcs, Ids, AfterFinish
  <2>2. \A i \in JobIds \ {j} : Rests(i)
    BY <1>24, <1>a, <1>b, <2>1
      DEF FailJob, FinishJob, Rests, Same, Moves, TypeOK, slotVars, taskVars,
          notifyVars
  <2>3. JobSettled(j)' /\ Handover(j)
    <3>1. ASSUME j \in JobIds
          PROVE  /\ Same(j) /\ JobSettled(j)
                 /\ pc[j] \notin {"acquired", "await", "dropped"} /\ pc'[j] # "acquired"
                 /\ pc'[j] \in Succeeded => pc[j] \in Succeeded
      BY <1>24, <1>a, <1>b, <2>1, <1>c, <3>1
        DEF FailJob, FinishJob, AfterFinish, Same, Succeeded, TypeOK,
            slotVars, taskVars
    <3>2. ASSUME j \in JobIds, status'[j] = "Completed"
          PROVE  /\ pc'[j] \in {"delete", "release", "done"}
                 /\ pc[j] \in Succeeded \/ status[j] = "Completed"
      BY <1>24, <1>a, <1>b, <2>1, <1>c, <3>2
        DEF JobSettled, FailJob, FinishJob, AfterFinish, Same, Succeeded,
            TypeOK, slotVars, taskVars
    <3>. QED
      BY <3>1, <3>2, OutsideSettled
  <2>. QED
    BY <1>b, <1>c, <2>2, <2>3, RestSettled DEF Settled
<1>25. ASSUME NEW j \in JobIds, DeleteTrackingJob(j) PROVE Settled' /\ \A i \in JobIds : Handover(i)
  <2>1. pc'[j] = "done" /\ \A u \in Ids \ {j} : Moves(pc, u)
    BY <1>25, <1>a, <1>b, TaskStep
      DEF DeleteTrackingJob, Terminal, Pcs, JobPcs, RebootPcs, Ids
  <2>2. \A i \in JobIds \ {j} : Rests(i)
    BY <1>25, <1>a, <1>b, <2>1
      DEF DeleteTrackingJob, Terminal, Rests, Same, Moves, TypeOK, slotVars,
          taskVars, notifyVars
  <2>3. JobSettled(j)' /\ Handover(j)
    <3>1. ASSUME j \in JobIds
          PROVE  /\ Same(j) /\ JobSettled(j)
                 /\ pc[j] \notin {"acquired", "await", "dropped"} /\ pc'[j] # "acquired"
                 /\ pc'[j] \in Succeeded => pc[j] \in Succeeded
      BY <1>25, <1>a, <1>b, <2>1, <1>c, <3>1
        DEF DeleteTrackingJob, Terminal, Same, Succeeded, TypeOK, slotVars,
            taskVars
    <3>2. ASSUME j \in JobIds, status'[j] = "Completed"
          PROVE  /\ pc'[j] \in {"delete", "release", "done"}
                 /\ pc[j] \in Succeeded \/ status[j] = "Completed"
      BY <1>25, <1>a, <1>b, <2>1, <1>c, <3>2
        DEF JobSettled, DeleteTrackingJob, Terminal, Same, Succeeded, TypeOK,
            slotVars, taskVars
    <3>. QED
      BY <3>1, <3>2, OutsideSettled
  <2>. QED
    BY <1>b, <1>c, <2>2, <2>3, RestSettled DEF Settled
<1>26. ASSUME NEW j \in JobIds, ReleaseSelfUpdate(j) PROVE Settled' /\ \A i \in JobIds : Handover(i)
  <2>1. pc'[j] = "done" /\ \A u \in Ids \ {j} : Moves(pc, u)
    BY <1>26, <1>a, <1>b, TaskStep
      DEF ReleaseSelfUpdate, Pcs, JobPcs, RebootPcs, Ids
  <2>2. \A i \in JobIds \ {j} : Rests(i)
    BY <1>26, <1>a, <1>b, <2>1
      DEF ReleaseSelfUpdate, Rests, Same, Moves, TypeOK, slotVars, taskVars,
          notifyVars
  <2>3. JobSettled(j)' /\ Handover(j)
    <3>1. ASSUME j \in JobIds
          PROVE  /\ Same(j) /\ JobSettled(j)
                 /\ pc[j] \notin {"acquired", "await", "dropped"} /\ pc'[j] # "acquired"
                 /\ pc'[j] \in Succeeded => pc[j] \in Succeeded
      BY <1>26, <1>a, <1>b, <2>1, <1>c, <3>1
        DEF ReleaseSelfUpdate, Same, Succeeded, TypeOK, slotVars, taskVars
    <3>2. ASSUME j \in JobIds, status'[j] = "Completed"
          PROVE  /\ pc'[j] \in {"delete", "release", "done"}
                 /\ pc[j] \in Succeeded \/ status[j] = "Completed"
      BY <1>26, <1>a, <1>b, <2>1, <1>c, <3>2
        DEF JobSettled, ReleaseSelfUpdate, Same, Succeeded, TypeOK, slotVars,
            taskVars
    <3>. QED
      BY <3>1, <3>2, OutsideSettled
  <2>. QED
    BY <1>b, <1>c, <2>2, <2>3, RestSettled DEF Settled
<1>27. ASSUME NEW j \in Ids, DeleteJob(j) PROVE Settled' /\ \A i \in JobIds : Handover(i)
  <2>1. \A i \in JobIds : Rests(i)
    BY <1>27, <1>a, <1>b
      DEF DeleteJob, Terminal, Rests, Same, Moves, TypeOK, slotVars, taskVars,
          notifyVars
  <2>. QED
    BY <1>c, <2>1, RestSettled DEF Settled
<1>28. ASSUME FreezeAdmission PROVE Settled' /\ \A i \in JobIds : Handover(i)
  <2>1. \A u \in Ids : Moves(pc, u)
    BY <1>28, <1>p, PcStep DEF FreezeAdmission
  <2>2. \A i \in JobIds : Rests(i)
    BY <1>28, <1>a, <1>b, <2>1
      DEF FreezeAdmission, Rests, Same, Moves, TypeOK, slotVars, taskVars,
          notifyVars
  <2>. QED
    BY <1>c, <2>2, RestSettled DEF Settled
<1>. QED
  BY <1>1, <1>2, <1>3, <1>4, <1>5, <1>6, <1>7, <1>8, <1>9, <1>10, <1>11,
     <1>12, <1>13, <1>14, <1>15, <1>16, <1>17, <1>18, <1>19, <1>20, <1>21,
     <1>22, <1>23, <1>24, <1>25, <1>26, <1>27, <1>28
    DEF Next, Environment, JobTask, RebootTask, Ops, Tiers


\* The jobs are settled in every reachable state.
LEMMA SettledHolds == Spec => []Settled
<1>1. Init => Settled
  <2>. SUFFICES ASSUME Init, NEW j \in JobIds PROVE JobSettled(j)
    BY DEF Settled
  <2>1. /\ status[j] = "Absent" /\ pc[j] = "idle" /\ closure[j] = "none"
        /\ result[j] = "none"
    BY DEF Init, Ids
  <2>. QED
    BY <2>1 DEF JobSettled
<1>2. Settled /\ UNCHANGED vars => Settled'
  BY DEF Settled, JobSettled, Holding, vars
<1>. QED
  BY <1>1, <1>2, SettledStep, InvHolds, PTL DEF Spec

\* A package manager that outlives the backstop is never reported as
\* Completed, whatever else the scheduler does meanwhile.
THEOREM DetachedIsNeverCompleted == Spec => []DetachedNeverCompletes
<1>1. Settled => DetachedNeverCompletes
  BY DEF Settled, JobSettled, DetachedNeverCompletes
<1>. QED
  BY <1>1, SettledHolds, PTL

\* A reservation without force is made when no user job is active, and is left
\* alone or given up by every other step.
LEMMA PlainReservation ==
    ASSUME Inv, Next, reboot_pending' # None, tier' = "plain"
    PROVE  (reboot_pending # None /\ tier = "plain") \/ ActiveJobs = {}
<1>1. ASSUME NEW r \in RebootIds, NEW k \in Tiers, NEW p, ReserveReboot(r, k, p)
      PROVE  tier' = "plain" => ActiveJobs = {}
  BY <1>1 DEF ReserveReboot, CanReboot
<1>2. CASE UNCHANGED <<reboot_pending, tier>>
  BY <1>2
<1>3. CASE reboot_pending' = None
  BY <1>3
<1>4. CASE Environment
  BY <1>1, <1>2, <1>4 DEF Environment, AdmitJob, CreateRollbackJob, TryReserveSelfUpdate,
     AdmitReboot, DeleteJob, FreezeAdmission, Tiers
<1>5. ASSUME NEW j \in JobIds, JobTask(j)
      PROVE  \/ UNCHANGED <<reboot_pending, tier>>
             \/ \E r \in RebootIds :
                   ReserveReboot(r, "force", [pc EXCEPT ![j] = "reserved", ![r] = "guarded"])
  BY <1>5 DEF JobTask, DispatchReject, DispatchWait, PollNotified, DispatchAcquire,
     SpawnWatchdog, ReceiveResult, PatchReserveReboot, SetJobRebooting, CompleteJob, FailJob,
     FinishJob, DeleteTrackingJob, ReleaseSelfUpdate
<1>6. ASSUME NEW t \in Ids, RebootTask(t)
      PROVE  reboot_pending' = None \/ UNCHANGED <<reboot_pending, tier>>
  BY <1>6 DEF RebootTask, ReserveReturns, BeginRebootExecution, RebootCommandOk,
     RebootCommandErr, RebootFailed, RollbackReboot
<1>7. ASSUME NEW r \in RebootIds, GuardDrop(r)
      PROVE  reboot_pending' = None \/ UNCHANGED <<reboot_pending, tier>>
  BY <1>7 DEF GuardDrop, RollbackReboot
<1>8. ASSUME NEW j \in JobIds, ClosureExits(j) \/ WatchdogFinalize(j) \/ CallerDropped(j)
      PROVE  UNCHANGED <<reboot_pending, tier>>
  BY <1>8 DEF ClosureExits, WatchdogFinalize, CallerDropped
<1>9. ASSUME NEW r \in RebootIds, HandlerDropped(r) PROVE UNCHANGED <<reboot_pending, tier>>
  BY <1>9 DEF HandlerDropped
<1>10. ASSUME NEW j \in JobIds, JobTask(j)
       PROVE  UNCHANGED <<reboot_pending, tier>> \/ ActiveJobs = {}
  BY <1>1, <1>5, <1>10 DEF Tiers
<1>. QED
  BY <1>2, <1>3, <1>4, <1>6, <1>7, <1>8, <1>9, <1>10 DEF Next

\* Every step leaves the fence of a reboot without force up.
LEMMA PlainFenceStep ==
    ASSUME Inv, Settled, PlainRebootFence, Next
    PROVE  PlainRebootFence'
<1>. SUFFICES ASSUME reboot_pending' # None, tier' = "plain",
                     NEW j \in JobIds, Holding(j)'
              PROVE  op'[j] \in {"Refresh", "RefreshRollback"} \/ status'[j] = "Absent"
  BY DEF PlainRebootFence, IsInternal
<1>1. Holding(j) /\ op'[j] = op[j] /\ status'[j] = status[j]
  BY SettledStep DEF Handover
<1>2. CASE reboot_pending # None /\ tier = "plain"
  BY <1>1, <1>2 DEF PlainRebootFence, IsInternal
<1>3. CASE ActiveJobs = {}
  <2>1. status[j] \in {"Running", "Absent"}
    BY <1>1 DEF Settled, JobSettled
  <2>. QED
    BY <1>1, <1>3, <2>1 DEF ActiveJobs, Active, IsInternal, Ids
<1>. QED
  BY <1>2, <1>3, PlainReservation

\* While a reboot without force is reserved, only a cache refresh or an
\* operation whose record was deleted is under way.
THEOREM PlainRebootIsFenced == Spec => []PlainRebootFence
<1>1. Init => PlainRebootFence
  BY DEF Init, PlainRebootFence
<1>2. PlainRebootFence /\ UNCHANGED vars => PlainRebootFence'
  BY DEF PlainRebootFence, Holding, IsInternal, vars
<1>. QED
  BY <1>1, <1>2, PlainFenceStep, InvHolds, SettledHolds, PTL DEF Spec

\* If no caller of dispatch_mutation is ever dropped, the slot is never left
\* behind: the job it names has a caller about to spawn its watchdog, or that
\* watchdog.
THEOREM SlotAlwaysHasHolder ==
    ASSUME "caller" \notin MayDrop
    PROVE  Spec => []SlotHasHolder
<1>1. Init => SlotHasHolder
  BY SchedulerAssumption DEF Init, SlotHasHolder, Ids
<1>2. Inv /\ Settled /\ SlotHasHolder /\ Next => SlotHasHolder'
  BY SettledStep DEF Handover, SlotHasHolder
<1>3. SlotHasHolder /\ UNCHANGED vars => SlotHasHolder'
  BY DEF SlotHasHolder, Holding, vars
<1>. QED
  BY <1>1, <1>2, <1>3, InvHolds, SettledHolds, PTL DEF Spec

-----------------------------------------------------------------------------
(* The end of a job *)

\* A task is here from the acquisition of the slot to the report of its end.
Underway == {"acquired", "await"} \cup Succeeded

\* Until its task reports the end, a job that started is Running or Rebooting (or
\* was deleted while it was queued); an id without a task has no record.
RecordInv ==
    \A j \in JobIds :
        /\ pc[j] \in Underway => status[j] \in {"Running", "Rebooting", "Absent"}
        /\ pc[j] = "idle" => status[j] = "Absent"

\* Where a step that notifies leaves a task.
LEMMA NotifiedPc ==
    ASSUME TypeOK, NEW p, p \in [Ids -> Pcs], NotifyOne(p) \/ pc' = p, NEW j \in Ids
    PROVE  pc'[j] \in {p[j], "woken"}
<1>1. CASE pc' = p
  BY <1>1
<1>2. CASE NotifyOne(p)
  BY <1>2 DEF NotifyOne
<1>. QED
  BY <1>1, <1>2

\* What a step may do to a record, by whose step it is.
RecordMoves(j) ==
    \/ status'[j] = status[j]
    \/ status[j] = "Pending" /\ status'[j] = "Failed"
    \/ status[j] \in Terminal /\ status'[j] = "Absent"
    \/ pc[j] = "idle" /\ pc'[j] # "idle" /\ status'[j] = "Pending"
    \/ pc[j] \in {"dispatch", "woken"} /\ status'[j] = "Running"
    \/ pc[j] = "setRebooting" /\ status[j] = "Running" /\ status'[j] = "Rebooting"
    \/ pc[j] = "complete" /\ pc'[j] \notin Underway \cup {"idle"}
    \/ pc[j] = "fail" /\ status'[j] = "Failed"
    \/ pc[j] = "dropped" /\ status[j] = "Running" /\ status'[j] = "Failed"

\* What it may do to a task, as far as RecordInv tells places apart.
TaskMoves(j) ==
    \/ pc'[j] \in {pc[j], "woken"}
    \/ pc[j] \in {"dispatch", "woken"} /\ status'[j] \in {"Running", "Absent"} /\ pc'[j] # "idle"
    \/ pc'[j] \notin Underway \cup {"idle"}
    \/ pc[j] \in Underway /\ pc'[j] # "idle"

\* A step of task t that puts it at l; all others stay or are woken.
LEMMA OnePc ==
    ASSUME TypeOK, NEW t \in Ids, NEW l \in Pcs,
           NotifyOne(GoTo(t, l)) \/ pc' = GoTo(t, l)
    PROVE  pc'[t] \in {l, "woken"} /\ \A u \in Ids \ {t} : pc'[u] \in {pc[u], "woken"}
<1>. DEFINE p == GoTo(t, l)
<1>1. p \in [Ids -> Pcs] /\ p[t] = l /\ \A u \in Ids \ {t} : p[u] = pc[u]
  BY DEF GoTo, TypeOK, Pcs
<1>2. \A u \in Ids : pc'[u] \in {p[u], "woken"}
  <2>. HIDE DEF p
  <2>. QED
    BY <1>1, NotifiedPc DEF p
<1>. QED
  BY <1>1, <1>2

LEMMA EndStep ==
    ASSUME Inv, Next, NEW j \in JobIds
    PROVE  RecordMoves(j) /\ TaskMoves(j)
<1>a. TypeOK
  BY DEF Inv
<1>b. /\ JobIds \subseteq Ids /\ RebootIds \subseteq Ids
      /\ JobIds \cap RebootIds = {} /\ None \notin Ids
      /\ \A t \in Ids : t \in JobIds \/ t \in RebootIds
      /\ j \in Ids /\ j \notin RebootIds
  BY SchedulerAssumption DEF Ids
<1>c. "woken" \notin Underway \cup {"idle"}
  BY DEF Underway, Succeeded
<1>1. ASSUME NEW i \in JobIds, NEW o \in Ops, AdmitJob(i, o) PROVE RecordMoves(j) /\ TaskMoves(j)
  <2>1. pc'[i] \in {"dispatch", "woken"} /\ \A u \in Ids \ {i} : pc'[u] \in {pc[u], "woken"}
    BY <1>1, <1>a, <1>b, OnePc DEF AdmitJob, Pcs, JobPcs
  <2>2. status' = [status EXCEPT ![i] = "Pending"] /\ pc[i] = "idle"
    BY <1>1 DEF AdmitJob
  <2>. QED
    BY <1>a, <1>b, <2>1, <2>2 DEF RecordMoves, TaskMoves, TypeOK, Underway, Succeeded
<1>2. ASSUME NEW i \in JobIds, CreateRollbackJob(i) PROVE RecordMoves(j) /\ TaskMoves(j)
  <2>1. pc'[i] \in {"done", "woken"} /\ \A u \in Ids \ {i} : pc'[u] \in {pc[u], "woken"}
    BY <1>2, <1>a, <1>b, OnePc DEF CreateRollbackJob, Pcs, JobPcs
  <2>2. status' = [status EXCEPT ![i] = "Pending"] /\ pc[i] = "idle"
    BY <1>2 DEF CreateRollbackJob
  <2>. QED
    BY <1>a, <1>b, <2>1, <2>2 DEF RecordMoves, TaskMoves, TypeOK, Underway, Succeeded
<1>3. ASSUME NEW i \in JobIds, TryReserveSelfUpdate(i) PROVE RecordMoves(j) /\ TaskMoves(j)
  <2>1. pc'[i] \in {"dispatch", "woken"} /\ \A u \in Ids \ {i} : pc'[u] \in {pc[u], "woken"}
    BY <1>3, <1>a, <1>b, OnePc DEF TryReserveSelfUpdate, Pcs, JobPcs
  <2>2. status' = [status EXCEPT ![i] = "Pending"] /\ pc[i] = "idle"
    BY <1>3 DEF TryReserveSelfUpdate
  <2>. QED
    BY <1>a, <1>b, <2>1, <2>2 DEF RecordMoves, TaskMoves, TypeOK, Underway, Succeeded
<1>4. ASSUME NEW r \in RebootIds, status' = FailPending(r) PROVE RecordMoves(j)
  <2>1. status'[j] = IF status[j] = "Pending" THEN "Failed" ELSE status[j]
    BY <1>4, <1>b DEF FailPending
  <2>. QED
    BY <2>1 DEF RecordMoves
<1>5. ASSUME NEW r \in RebootIds, NEW k \in Tiers, AdmitReboot(r, k)
      PROVE  RecordMoves(j) /\ TaskMoves(j)
  <2>1. pc'[j] \in {pc[j], "woken"}
    BY <1>5, <1>a, <1>b, OnePc DEF AdmitReboot, ReserveReboot, Pcs, RebootPcs
  <2>2. status' = FailPending(r)
    BY <1>5 DEF AdmitReboot, ReserveReboot
  <2>. QED
    BY <1>4, <2>1, <2>2 DEF TaskMoves
<1>6. ASSUME NEW i \in JobIds, PatchReserveReboot(i) PROVE RecordMoves(j) /\ TaskMoves(j)
  <2>1. CASE pc' = GoTo(i, "complete") /\ status' = status
    <3>1. pc'[i] \in {"complete", "woken"} /\ \A u \in Ids \ {i} : pc'[u] \in {pc[u], "woken"}
      BY <2>1, <1>a, <1>b, OnePc DEF Pcs, JobPcs
    <3>. QED
      BY <1>6, <1>b, <2>1, <3>1 DEF PatchReserveReboot, RecordMoves, TaskMoves, Underway, Succeeded
  <2>2. ASSUME NEW r \in RebootIds,
               NotifyOne([pc EXCEPT ![i] = "reserved", ![r] = "guarded"]), status' = FailPending(r)
        PROVE  RecordMoves(j) /\ TaskMoves(j)
    <3>. DEFINE p == [pc EXCEPT ![i] = "reserved", ![r] = "guarded"]
    <3>1. p \in [Ids -> Pcs] /\ p[j] = IF j = i THEN "reserved" ELSE pc[j]
      BY <1>a, <1>b DEF TypeOK, Pcs, JobPcs, RebootPcs
    <3>2. pc'[j] \in {p[j], "woken"}
      <4>. HIDE DEF p
      <4>. QED
        BY <1>a, <1>b, <2>2, <3>1, NotifiedPc DEF p
    <3>3. pc[i] = "reserve"
      BY <1>6 DEF PatchReserveReboot
    <3>. HIDE DEF p
    <3>. QED
      BY <1>4, <2>2, <3>1, <3>2, <3>3 DEF TaskMoves, Underway, Succeeded
  <2>. QED
    BY <1>6, <2>1, <2>2 DEF PatchReserveReboot, ReserveReboot
<1>7. ASSUME NEW t \in Ids, RebootTask(t) PROVE RecordMoves(j) /\ TaskMoves(j)
  <2>1. pc[t] \in BeforeReboot \cup DuringReboot => RebootJob(t) \in RebootIds
    BY <1>a DEF Inv, ReservationOwned, TypeOK
  <2>2. /\ pc[t] \in {"reserved", "begin", "rebootCmd", "rollback"}
        /\ RebootJob(t) \in RebootIds
    BY <1>7, <2>1 DEF RebootTask, ReserveReturns, BeginRebootExecution, RebootCommandOk,
                      RebootCommandErr, RebootFailed, BeforeReboot, DuringReboot
  <2>3. status'[j] = status[j]
    BY <1>7, <1>a, <1>b, <2>2
      DEF RebootTask, ReserveReturns, BeginRebootExecution, RebootCommandOk,
          RebootCommandErr, RebootFailed, RollbackReboot, TypeOK
  <2>4. \/ \E l \in {"begin", "setRebooting", "rebootCmd", "done", "complete", "rollback"} :
              NotifyOne(GoTo(t, l)) \/ pc' = GoTo(t, l)
        \/ pc' = [pc EXCEPT ![t] = "done", ![RebootJob(t)] = "done"]
    BY <1>7 DEF RebootTask, ReserveReturns, BeginRebootExecution, RebootCommandOk,
                RebootCommandErr, RebootFailed, RollbackReboot
  <2>5. CASE pc' = [pc EXCEPT ![t] = "done", ![RebootJob(t)] = "done"]
    <3>1. pc'[j] = IF j = t THEN "done" ELSE pc[j]
      BY <1>a, <1>b, <2>2, <2>5 DEF TypeOK
    <3>. QED
      BY <2>3, <3>1 DEF RecordMoves, TaskMoves, Underway, Succeeded
  <2>6. ASSUME NEW l \in {"begin", "setRebooting", "rebootCmd", "done", "complete", "rollback"},
               NotifyOne(GoTo(t, l)) \/ pc' = GoTo(t, l)
        PROVE  RecordMoves(j) /\ TaskMoves(j)
    <3>1. pc'[t] \in {l, "woken"} /\ \A u \in Ids \ {t} : pc'[u] \in {pc[u], "woken"}
      BY <2>6, <1>a, OnePc DEF Pcs, JobPcs
    <3>. QED
      BY <1>b, <2>2, <2>3, <3>1 DEF RecordMoves, TaskMoves, Underway, Succeeded
  <2>. QED
    BY <2>4, <2>5, <2>6
<1>8. ASSUME NEW r \in RebootIds, GuardDrop(r) PROVE RecordMoves(j) /\ TaskMoves(j)
  <2>1. pc'[j] \in {pc[j], "woken"}
    BY <1>8, <1>a, <1>b, OnePc DEF GuardDrop, RollbackReboot, Pcs, RebootPcs
  <2>2. status'[j] = status[j]
    BY <1>8, <1>a, <1>b DEF GuardDrop, RollbackReboot, TypeOK
  <2>. QED
    BY <2>1, <2>2 DEF RecordMoves, TaskMoves
<1>9. ASSUME NEW r \in RebootIds, HandlerDropped(r) PROVE RecordMoves(j) /\ TaskMoves(j)
  <2>1. pc'[j] \in {pc[j], "woken"} /\ status' = status
    BY <1>9, <1>a, <1>b, OnePc DEF HandlerDropped, Pcs, RebootPcs
  <2>. QED
    BY <2>1 DEF RecordMoves, TaskMoves
<1>10. ASSUME NEW i \in JobIds, SetJobRebooting(i) PROVE RecordMoves(j) /\ TaskMoves(j)
  <2>1. pc'[i] \in {"begin", "woken"} /\ \A u \in Ids \ {i} : pc'[u] \in {pc[u], "woken"}
    BY <1>10, <1>a, <1>b, OnePc DEF SetJobRebooting, Pcs, JobPcs
  <2>2. /\ pc[i] = "setRebooting"
        /\ \/ status' = status
           \/ status[i] = "Running" /\ status' = [status EXCEPT ![i] = "Rebooting"]
    BY <1>10 DEF SetJobRebooting
  <2>. QED
    BY <1>a, <1>b, <2>1, <2>2 DEF RecordMoves, TaskMoves, TypeOK, Underway, Succeeded
<1>11. ASSUME NEW i \in JobIds,
              DispatchReject(i) \/ DispatchWait(i) \/ PollNotified(i)
       PROVE  RecordMoves(j) /\ TaskMoves(j)
  <2>1. PICK l \in {"fail", "parking", "dispatch", "parked"} : pc' = GoTo(i, l)
    BY <1>11 DEF DispatchReject, DispatchWait, PollNotified
  <2>2. pc'[i] \in {l, "woken"} /\ \A u \in Ids \ {i} : pc'[u] \in {pc[u], "woken"}
    BY <1>a, <1>b, <2>1, OnePc DEF Pcs, JobPcs
  <2>3. status' = status
    BY <1>11 DEF DispatchReject, DispatchWait, PollNotified
  <2>. QED
    BY <1>b, <2>1, <2>2, <2>3 DEF RecordMoves, TaskMoves, Underway, Succeeded
<1>12. ASSUME NEW i \in JobIds, DispatchAcquire(i) PROVE RecordMoves(j) /\ TaskMoves(j)
  <2>1. pc'[i] \in {"acquired", "woken"} /\ \A u \in Ids \ {i} : pc'[u] \in {pc[u], "woken"}
    BY <1>12, <1>a, <1>b, OnePc DEF DispatchAcquire, Pcs, JobPcs
  <2>2. /\ pc[i] \in {"dispatch", "woken"}
        /\ status' = [status EXCEPT ![i] = IF @ = "Absent" THEN @ ELSE "Running"]
    BY <1>12 DEF DispatchAcquire
  <2>3. /\ status'[i] = IF status[i] = "Absent" THEN "Absent" ELSE "Running"
        /\ \A u \in Ids \ {i} : status'[u] = status[u]
    BY <1>a, <1>b, <2>2 DEF TypeOK
  <2>. QED
    BY <1>b, <2>1, <2>2, <2>3 DEF RecordMoves, TaskMoves
<1>13. ASSUME NEW i \in JobIds, SpawnWatchdog(i) \/ ReceiveResult(i)
       PROVE  RecordMoves(j) /\ TaskMoves(j)
  <2>1. PICK l \in {"await", "complete", "fail", "reserve"} : pc' = GoTo(i, l)
    BY <1>13 DEF SpawnWatchdog, ReceiveResult
  <2>2. pc'[i] \in {l, "woken"} /\ \A u \in Ids \ {i} : pc'[u] \in {pc[u], "woken"}
    BY <1>a, <1>b, <2>1, OnePc DEF Pcs, JobPcs
  <2>3. status' = status /\ pc[i] \in {"acquired", "await"}
    BY <1>13 DEF SpawnWatchdog, ReceiveResult
  <2>. QED
    BY <1>b, <2>1, <2>2, <2>3 DEF RecordMoves, TaskMoves, Underway
<1>14. ASSUME NEW i \in JobIds, CompleteJob(i) PROVE RecordMoves(j) /\ TaskMoves(j)
  <2>. DEFINE p == [t \in Ids |-> IF t = i THEN AfterFinish(i)
                                  ELSE IF t = rebootJob[i] THEN "guardDrop" ELSE pc[t]]
  <2>1. /\ p \in [Ids -> Pcs]
        /\ p[j] \in {pc[j]} \cup {"delete", "release", "done"}
        /\ j = i => p[j] \in {"delete", "release", "done"}
    <3>1. AfterFinish(i) \in {"delete", "release", "done"}
      BY DEF AfterFinish
    <3>2. \A t \in Ids : pc[t] \in Pcs
      BY <1>a DEF TypeOK, Pcs
    <3>3. {"delete", "release", "done", "guardDrop"} \subseteq Pcs
      BY DEF Pcs, JobPcs, RebootPcs
    <3>4. rebootJob[i] # j
      BY <1>a, <1>b DEF TypeOK
    <3>. QED
      BY <1>b, <3>1, <3>2, <3>3, <3>4
  <2>2. NotifyOne(p) /\ pc[i] = "complete"
    BY <1>14 DEF CompleteJob, FinishJob
  <2>3. pc'[j] \in {p[j], "woken"}
    <3>. HIDE DEF p
    <3>. QED
      BY <1>a, <1>b, <2>1, <2>2, NotifiedPc
  <2>4. j # i => status'[j] = status[j]
    BY <1>14, <1>a, <1>b DEF CompleteJob, FinishJob, TypeOK
  <2>. HIDE DEF p
  <2>. QED
    BY <1>c, <2>1, <2>2, <2>3, <2>4 DEF RecordMoves, TaskMoves, Underway, Succeeded
<1>15. ASSUME NEW i \in JobIds, FailJob(i) PROVE RecordMoves(j) /\ TaskMoves(j)
  <2>1. AfterFinish(i) \in {"delete", "release", "done"}
    BY DEF AfterFinish
  <2>2. /\ pc'[i] \in {AfterFinish(i), "woken"}
        /\ \A u \in Ids \ {i} : pc'[u] \in {pc[u], "woken"}
    BY <1>15, <1>a, <1>b, <2>1, OnePc DEF FailJob, FinishJob, Pcs, JobPcs
  <2>3. /\ pc[i] = "fail"
        /\ status' = [status EXCEPT ![i] = IF @ = "Absent" THEN @ ELSE "Failed"]
    BY <1>15 DEF FailJob, FinishJob
  <2>. QED
    BY <1>a, <1>b, <2>1, <2>2, <2>3 DEF RecordMoves, TaskMoves, TypeOK, Underway, Succeeded
<1>16. ASSUME NEW i \in JobIds, DeleteTrackingJob(i) \/ ReleaseSelfUpdate(i)
       PROVE  RecordMoves(j) /\ TaskMoves(j)
  <2>1. pc'[i] \in {"done", "woken"} /\ \A u \in Ids \ {i} : pc'[u] \in {pc[u], "woken"}
    BY <1>16, <1>a, <1>b, OnePc DEF DeleteTrackingJob, ReleaseSelfUpdate, Pcs, JobPcs
  <2>2. \/ status' = status
        \/ status[i] \in Terminal /\ status' = [status EXCEPT ![i] = "Absent"]
    BY <1>16 DEF DeleteTrackingJob, ReleaseSelfUpdate
  <2>. QED
    BY <1>a, <1>b, <2>1, <2>2 DEF RecordMoves, TaskMoves, TypeOK, Underway, Succeeded
<1>17. ASSUME NEW i \in Ids, DeleteJob(i) PROVE RecordMoves(j) /\ TaskMoves(j)
  BY <1>17, <1>a, <1>b DEF DeleteJob, notifyVars, RecordMoves, TaskMoves, TypeOK
<1>18. ASSUME FreezeAdmission PROVE RecordMoves(j) /\ TaskMoves(j)
  <2>1. pc'[j] \in {pc[j], "woken"}
    BY <1>18, <1>a, <1>b, NotifiedPc DEF FreezeAdmission, TypeOK, Pcs
  <2>. QED
    BY <1>18, <2>1 DEF FreezeAdmission, RecordMoves, TaskMoves
<1>19. ASSUME NEW i \in JobIds, ClosureExits(i) PROVE RecordMoves(j) /\ TaskMoves(j)
  BY <1>19 DEF ClosureExits, notifyVars, RecordMoves, TaskMoves
<1>20. ASSUME NEW i \in JobIds, WatchdogFinalize(i) PROVE RecordMoves(j) /\ TaskMoves(j)
  <2>1. pc'[j] \in {pc[j], "woken"}
    BY <1>20, <1>a, <1>b, NotifiedPc DEF WatchdogFinalize, TypeOK, Pcs
  <2>2. \/ status' = status
        \/ /\ status' = [status EXCEPT ![i] = "Failed"]
           /\ status[i] \in {"Running", "Pending"} /\ pc[i] # "await"
           /\ watchdog[i] = "running"
    BY <1>20 DEF WatchdogFinalize
  <2>3. watchdog[i] = "running" => pc[i] \in {"await", "dropped"}
    BY DEF Inv, WatchdogPhase
  <2>. QED
    BY <1>a, <1>b, <2>1, <2>2, <2>3 DEF RecordMoves, TaskMoves, TypeOK
<1>21. ASSUME NEW i \in JobIds, CallerDropped(i) PROVE RecordMoves(j) /\ TaskMoves(j)
  <2>1. pc'[i] \in {"dropped", "woken"} /\ \A u \in Ids \ {i} : pc'[u] \in {pc[u], "woken"}
    BY <1>21, <1>a, <1>b, OnePc DEF CallerDropped, Pcs, JobPcs
  <2>2. status' = status
    BY <1>21 DEF CallerDropped
  <2>. QED
    BY <1>b, <2>1, <2>2 DEF RecordMoves, TaskMoves, Underway, Succeeded
<1>22. ASSUME Environment PROVE RecordMoves(j) /\ TaskMoves(j)
  BY <1>22, <1>1, <1>2, <1>3, <1>5, <1>17, <1>18 DEF Environment, Ops, Tiers
<1>23. ASSUME NEW i \in JobIds, JobTask(i) PROVE RecordMoves(j) /\ TaskMoves(j)
  BY <1>23, <1>6, <1>10, <1>11, <1>12, <1>13, <1>14, <1>15, <1>16 DEF JobTask
<1>. QED
  BY <1>7, <1>8, <1>9, <1>19, <1>20, <1>21, <1>22, <1>23 DEF Next

LEMMA RecordStep ==
    ASSUME Inv, Settled, RecordInv, Next
    PROVE  /\ RecordInv'
           /\ \A j \in JobIds :
                 status[j] \in Terminal /\ status'[j] \notin {status[j], "Absent"} =>
                     /\ status[j] = "Failed" /\ status'[j] = "Running"
                     /\ pc[j] \in {"dispatch", "woken"}
<1>. SUFFICES ASSUME NEW j \in JobIds
              PROVE  /\ pc'[j] \in Underway => status'[j] \in {"Running", "Rebooting", "Absent"}
                     /\ pc'[j] = "idle" => status'[j] = "Absent"
                     /\ status[j] \in Terminal /\ status'[j] \notin {status[j], "Absent"} =>
                           /\ status[j] = "Failed" /\ status'[j] = "Running"
                           /\ pc[j] \in {"dispatch", "woken"}
  BY DEF RecordInv
<1>1. RecordMoves(j) /\ TaskMoves(j)
  BY EndStep
<1>2. /\ pc[j] \in Underway => status[j] \in {"Running", "Rebooting", "Absent"}
      /\ pc[j] = "idle" => status[j] = "Absent"
      /\ status[j] = "Completed" => pc[j] \in {"delete", "release", "done"}
  BY DEF RecordInv, Settled, JobSettled
<1>3. {"setRebooting", "complete"} \subseteq Underway /\ {"idle", "dispatch", "woken", "fail", "dropped"} \cap Underway = {}
  BY DEF Underway, Succeeded
<1>4. pc'[j] = "idle" => status'[j] = "Absent"
  BY <1>1, <1>2, <1>3 DEF RecordMoves, TaskMoves, Terminal
<1>5. ASSUME pc'[j] \in Underway PROVE status'[j] \in {"Running", "Rebooting", "Absent"}
  BY <1>1, <1>2, <1>3, <1>5 DEF RecordMoves, TaskMoves, Terminal
<1>6. ASSUME status[j] \in Terminal, status'[j] \notin {status[j], "Absent"}
      PROVE  /\ status[j] = "Failed" /\ status'[j] = "Running"
             /\ pc[j] \in {"dispatch", "woken"}
  BY <1>1, <1>2, <1>3, <1>6 DEF RecordMoves, Terminal
<1>. QED
  BY <1>4, <1>5, <1>6

\* The end reported of a job is final until its record is deleted, but for the
\* one case in the code: a job failed while it was queued, which its own
\* dispatch then starts.
THEOREM EndsAreFinal == Spec => EndIsFinal
<1>1. Init => RecordInv
  BY DEF Init, RecordInv, Ids, Underway, Succeeded
<1>2. RecordInv /\ UNCHANGED vars => RecordInv'
  BY DEF RecordInv, vars
<1>3. Inv /\ Settled /\ RecordInv /\ [Next]_vars =>
        [\A j \in JobIds :
            status[j] \in Terminal /\ status'[j] \notin {status[j], "Absent"} =>
                /\ status[j] = "Failed" /\ status'[j] = "Running"
                /\ pc[j] \in {"dispatch", "woken"}]_vars
  BY RecordStep
<1>4. Inv /\ Settled /\ RecordInv /\ [Next]_vars => RecordInv'
  BY <1>2, RecordStep
<1>. QED
  BY <1>1, <1>3, <1>4, InvHolds, SettledHolds, PTL DEF Spec, EndIsFinal

-----------------------------------------------------------------------------
(* No wakeup is lost *)

\* A stored permit means an empty queue; whoever is parked is in the queue; and
\* while somebody is parked, or has tested the slot and is about to be, there is
\* a permit to take or a task on its way to a notification.
QueueInv ==
    /\ permit => waiters = << >>
    /\ \A j \in JobIds : pc[j] = "parked" => \E i \in 1..Len(waiters) : waiters[i] = j
    /\ (\E j \in JobIds : pc[j] \in {"parking", "parked"}) =>
          permit \/ \E k \in JobIds : pc[k] \in Driving

\* No caller is dropped, and at its await a result comes or is there.
AwaitInv ==
    \A j \in JobIds :
        /\ pc[j] # "dropped"
        /\ pc[j] = "await" => watchdog[j] = "running" \/ result[j] # "none"

\* The tasks of Running jobs: a job that holds up others by max_concurrent has a
\* task that goes on.
Started == {"acquired", "await", "complete", "fail", "reserve", "reserved", "setRebooting"}

RunInv == \A j \in Ids : status[j] = "Running" => j \in JobIds /\ pc[j] \in Started

WakeInv == QueueInv /\ AwaitInv /\ RunInv

\* A notification wakes a task or is stored; whoever stays parked stays queued.
LEMMA NotifyWakes ==
    ASSUME Inv, QueueInv, NEW p \in [Ids -> Pcs],
           \A u \in Ids : p[u] = "parked" <=> pc[u] = "parked",
           NotifyOne(p)
    PROVE  QueueInv'
<1>1. waiters \in Seq(JobIds) /\ JobIds \subseteq Ids
  BY DEF Inv, TypeOK, Ids
<1>2. CASE waiters = << >>
  <2>1. permit' = TRUE /\ pc' = p /\ waiters' = waiters
    BY <1>2 DEF NotifyOne
  <2>2. \A j \in JobIds : pc'[j] # "parked"
    BY <1>1, <1>2, <2>1 DEF QueueInv
  <2>. QED BY <1>2, <2>1, <2>2 DEF QueueInv
<1>3. CASE waiters # << >>
  <2>. DEFINE h == Head(waiters)
  <2>1. pc' = [p EXCEPT ![h] = "woken"] /\ waiters' = Tail(waiters) /\ permit' = permit
    BY <1>3 DEF NotifyOne
  <2>2. h \in JobIds /\ h \in Ids /\ h = waiters[1] /\ ~ permit
    BY <1>1, <1>3 DEF QueueInv
  <2>3. pc'[h] = "woken" /\ \A u \in Ids \ {h} : pc'[u] = p[u]
    BY <2>1, <2>2
  <2>4. /\ Len(waiters) \in Nat /\ Len(waiters') = Len(waiters) - 1
        /\ \A i \in 1..Len(waiters') : waiters'[i] = waiters[i + 1]
    BY <1>1, <1>3, <2>1
  <2>. HIDE DEF h
  <2>5. ASSUME NEW j \in JobIds, pc'[j] = "parked"
        PROVE  \E i \in 1..Len(waiters') : waiters'[i] = j
    <3>1. j # h /\ pc[j] = "parked"
      BY <1>1, <2>3, <2>5
    <3>2. PICK i \in 1..Len(waiters) : waiters[i] = j
      BY <3>1 DEF QueueInv
    <3>3. i # 1 /\ i \in Nat
      BY <2>2, <2>4, <3>1, <3>2
    <3>4. i - 1 \in 1..Len(waiters') /\ (i - 1) + 1 = i
      BY <2>4, <3>2, <3>3
    <3>. QED BY <2>4, <3>2, <3>4
  <2>6. \E k \in JobIds : pc'[k] \in Driving
    BY <2>2, <2>3 DEF Driving
  <2>. QED BY <2>1, <2>2, <2>5, <2>6 DEF QueueInv
<1>. QED BY <1>2, <1>3

\* A step that parks nobody keeps the invariant if it notifies, or takes no task
\* off its way to a notification.
LEMMA WakeKept ==
    ASSUME Inv, WakeInv, NEW p, p \in [Ids -> Pcs],
           \A u \in Ids : p[u] # pc[u] =>
              pc[u] # "parked" /\ p[u] \notin {"parking", "parked"},
           \/ NotifyOne(p)
           \/ /\ pc' = p /\ UNCHANGED <<permit, waiters>>
              /\ \A u \in JobIds : pc[u] \in Driving => p[u] \in Driving,
           \A u \in JobIds :
              /\ p[u] # "dropped"
              /\ p[u] = "await" => watchdog'[u] = "running" \/ result'[u] # "none",
           \A u \in Ids : status'[u] = "Running" => u \in JobIds /\ p[u] \in Started
    PROVE  WakeInv'
<1>1. \A u \in Ids : Moves(p, u)
  BY PcStep
<1>2. JobIds \subseteq Ids
  BY DEF Ids
<1>3. \A u \in Ids : p[u] = "parked" <=> pc[u] = "parked"
  OBVIOUS
<1>4. QueueInv'
  <2>1. CASE NotifyOne(p)
    BY <1>3, <2>1, NotifyWakes DEF WakeInv
  <2>2. CASE /\ pc' = p /\ UNCHANGED <<permit, waiters>>
             /\ \A u \in JobIds : pc[u] \in Driving => p[u] \in Driving
    <3>1. \A j \in JobIds : /\ pc'[j] = "parked" => pc[j] = "parked"
                            /\ pc'[j] = "parking" => pc[j] = "parking"
                            /\ pc[j] \in Driving => pc'[j] \in Driving
      BY <1>2, <2>2
    <3>. QED BY <2>2, <3>1 DEF WakeInv, QueueInv
  <2>. QED BY <2>1, <2>2
<1>5. AwaitInv'
  BY <1>1, <1>2 DEF Moves, AwaitInv
<1>6. RunInv'
  BY <1>1 DEF Moves, RunInv, Started
<1>. QED BY <1>4, <1>5, <1>6 DEF WakeInv

\* The usual case: one task moves, and no other job starts to run.
LEMMA WakeMove ==
    ASSUME Inv, WakeInv, NEW t \in Ids, NEW l \in Pcs,
           pc[t] # "parked", l \notin {"parking", "parked"},
           \/ NotifyOne(GoTo(t, l))
           \/ /\ pc' = GoTo(t, l) /\ UNCHANGED <<permit, waiters>>
              /\ t \in JobIds /\ pc[t] \in Driving => l \in Driving,
           l = "await" => watchdog'[t] = "running", t \in JobIds => l # "dropped",
           \A u \in JobIds \ {t} : watchdog'[u] = watchdog[u] /\ result'[u] = result[u],
           \A u \in Ids \ {t} : status'[u] = "Running" => status[u] = "Running",
           status'[t] = "Running" => t \in JobIds /\ l \in Started
    PROVE  WakeInv'
<1>. DEFINE p == GoTo(t, l)
<1>1. /\ p \in [Ids -> Pcs] /\ p[t] = l
      /\ \A u \in Ids \ {t} : p[u] = pc[u]
  BY DEF GoTo, Inv, TypeOK, Pcs
<1>2. JobIds \subseteq Ids
  BY DEF Ids
<1>3. \/ NotifyOne(p)
      \/ /\ pc' = p /\ UNCHANGED <<permit, waiters>>
         /\ t \in JobIds /\ pc[t] \in Driving => l \in Driving
  OBVIOUS
<1>. HIDE DEF p
<1>4. \A u \in Ids : p[u] # pc[u] => pc[u] # "parked" /\ p[u] \notin {"parking", "parked"}
  BY <1>1
<1>5. (t \in JobIds /\ pc[t] \in Driving => l \in Driving) =>
         \A u \in JobIds : pc[u] \in Driving => p[u] \in Driving
  BY <1>1, <1>2
<1>6. \A u \in JobIds :
         /\ p[u] # "dropped"
         /\ p[u] = "await" => watchdog'[u] = "running" \/ result'[u] # "none"
  BY <1>1, <1>2 DEF WakeInv, AwaitInv
<1>7. \A u \in Ids : status'[u] = "Running" => u \in JobIds /\ p[u] \in Started
  BY <1>1 DEF WakeInv, RunInv
<1>. QED BY <1>1, <1>3, <1>4, <1>5, <1>6, <1>7, WakeKept

\* A job that must wait leaves behind a task that will notify: the holder of the
\* slot, or a Running job, whose task is not inside a reboot since none is
\* reserved.
LEMMA SomebodyDrives ==
    ASSUME Inv, WakeInv, SlotHasHolder,
           NEW j \in JobIds, pc[j] \in {"dispatch", "woken"}, ~ Rejected(j), MustWait(j)
    PROVE  \E k \in JobIds \ {j} : pc[k] \in Driving
<1>1. CASE active_mutation # None
  <2>1. active_mutation \in JobIds
    BY <1>1 DEF Inv, TypeOK
  <2>2. Holding(active_mutation)
    BY <2>1 DEF SlotHasHolder
  <2>3. pc[active_mutation] \in {"acquired", "await"}
    BY <2>1, <2>2 DEF Holding, Inv, WatchdogPhase, WakeInv, AwaitInv
  <2>. QED BY <2>1, <2>3 DEF Driving
<1>2. CASE status[j] # "Running" /\ Cardinality(RunningJobs) >= MaxConcurrent
  <2>1. RunningJobs # {}
    BY <1>2, FS_EmptySet, SchedulerAssumption
  <2>2. PICK k \in Ids : status[k] = "Running"
    BY <2>1 DEF RunningJobs
  <2>3. k \in JobIds /\ pc[k] \in Started /\ k # j
    BY <1>2, <2>2 DEF WakeInv, RunInv
  <2>4. pc[k] \notin {"reserved", "setRebooting"}
    BY <2>2 DEF Rejected, Inv, ReservationOwned, BeforeReboot
  <2>. QED BY <2>3, <2>4 DEF Started, Driving
<1>. QED BY <1>1, <1>2 DEF MustWait

\* Every step keeps the invariant, if no caller of dispatch_mutation is dropped.
LEMMA WakeStep ==
    ASSUME Inv, WakeInv, SlotHasHolder, "caller" \notin MayDrop, Next
    PROVE  WakeInv'
<1>a. TypeOK /\ permit \in BOOLEAN
  BY DEF Inv, TypeOK
<1>b. /\ JobIds \subseteq Ids /\ RebootIds \subseteq Ids
      /\ JobIds \cap RebootIds = {} /\ None \notin Ids
      /\ \A t \in Ids : t \in JobIds \/ t \in RebootIds
  BY SchedulerAssumption DEF Ids
<1>c. /\ \A u \in Ids : status[u] = "Running" => u \in JobIds /\ pc[u] \in Started
      /\ \A u \in JobIds :
            /\ pc[u] # "dropped"
            /\ pc[u] = "await" => watchdog[u] = "running" \/ result[u] # "none"
  BY DEF WakeInv, RunInv, AwaitInv
<1>d. pc \in [Ids -> Pcs] /\ \A u \in Ids : pc[u] \in Pcs
  BY <1>a DEF TypeOK, Pcs
<1>e. ASSUME NEW t \in Ids, pc[t] \in BeforeReboot \cup DuringReboot
      PROVE  RebootJob(t) \in RebootIds
  BY <1>a, <1>e DEF Inv, ReservationOwned, TypeOK
<1>f. \A l \in JobPcs \cup RebootPcs : l \in Pcs
  BY DEF Pcs
<1>1. ASSUME NEW j \in JobIds, NEW o \in Ops, AdmitJob(j, o) PROVE WakeInv'
  <2>1. NotifyOne(GoTo(j, "dispatch")) /\ pc[j] = "idle" /\ UNCHANGED <<watchdog, result>>
    BY <1>1 DEF AdmitJob, taskVars
  <2>2. status'[j] = "Pending" /\ \A u \in Ids \ {j} : status'[u] = status[u]
    BY <1>1, <1>a, <1>b DEF AdmitJob, TypeOK
  <2>. QED BY <1>b, <1>f, <2>1, <2>2, WakeMove DEF JobPcs
<1>2. ASSUME NEW j \in JobIds, CreateRollbackJob(j) PROVE WakeInv'
  <2>1. NotifyOne(GoTo(j, "done")) /\ pc[j] = "idle" /\ UNCHANGED <<watchdog, result>>
    BY <1>2 DEF CreateRollbackJob, taskVars
  <2>2. status'[j] = "Pending" /\ \A u \in Ids \ {j} : status'[u] = status[u]
    BY <1>2, <1>a, <1>b DEF CreateRollbackJob, TypeOK
  <2>. QED BY <1>b, <1>f, <2>1, <2>2, WakeMove DEF JobPcs
<1>3. ASSUME NEW j \in JobIds, TryReserveSelfUpdate(j) PROVE WakeInv'
  <2>1. NotifyOne(GoTo(j, "dispatch")) /\ pc[j] = "idle" /\ UNCHANGED <<watchdog, result>>
    BY <1>3 DEF TryReserveSelfUpdate, taskVars
  <2>2. status'[j] = "Pending" /\ \A u \in Ids \ {j} : status'[u] = status[u]
    BY <1>3, <1>a, <1>b DEF TryReserveSelfUpdate, TypeOK
  <2>. QED BY <1>b, <1>f, <2>1, <2>2, WakeMove DEF JobPcs
<1>4. ASSUME NEW r \in RebootIds, status' = FailPending(r)
      PROVE  \A u \in Ids : status'[u] = "Running" => u # r /\ status[u] = "Running"
  BY <1>4 DEF FailPending
<1>5. ASSUME NEW r \in RebootIds, NEW k \in Tiers, AdmitReboot(r, k) PROVE WakeInv'
  <2>1. /\ NotifyOne(GoTo(r, "reserved")) /\ pc[r] = "idle" /\ UNCHANGED <<watchdog, result>>
        /\ status' = FailPending(r)
    BY <1>5 DEF AdmitReboot, ReserveReboot, taskVars
  <2>. QED BY <1>4, <1>b, <1>f, <2>1, WakeMove DEF RebootPcs
<1>6. ASSUME NEW j \in JobIds, PatchReserveReboot(j) PROVE WakeInv'
  <2>1. CASE /\ pc' = GoTo(j, "complete")
             /\ UNCHANGED <<status, permit, waiters, watchdog, result>>
    <3>1. pc[j] = "reserve"
      BY <1>6 DEF PatchReserveReboot
    <3>2. status'[j] = "Running" => j \in JobIds /\ "complete" \in Started
      BY DEF Started
    <3>3. "complete" \in Driving /\ "complete" \in Pcs
      BY <1>f DEF Driving, JobPcs
    <3>. QED BY <1>b, <2>1, <3>1, <3>2, <3>3, WakeMove
  <2>2. ASSUME NEW r \in RebootIds,
               ReserveReboot(r, "force", [pc EXCEPT ![j] = "reserved", ![r] = "guarded"])
        PROVE  WakeInv'
    <3>. DEFINE p == [pc EXCEPT ![j] = "reserved", ![r] = "guarded"]
    <3>1. /\ NotifyOne(p) /\ pc[r] = "idle" /\ pc[j] = "reserve"
          /\ UNCHANGED <<watchdog, result>> /\ status' = FailPending(r)
      BY <1>6, <2>2 DEF PatchReserveReboot, ReserveReboot, taskVars
    <3>2. /\ p \in [Ids -> Pcs] /\ p[j] = "reserved" /\ p[r] = "guarded"
          /\ \A u \in Ids \ {j, r} : p[u] = pc[u]
      BY <1>b, <1>d, <1>f DEF JobPcs, RebootPcs
    <3>. HIDE DEF p
    <3>3. \A u \in Ids : p[u] # pc[u] => pc[u] # "parked" /\ p[u] \notin {"parking", "parked"}
      BY <3>1, <3>2
    <3>4. \A u \in JobIds :
             /\ p[u] # "dropped"
             /\ p[u] = "await" => watchdog'[u] = "running" \/ result'[u] # "none"
      BY <1>b, <1>c, <3>1, <3>2
    <3>5. \A u \in Ids : status'[u] = "Running" => u \in JobIds /\ p[u] \in Started
      BY <1>4, <1>c, <3>1, <3>2 DEF Started
    <3>. QED BY <3>1, <3>2, <3>3, <3>4, <3>5, WakeKept
  <2>. QED BY <1>6, <2>1, <2>2 DEF PatchReserveReboot, taskVars
<1>7. ASSUME NEW t \in Ids, ReserveReturns(t) PROVE WakeInv'
  <2>. DEFINE l == IF t \in RebootIds THEN "begin" ELSE "setRebooting"
  <2>1. /\ pc' = GoTo(t, l) /\ pc[t] = "reserved"
        /\ UNCHANGED <<permit, waiters, watchdog, result, status>>
    BY <1>7 DEF ReserveReturns, taskVars
  <2>2. status[t] = "Running" => t \in JobIds /\ l \in Started
    BY <1>b, <1>c DEF Started
  <2>3. "reserved" \notin Driving /\ l \in Pcs /\ l \in {"begin", "setRebooting"}
    BY <1>f DEF Driving, JobPcs
  <2>. HIDE DEF l
  <2>. QED BY <2>1, <2>2, <2>3, WakeMove
<1>8. ASSUME NEW r \in RebootIds, HandlerDropped(r) PROVE WakeInv'
  <2>1. /\ pc' = GoTo(r, "dropped") /\ pc[r] = "reserved"
        /\ UNCHANGED <<permit, waiters, watchdog, result, status>>
    BY <1>8 DEF HandlerDropped, taskVars
  <2>. QED BY <1>b, <1>c, <1>f, <2>1, WakeMove DEF RebootPcs
<1>9. ASSUME NEW j \in JobIds, SetJobRebooting(j) PROVE WakeInv'
  <2>1. /\ pc[j] = "setRebooting" /\ UNCHANGED <<watchdog, result>>
        /\ \/ NotifyOne(GoTo(j, "begin"))
           \/ pc' = GoTo(j, "begin") /\ UNCHANGED <<permit, waiters>>
    BY <1>9 DEF SetJobRebooting, taskVars
  <2>2. status'[j] # "Running" /\ \A u \in Ids \ {j} : status'[u] = status[u]
    BY <1>9, <1>a, <1>b DEF SetJobRebooting, TypeOK
  <2>3. "setRebooting" \notin Driving /\ "begin" \in Pcs
    BY <1>f DEF Driving, JobPcs
  <2>. QED BY <1>b, <2>1, <2>2, <2>3, WakeMove
<1>10. ASSUME NEW t \in Ids, BeginRebootExecution(t) PROVE WakeInv'
  <2>1. PICK l \in {"rebootCmd", "done", "complete"} :
           \/ NotifyOne(GoTo(t, l))
           \/ pc' = GoTo(t, l) /\ UNCHANGED <<permit, waiters>>
    BY <1>10 DEF BeginRebootExecution
  <2>2. pc[t] = "begin" /\ UNCHANGED <<watchdog, result>> /\ RebootJob(t) \in RebootIds
    BY <1>10, <1>e DEF BeginRebootExecution, BeforeReboot, taskVars
  <2>3. \A u \in Ids : status'[u] = "Running" => status[u] = "Running"
    BY <1>10, <1>a, <1>b, <2>2 DEF BeginRebootExecution, TypeOK
  <2>4. "begin" \notin Driving /\ l \in Pcs /\ status[t] # "Running"
    BY <1>c, <1>f, <2>2 DEF Driving, JobPcs, Started
  <2>. QED BY <2>1, <2>2, <2>3, <2>4, WakeMove
<1>11. ASSUME NEW t \in Ids, RebootCommandOk(t) PROVE WakeInv'
  <2>. DEFINE p == [pc EXCEPT ![t] = "done", ![RebootJob(t)] = "done"]
  <2>1. /\ pc' = p /\ pc[t] = "rebootCmd" /\ RebootJob(t) \in RebootIds
        /\ UNCHANGED <<permit, waiters, watchdog, result, status>>
    BY <1>11, <1>e DEF RebootCommandOk, DuringReboot, taskVars
  <2>2. /\ p \in [Ids -> Pcs] /\ \A u \in Ids : p[u] \in {pc[u], "done"}
        /\ \A u \in JobIds \ {t} : p[u] = pc[u]
    BY <1>b, <1>d, <1>f, <2>1 DEF JobPcs
  <2>. HIDE DEF p
  <2>3. pc[RebootJob(t)] # "parked"
    BY <1>a, <2>1 DEF TypeOK, RebootPcs
  <2>4. \A u \in Ids : p[u] # pc[u] => pc[u] # "parked" /\ p[u] \notin {"parking", "parked"}
    <3>1. \A u \in Ids : pc[u] = "parked" => u \in JobIds
      BY <1>a, <1>b DEF TypeOK, RebootPcs
    <3>. QED BY <2>1, <2>2, <3>1
  <2>5. \A u \in JobIds : pc[u] \in Driving => p[u] \in Driving
    BY <2>1, <2>2 DEF Driving
  <2>6. \A u \in JobIds :
           /\ p[u] # "dropped"
           /\ p[u] = "await" => watchdog'[u] = "running" \/ result'[u] # "none"
    BY <1>b, <1>c, <2>1, <2>2
  <2>7. \A u \in Ids : status'[u] = "Running" => u \in JobIds /\ p[u] \in Started
    BY <1>c, <2>1, <2>2 DEF Started
  <2>. QED BY <2>1, <2>2, <2>4, <2>5, <2>6, <2>7, WakeKept
<1>12. ASSUME NEW t \in Ids, RebootCommandErr(t) PROVE WakeInv'
  <2>1. /\ pc' = GoTo(t, "rollback") /\ pc[t] = "rebootCmd"
        /\ UNCHANGED <<permit, waiters, watchdog, result, status>>
    BY <1>12 DEF RebootCommandErr, taskVars
  <2>2. "rebootCmd" \notin Driving /\ "rollback" \in Pcs /\ status[t] # "Running"
    BY <1>c, <1>f, <2>1 DEF Driving, JobPcs, Started
  <2>. QED BY <2>1, <2>2, WakeMove
<1>13. ASSUME NEW r \in RebootIds, NEW t \in Ids, NEW l \in {"done", "complete"},
              RollbackReboot(r, GoTo(t, l)), pc[t] \in {"rollback", "guardDrop"}
       PROVE  WakeInv'
  <2>1. /\ \/ NotifyOne(GoTo(t, l))
           \/ pc' = GoTo(t, l) /\ UNCHANGED <<permit, waiters>>
        /\ UNCHANGED <<watchdog, result>>
    BY <1>13 DEF RollbackReboot, taskVars
  <2>2. \A u \in Ids : status'[u] = "Running" => status[u] = "Running"
    BY <1>13, <1>a, <1>b DEF RollbackReboot, TypeOK
  <2>3. pc[t] \notin Driving /\ l \in Pcs /\ status[t] # "Running"
    BY <1>13, <1>c, <1>f DEF Driving, JobPcs, Started
  <2>. QED BY <1>13, <2>1, <2>2, <2>3, WakeMove
<1>14. ASSUME NEW t \in Ids, RebootFailed(t) PROVE WakeInv'
  <2>1. pc[t] = "rollback" /\ RebootJob(t) \in RebootIds
    BY <1>14, <1>e DEF RebootFailed, DuringReboot
  <2>. QED BY <1>13, <1>14, <2>1 DEF RebootFailed
<1>15. ASSUME NEW r \in RebootIds, GuardDrop(r) PROVE WakeInv'
  BY <1>13, <1>15, <1>b DEF GuardDrop
<1>16. ASSUME NEW j \in JobIds, DispatchReject(j) PROVE WakeInv'
  <2>1. /\ pc' = GoTo(j, "fail") /\ pc[j] \in {"dispatch", "woken"}
        /\ UNCHANGED <<permit, waiters, watchdog, result, status>>
    BY <1>16 DEF DispatchReject, taskVars
  <2>2. "fail" \in Driving /\ "fail" \in Pcs /\ "fail" \in Started
    BY <1>f DEF Driving, JobPcs, Started
  <2>. QED BY <1>b, <2>1, <2>2, WakeMove
<1>17. ASSUME NEW j \in JobIds, DispatchWait(j) PROVE WakeInv'
  <2>1. /\ pc[j] \in {"dispatch", "woken"} /\ ~ Rejected(j) /\ MustWait(j)
        /\ pc' = GoTo(j, "parking")
        /\ UNCHANGED <<permit, waiters, watchdog, result, status>>
    BY <1>17 DEF DispatchWait, taskVars
  <2>2. pc'[j] = "parking" /\ \A u \in Ids \ {j} : pc'[u] = pc[u]
    BY <1>b, <1>d, <2>1 DEF GoTo
  <2>3. PICK k \in JobIds \ {j} : pc[k] \in Driving
    BY <2>1, SomebodyDrives
  <2>4. pc'[k] \in Driving
    BY <1>b, <2>2, <2>3
  <2>5. \A u \in JobIds : pc'[u] = "parked" => pc[u] = "parked"
    BY <1>b, <2>2
  <2>6. QueueInv'
    BY <2>1, <2>3, <2>4, <2>5 DEF WakeInv, QueueInv
  <2>7. AwaitInv'
    BY <1>b, <1>c, <2>1, <2>2 DEF AwaitInv
  <2>8. RunInv'
    BY <1>c, <2>1, <2>2 DEF RunInv, Started
  <2>. QED BY <2>6, <2>7, <2>8 DEF WakeInv
<1>18. ASSUME NEW j \in JobIds, PollNotified(j) PROVE WakeInv'
  <2>1. pc[j] = "parking" /\ UNCHANGED <<watchdog, result, status>>
    BY <1>18 DEF PollNotified, taskVars
  <2>2. /\ \A u \in Ids \ {j} : pc'[u] = pc[u]
        /\ pc'[j] \in {"dispatch", "parked"}
    BY <1>18, <1>b, <1>d DEF PollNotified, GoTo
  <2>3. AwaitInv'
    BY <1>b, <1>c, <2>1, <2>2 DEF AwaitInv
  <2>4. RunInv'
    BY <1>c, <2>1, <2>2 DEF RunInv, Started
  <2>5. CASE permit
    <3>1. permit' = FALSE /\ waiters' = waiters /\ pc'[j] = "dispatch"
      BY <1>18, <2>5, <1>b, <1>d DEF PollNotified, GoTo
    <3>2. pc'[j] \in Driving
      BY <3>1 DEF Driving
    <3>3. \A u \in JobIds : pc'[u] = "parked" => pc[u] = "parked"
      BY <1>b, <2>2, <3>1
    <3>4. QueueInv'
      BY <3>1, <3>2, <3>3 DEF WakeInv, QueueInv
    <3>. QED BY <2>3, <2>4, <3>4 DEF WakeInv
  <2>6. CASE ~ permit
    <3>1. ~ permit' /\ waiters' = Append(waiters, j)
      BY <1>18, <2>6 DEF PollNotified
    <3>2. /\ Len(waiters) \in Nat /\ Len(waiters') = Len(waiters) + 1
          /\ waiters'[Len(waiters) + 1] = j
          /\ \A i \in 1..Len(waiters) : waiters'[i] = waiters[i]
      <4>1. waiters \in Seq(JobIds)
        BY <1>a DEF TypeOK
      <4>. QED BY <3>1, <4>1
    <3>3. ASSUME NEW u \in JobIds, pc'[u] = "parked"
          PROVE  \E i \in 1..Len(waiters') : waiters'[i] = u
      <4>1. CASE u = j
        <5>1. Len(waiters) + 1 \in 1..Len(waiters')
          BY <3>2
        <5>. QED BY <3>2, <4>1, <5>1
      <4>2. CASE u # j
        <5>1. PICK i \in 1..Len(waiters) : waiters[i] = u
          BY <1>b, <2>2, <3>3, <4>2 DEF WakeInv, QueueInv
        <5>2. i \in 1..Len(waiters')
          BY <3>2, <5>1
        <5>. QED BY <3>2, <5>1, <5>2
      <4>. QED BY <4>1, <4>2
    <3>4. PICK k \in JobIds : pc[k] \in Driving
      BY <2>1, <2>6 DEF WakeInv, QueueInv
    <3>5. pc'[k] \in Driving
      BY <1>b, <2>1, <2>2, <3>4 DEF Driving
    <3>6. QueueInv'
      BY <3>1, <3>3, <3>5 DEF QueueInv
    <3>. QED BY <2>3, <2>4, <3>6 DEF WakeInv
  <2>. QED BY <2>5, <2>6
<1>19. ASSUME NEW j \in JobIds, DispatchAcquire(j) PROVE WakeInv'
  <2>1. /\ pc' = GoTo(j, "acquired") /\ pc[j] \in {"dispatch", "woken"}
        /\ UNCHANGED <<permit, waiters, watchdog, result>>
        /\ \A u \in Ids \ {j} : status'[u] = status[u]
    BY <1>19, <1>a, <1>b DEF DispatchAcquire, taskVars, TypeOK
  <2>2. "acquired" \in Driving /\ "acquired" \in Pcs /\ "acquired" \in Started
    BY <1>f DEF Driving, JobPcs, Started
  <2>. QED BY <1>b, <2>1, <2>2, WakeMove
<1>20. ASSUME NEW j \in JobIds, SpawnWatchdog(j) PROVE WakeInv'
  <2>1. /\ pc' = GoTo(j, "await") /\ pc[j] = "acquired"
        /\ UNCHANGED <<permit, waiters, result, status>>
        /\ watchdog'[j] = "running" /\ \A u \in JobIds \ {j} : watchdog'[u] = watchdog[u]
    BY <1>20, <1>a DEF SpawnWatchdog, TypeOK
  <2>2. "await" \in Driving /\ "await" \in Pcs /\ "await" \in Started
    BY <1>f DEF Driving, JobPcs, Started
  <2>. QED BY <1>b, <2>1, <2>2, WakeMove
<1>21. ASSUME NEW j \in JobIds, ReceiveResult(j) PROVE WakeInv'
  <2>1. PICK l \in {"complete", "fail", "reserve"} : pc' = GoTo(j, l)
    BY <1>21 DEF ReceiveResult
  <2>2. /\ pc[j] = "await" /\ UNCHANGED <<permit, waiters, watchdog, status>>
        /\ \A u \in JobIds \ {j} : result'[u] = result[u]
    BY <1>21, <1>a DEF ReceiveResult, TypeOK
  <2>3. l \in Driving /\ l \in Pcs /\ l \in Started
    BY <1>f DEF Driving, JobPcs, Started
  <2>. QED BY <1>b, <2>1, <2>2, <2>3, WakeMove
<1>22. ASSUME NEW j \in JobIds, CompleteJob(j) PROVE WakeInv'
  <2>. DEFINE p == [t \in Ids |-> IF t = j THEN AfterFinish(j)
                                  ELSE IF t = rebootJob[j] THEN "guardDrop" ELSE pc[t]]
  <2>1. AfterFinish(j) \in {"delete", "release", "done"}
    BY DEF AfterFinish
  <2>2. NotifyOne(p) /\ pc[j] = "complete" /\ UNCHANGED <<watchdog, result>>
    BY <1>22 DEF CompleteJob, FinishJob, taskVars
  <2>3. status'[j] # "Running" /\ \A u \in Ids \ {j} : status'[u] = status[u]
    BY <1>22, <1>a, <1>b DEF CompleteJob, FinishJob, TypeOK
  <2>4. rebootJob[j] \in RebootIds \cup {None} /\ rebootJob[j] \notin JobIds
    BY <1>a, <1>b DEF TypeOK
  <2>5. p \in [Ids -> Pcs]
    <3>1. {"delete", "release", "done", "guardDrop"} \subseteq Pcs
      BY <1>f DEF JobPcs, RebootPcs
    <3>. QED BY <1>d, <2>1, <3>1
  <2>6. /\ p[j] \in {"delete", "release", "done"}
        /\ \A u \in JobIds \ {j} : p[u] = pc[u]
        /\ \A u \in RebootIds : p[u] \in {pc[u], "guardDrop"}
    BY <1>b, <2>1, <2>4
  <2>. HIDE DEF p
  <2>7. \A u \in RebootIds : pc[u] # "parked"
    BY <1>a DEF TypeOK, RebootPcs
  <2>8. \A u \in Ids : p[u] # pc[u] => pc[u] # "parked" /\ p[u] \notin {"parking", "parked"}
    BY <1>b, <2>2, <2>6, <2>7
  <2>9. \A u \in JobIds :
           /\ p[u] # "dropped"
           /\ p[u] = "await" => watchdog'[u] = "running" \/ result'[u] # "none"
    BY <1>c, <2>2, <2>6
  <2>10. \A u \in Ids : status'[u] = "Running" => u \in JobIds /\ p[u] \in Started
    BY <1>c, <2>3, <2>6
  <2>. QED BY <2>2, <2>5, <2>8, <2>9, <2>10, WakeKept
<1>23. ASSUME NEW j \in JobIds, FailJob(j) PROVE WakeInv'
  <2>1. AfterFinish(j) \in {"delete", "release", "done"}
    BY DEF AfterFinish
  <2>2. NotifyOne(GoTo(j, AfterFinish(j))) /\ pc[j] = "fail" /\ UNCHANGED <<watchdog, result>>
    BY <1>23 DEF FailJob, FinishJob, taskVars
  <2>3. status'[j] # "Running" /\ \A u \in Ids \ {j} : status'[u] = status[u]
    BY <1>23, <1>a, <1>b DEF FailJob, FinishJob, TypeOK
  <2>4. AfterFinish(j) \in Pcs
    BY <1>f, <2>1 DEF JobPcs
  <2>. QED BY <1>b, <2>1, <2>2, <2>3, <2>4, WakeMove
<1>24. ASSUME NEW j \in JobIds, DeleteTrackingJob(j) \/ ReleaseSelfUpdate(j) PROVE WakeInv'
  <2>1. /\ pc[j] \in {"delete", "release"} /\ UNCHANGED <<watchdog, result>>
        /\ \/ NotifyOne(GoTo(j, "done"))
           \/ pc' = GoTo(j, "done") /\ UNCHANGED <<permit, waiters>>
    BY <1>24 DEF DeleteTrackingJob, ReleaseSelfUpdate, taskVars
  <2>2. \A u \in Ids : status'[u] = "Running" => status[u] = "Running"
    BY <1>24, <1>a, <1>b DEF DeleteTrackingJob, ReleaseSelfUpdate, TypeOK
  <2>3. pc[j] \notin Driving /\ "done" \in Pcs /\ status[j] # "Running"
    BY <1>b, <1>c, <1>f, <2>1 DEF Driving, JobPcs, Started
  <2>. QED BY <1>b, <2>1, <2>2, <2>3, WakeMove
<1>25. ASSUME NEW i \in Ids, DeleteJob(i) PROVE WakeInv'
  <2>1. UNCHANGED <<permit, waiters, pc, watchdog, result>>
    BY <1>25 DEF DeleteJob, notifyVars, taskVars
  <2>2. \A u \in Ids : status'[u] = "Running" => status[u] = "Running"
    BY <1>25, <1>a DEF DeleteJob, TypeOK
  <2>. QED BY <2>1, <2>2 DEF WakeInv, QueueInv, AwaitInv, RunInv
<1>26. ASSUME NotifyOne(pc),
              \A u \in JobIds : pc[u] = "await" => watchdog'[u] = "running" \/ result'[u] # "none",
              \A u \in Ids : status'[u] = "Running" => status[u] = "Running"
       PROVE  WakeInv'
  BY <1>26, <1>c, <1>d, WakeKept
<1>27. ASSUME FreezeAdmission PROVE WakeInv'
  BY <1>26, <1>27, <1>c DEF FreezeAdmission, taskVars
<1>28. ASSUME NEW j \in JobIds, ClosureExits(j) PROVE WakeInv'
  BY <1>28 DEF ClosureExits, notifyVars, WakeInv, QueueInv, AwaitInv, RunInv
<1>29. ASSUME NEW j \in JobIds, WatchdogFinalize(j) PROVE WakeInv'
  <2>1. NotifyOne(pc) /\ \A u \in JobIds \ {j} : watchdog'[u] = watchdog[u]
    BY <1>29, <1>a DEF WatchdogFinalize, TypeOK
  <2>2. /\ \A u \in JobIds \ {j} : result'[u] = result[u]
        /\ pc[j] = "await" => result'[j] # "none"
    BY <1>29, <1>a DEF WatchdogFinalize, TypeOK, Outcome
  <2>3. \A u \in Ids : status'[u] = "Running" => status[u] = "Running"
    BY <1>29, <1>a, <1>b DEF WatchdogFinalize, TypeOK
  <2>. QED BY <1>26, <1>c, <2>1, <2>2, <2>3
<1>30. ASSUME NEW j \in JobIds, CallerDropped(j) PROVE FALSE
  BY <1>30 DEF CallerDropped
<1>31. ASSUME Environment PROVE WakeInv'
  BY <1>31, <1>1, <1>2, <1>3, <1>5, <1>25, <1>27 DEF Environment, Ops, Tiers
<1>32. ASSUME NEW j \in JobIds, JobTask(j) PROVE WakeInv'
  BY <1>32, <1>6, <1>9, <1>16, <1>17, <1>18, <1>19, <1>20, <1>21, <1>22, <1>23, <1>24
     DEF JobTask
<1>33. ASSUME NEW t \in Ids, RebootTask(t) PROVE WakeInv'
  BY <1>33, <1>7, <1>10, <1>11, <1>12, <1>14 DEF RebootTask
<1>. QED BY <1>8, <1>15, <1>28, <1>29, <1>30, <1>31, <1>32, <1>33 DEF Next

\* dispatch_mutation forgets nobody: a release wakes one waiter only, and tests
\* the slot and parks in two steps, yet while a task is parked another one can go
\* on and leads to the next notification.  This needs callers that are not
\* dropped, and a limit of at least one Running job, which Scheduler::new sees to.
THEOREM NobodyIsForgotten ==
    ASSUME "caller" \notin MayDrop
    PROVE  Spec => []NoLostWakeup
<1>1. Init => WakeInv
  BY DEF Init, WakeInv, QueueInv, AwaitInv, RunInv, Ids
<1>2. WakeInv /\ UNCHANGED vars => WakeInv'
  BY DEF WakeInv, QueueInv, AwaitInv, RunInv, vars
<1>3. Inv /\ SlotHasHolder /\ WakeInv /\ [Next]_vars => WakeInv'
  BY <1>2, WakeStep
<1>4. Inv /\ WakeInv => NoLostWakeup
  <2>. SUFFICES ASSUME Inv, WakeInv, NEW j \in JobIds, pc[j] = "parked"
                PROVE  \E k \in JobIds : CanGoOn(k)
    BY DEF NoLostWakeup
  <2>1. waiters # << >> /\ ~ permit
    <3>1. PICK i \in 1..Len(waiters) : waiters[i] = j
      BY DEF WakeInv, QueueInv
    <3>2. waiters # << >>
      BY <3>1
    <3>. QED BY <3>2 DEF WakeInv, QueueInv
  <2>2. PICK k \in JobIds : pc[k] \in Driving
    BY <2>1 DEF WakeInv, QueueInv
  <2>. QED BY <2>2 DEF WakeInv, AwaitInv, CanGoOn
<1>. QED
  BY <1>1, <1>3, <1>4, InvHolds, SlotAlwaysHasHolder, PTL DEF Spec

-----------------------------------------------------------------------------
(* No reservation is left behind *)

SelfHeld ==
    self_update # None => op[self_update] = "SelfUpdate" /\ pc[self_update] \in SelfUpdating

\* The task of a self-update stays on its way to release_self_update.
LEMMA SelfTask ==
    ASSUME Inv, Next, "caller" \notin MayDrop,
           NEW s \in JobIds, self_update = s, op[s] = "SelfUpdate", pc[s] \in SelfUpdating
    PROVE  \/ self_update' = None
           \/ self_update' = s /\ op'[s] = op[s] /\ pc'[s] \in SelfUpdating
<1>. DEFINE Goal == \/ self_update' = None
                    \/ self_update' = s /\ op'[s] = op[s] /\ pc'[s] \in SelfUpdating
<1>a. TypeOK
  BY DEF Inv
<1>b. /\ JobIds \subseteq Ids /\ RebootIds \subseteq Ids
      /\ s \in Ids /\ s \notin RebootIds /\ s # None
  BY SchedulerAssumption DEF Ids
<1>c. pc \in [Ids -> Pcs]
  BY <1>a DEF TypeOK, Pcs
<1>d. \A l \in JobPcs \cup RebootPcs : l \in Pcs
  BY DEF Pcs
<1>e. "woken" \in SelfUpdating
  BY DEF SelfUpdating
<1>f. ASSUME NEW t \in Ids, pc[t] \in BeforeReboot \cup DuringReboot
      PROVE  RebootJob(t) \in RebootIds
  BY <1>a, <1>f DEF Inv, ReservationOwned, TypeOK
<1>m. ASSUME NEW t \in Ids, NEW l \in Pcs, NotifyOne(GoTo(t, l)) \/ pc' = GoTo(t, l),
             t = s => l \in SelfUpdating
      PROVE  pc'[s] \in SelfUpdating
  BY <1>a, <1>b, <1>e, <1>m, OnePc
<1>1. ASSUME NEW j \in JobIds, NEW o \in Ops, AdmitJob(j, o) PROVE Goal
  <2>1. j # s
    BY <1>1 DEF AdmitJob, SelfUpdating
  <2>2. pc'[s] \in SelfUpdating
    BY <1>1, <1>b, <1>d, <1>m, <2>1 DEF AdmitJob, JobPcs
  <2>. QED BY <1>1, <1>a, <1>b, <2>1, <2>2 DEF AdmitJob, TypeOK
<1>2. ASSUME NEW j \in JobIds, CreateRollbackJob(j) PROVE Goal
  <2>1. j # s
    BY <1>2 DEF CreateRollbackJob, SelfUpdating
  <2>2. pc'[s] \in SelfUpdating
    BY <1>2, <1>b, <1>d, <1>m, <2>1 DEF CreateRollbackJob, JobPcs
  <2>. QED BY <1>2, <1>a, <1>b, <2>1, <2>2 DEF CreateRollbackJob, TypeOK
<1>3. ASSUME NEW j \in JobIds, TryReserveSelfUpdate(j) PROVE Goal
  BY <1>3, <1>b DEF TryReserveSelfUpdate
<1>4. ASSUME NEW r \in RebootIds, NEW k \in Tiers, AdmitReboot(r, k) PROVE Goal
  <2>1. pc'[s] \in SelfUpdating
    BY <1>4, <1>b, <1>d, <1>m DEF AdmitReboot, ReserveReboot, RebootPcs
  <2>. QED BY <1>4, <1>a, <1>b, <2>1 DEF AdmitReboot, ReserveReboot, TypeOK
<1>5. ASSUME NEW j \in JobIds, PatchReserveReboot(j) PROVE Goal
  <2>1. j # s
    BY <1>5 DEF PatchReserveReboot, SelfUpdating
  <2>2. CASE pc' = GoTo(j, "complete") /\ UNCHANGED <<op, self_update>>
    BY <1>b, <1>d, <1>m, <2>1, <2>2 DEF JobPcs
  <2>3. ASSUME NEW r \in RebootIds,
               ReserveReboot(r, "force", [pc EXCEPT ![j] = "reserved", ![r] = "guarded"])
        PROVE  Goal
    <3>. DEFINE p == [pc EXCEPT ![j] = "reserved", ![r] = "guarded"]
    <3>1. p \in [Ids -> Pcs] /\ p[s] = pc[s]
      BY <1>b, <1>c, <1>d, <2>1 DEF JobPcs, RebootPcs
    <3>2. NotifyOne(p) /\ self_update' = self_update /\ op'[s] = op[s]
      BY <1>a, <1>b, <2>3 DEF ReserveReboot, TypeOK
    <3>. HIDE DEF p
    <3>3. pc'[s] \in {p[s], "woken"}
      BY <1>a, <1>b, <3>1, <3>2, NotifiedPc
    <3>. QED BY <1>e, <3>1, <3>2, <3>3
  <2>. QED BY <1>5, <2>2, <2>3 DEF PatchReserveReboot
<1>6. ASSUME NEW t \in Ids, RebootTask(t) PROVE Goal
  <2>1. pc[t] \in {"reserved", "begin", "rebootCmd", "rollback"} /\ t # s
    BY <1>6 DEF RebootTask, ReserveReturns, BeginRebootExecution, RebootCommandOk,
                RebootCommandErr, RebootFailed, SelfUpdating
  <2>2. RebootJob(t) \in RebootIds
    BY <1>f, <2>1 DEF BeforeReboot, DuringReboot
  <2>3. UNCHANGED <<self_update, op>>
    BY <1>6 DEF RebootTask, ReserveReturns, BeginRebootExecution, RebootCommandOk,
                RebootCommandErr, RebootFailed, RollbackReboot
  <2>4. \/ \E l \in {"begin", "setRebooting", "rebootCmd", "done", "complete", "rollback"} :
              NotifyOne(GoTo(t, l)) \/ pc' = GoTo(t, l)
        \/ pc' = [pc EXCEPT ![t] = "done", ![RebootJob(t)] = "done"]
    BY <1>6 DEF RebootTask, ReserveReturns, BeginRebootExecution, RebootCommandOk,
                RebootCommandErr, RebootFailed, RollbackReboot
  <2>5. pc'[s] \in SelfUpdating
    <3>1. CASE pc' = [pc EXCEPT ![t] = "done", ![RebootJob(t)] = "done"]
      BY <1>b, <1>c, <2>1, <2>2, <3>1
    <3>2. ASSUME NEW l \in {"begin", "setRebooting", "rebootCmd", "done", "complete", "rollback"},
                 NotifyOne(GoTo(t, l)) \/ pc' = GoTo(t, l)
          PROVE  pc'[s] \in SelfUpdating
      <4>1. l \in Pcs
        BY <1>d DEF JobPcs
      <4>. QED BY <1>m, <2>1, <3>2, <4>1
    <3>. QED BY <2>4, <3>1, <3>2
  <2>. QED BY <2>3, <2>5
<1>7. ASSUME NEW r \in RebootIds, GuardDrop(r) \/ HandlerDropped(r) PROVE Goal
  <2>1. PICK l \in {"done", "dropped"} : NotifyOne(GoTo(r, l)) \/ pc' = GoTo(r, l)
    BY <1>7 DEF GuardDrop, RollbackReboot, HandlerDropped
  <2>2. l \in Pcs
    BY <1>d DEF JobPcs
  <2>. QED BY <1>7, <1>b, <1>m, <2>1, <2>2 DEF GuardDrop, RollbackReboot, HandlerDropped
<1>8. ASSUME NEW j \in JobIds, SetJobRebooting(j) PROVE Goal
  <2>1. j # s
    BY <1>8 DEF SetJobRebooting, SelfUpdating
  <2>2. pc'[s] \in SelfUpdating
    BY <1>8, <1>b, <1>d, <1>m, <2>1 DEF SetJobRebooting, JobPcs
  <2>. QED BY <1>8, <2>2 DEF SetJobRebooting
<1>9. ASSUME NEW j \in JobIds,
             \/ DispatchReject(j) \/ DispatchWait(j) \/ PollNotified(j)
             \/ DispatchAcquire(j) \/ SpawnWatchdog(j)
      PROVE  Goal
  <2>1. PICK l \in {"fail", "parking", "dispatch", "parked", "acquired", "await"} :
           pc' = GoTo(j, l)
    BY <1>9 DEF DispatchReject, DispatchWait, PollNotified, DispatchAcquire, SpawnWatchdog
  <2>2. l \in SelfUpdating /\ l \in Pcs
    BY <1>d DEF SelfUpdating, JobPcs
  <2>3. UNCHANGED <<self_update, op>>
    BY <1>9 DEF DispatchReject, DispatchWait, PollNotified, DispatchAcquire, SpawnWatchdog
  <2>. QED BY <1>b, <1>m, <2>1, <2>2, <2>3
<1>10. ASSUME NEW j \in JobIds, ReceiveResult(j) PROVE Goal
  <2>1. PICK l \in {"complete", "fail", "reserve"} :
           pc' = GoTo(j, l) /\ (l = "reserve" => op[j] = "PatchApply")
    BY <1>10 DEF ReceiveResult
  <2>2. l \in Pcs /\ (j = s => l \in SelfUpdating)
    BY <1>d, <2>1 DEF SelfUpdating, JobPcs
  <2>. QED BY <1>10, <1>b, <1>m, <2>1, <2>2 DEF ReceiveResult
<1>11. ASSUME NEW j \in JobIds, CompleteJob(j) PROVE Goal
  <2>. DEFINE p == [t \in Ids |-> IF t = j THEN AfterFinish(j)
                                  ELSE IF t = rebootJob[j] THEN "guardDrop" ELSE pc[t]]
  <2>1. AfterFinish(j) \in {"delete", "release", "done"} /\ (j = s => AfterFinish(j) = "release")
    BY DEF AfterFinish
  <2>2. rebootJob[j] # s
    BY <1>a, <1>b DEF TypeOK
  <2>3. p \in [Ids -> Pcs]
    <3>1. {"delete", "release", "done", "guardDrop"} \subseteq Pcs
      BY <1>d DEF JobPcs, RebootPcs
    <3>. QED BY <1>c, <2>1, <3>1
  <2>4. p[s] \in SelfUpdating
    BY <1>b, <2>1, <2>2 DEF SelfUpdating
  <2>5. NotifyOne(p) /\ UNCHANGED <<self_update, op>>
    BY <1>11 DEF CompleteJob, FinishJob
  <2>. HIDE DEF p
  <2>6. pc'[s] \in {p[s], "woken"}
    BY <1>a, <1>b, <2>3, <2>5, NotifiedPc
  <2>. QED BY <1>e, <2>4, <2>5, <2>6
<1>12. ASSUME NEW j \in JobIds, FailJob(j) PROVE Goal
  <2>1. AfterFinish(j) \in {"delete", "release", "done"} /\ (j = s => AfterFinish(j) = "release")
    BY DEF AfterFinish
  <2>2. AfterFinish(j) \in Pcs /\ (j = s => AfterFinish(j) \in SelfUpdating)
    BY <1>d, <2>1 DEF JobPcs, SelfUpdating
  <2>. QED BY <1>12, <1>b, <1>m, <2>2 DEF FailJob, FinishJob
<1>13. ASSUME NEW j \in JobIds, DeleteTrackingJob(j) PROVE Goal
  <2>1. j # s
    BY <1>13 DEF DeleteTrackingJob, SelfUpdating
  <2>2. pc'[s] \in SelfUpdating
    BY <1>13, <1>b, <1>d, <1>m, <2>1 DEF DeleteTrackingJob, JobPcs
  <2>. QED BY <1>13, <2>2 DEF DeleteTrackingJob
<1>14. ASSUME NEW j \in JobIds, ReleaseSelfUpdate(j) PROVE Goal
  <2>1. CASE j = s
    BY <1>14, <2>1 DEF ReleaseSelfUpdate
  <2>2. CASE j # s
    <3>1. pc'[s] \in SelfUpdating
      BY <1>14, <1>b, <1>d, <1>m, <2>2 DEF ReleaseSelfUpdate, JobPcs
    <3>. QED BY <1>14, <2>2, <3>1 DEF ReleaseSelfUpdate
  <2>. QED BY <2>1, <2>2
<1>15. ASSUME NEW i \in Ids, DeleteJob(i) PROVE Goal
  BY <1>15 DEF DeleteJob, notifyVars
<1>16. ASSUME NotifyOne(pc), UNCHANGED <<self_update, op>> PROVE Goal
  BY <1>16, <1>a, <1>b, <1>c, <1>e, NotifiedPc
<1>17. ASSUME FreezeAdmission PROVE Goal
  BY <1>16, <1>17 DEF FreezeAdmission
<1>18. ASSUME NEW j \in JobIds, ClosureExits(j) PROVE Goal
  BY <1>18 DEF ClosureExits, notifyVars
<1>19. ASSUME NEW j \in JobIds, WatchdogFinalize(j) PROVE Goal
  BY <1>16, <1>19 DEF WatchdogFinalize
<1>20. ASSUME NEW j \in JobIds, CallerDropped(j) PROVE FALSE
  BY <1>20 DEF CallerDropped
<1>. HIDE DEF Goal
<1>21. ASSUME Environment PROVE Goal
  BY <1>21, <1>1, <1>2, <1>3, <1>4, <1>15, <1>17 DEF Environment, Ops, Tiers
<1>22. ASSUME NEW j \in JobIds, JobTask(j) PROVE Goal
  BY <1>22, <1>5, <1>8, <1>9, <1>10, <1>11, <1>12, <1>13, <1>14 DEF JobTask
<1>23. Goal
  BY <1>6, <1>7, <1>18, <1>19, <1>20, <1>21, <1>22 DEF Next
<1>. QED BY <1>23 DEF Goal

\* A self-update is reserved by the task that will release it, and by no other.
LEMMA SelfHeldStep ==
    ASSUME Inv, SelfHeld, Next, "caller" \notin MayDrop
    PROVE  SelfHeld'
<1>1. CASE self_update # None
  <2>1. self_update \in JobIds
    BY <1>1 DEF Inv, TypeOK
  <2>. QED BY <1>1, <2>1, SelfTask DEF SelfHeld
<1>2. CASE self_update = None
  <2>1. ASSUME NEW j \in JobIds, TryReserveSelfUpdate(j) PROVE SelfHeld'
    <3>1. pc'[j] \in {"dispatch", "woken"}
      <4>1. j \in Ids /\ "dispatch" \in Pcs /\ TypeOK
        BY DEF Ids, Pcs, JobPcs, Inv
      <4>. QED BY <2>1, <4>1, OnePc DEF TryReserveSelfUpdate
    <3>2. self_update' = j /\ op'[j] = "SelfUpdate"
      BY <2>1 DEF TryReserveSelfUpdate, Inv, TypeOK, Ids
    <3>. QED BY <3>1, <3>2 DEF SelfHeld, SelfUpdating
  <2>2. self_update' = None \/ \E j \in JobIds : TryReserveSelfUpdate(j)
    <3>1. CASE Environment
      BY <1>2, <3>1 DEF Environment, AdmitJob, CreateRollbackJob, AdmitReboot, ReserveReboot,
                        DeleteJob, FreezeAdmission
    <3>2. ASSUME NEW j \in JobIds, JobTask(j) PROVE self_update' = None
      BY <1>2, <3>2
        DEF JobTask, DispatchReject, DispatchWait, PollNotified, DispatchAcquire,
            SpawnWatchdog, ReceiveResult, PatchReserveReboot, ReserveReboot, SetJobRebooting,
            CompleteJob, FailJob, FinishJob, DeleteTrackingJob, ReleaseSelfUpdate
    <3>3. ASSUME NEW t \in Ids, RebootTask(t) PROVE self_update' = None
      BY <1>2, <3>3
        DEF RebootTask, ReserveReturns, BeginRebootExecution, RebootCommandOk,
            RebootCommandErr, RebootFailed, RollbackReboot
    <3>. QED
      BY <1>2, <3>1, <3>2, <3>3
        DEF Next, GuardDrop, RollbackReboot, ClosureExits, WatchdogFinalize, CallerDropped,
            HandlerDropped
  <2>. QED BY <2>1, <2>2 DEF SelfHeld
<1>. QED BY <1>1, <1>2

Reboots == BeforeReboot \cup DuringReboot

RebootHeld ==
    reboot_pending # None =>
        \/ \E t \in Ids : pc[t] \in Reboots /\ RebootJob(t) = reboot_pending
        \/ pc[reboot_pending] = "done" /\ status[reboot_pending] = "Rebooting"

\* A step that moves no task inside or after a reboot leaves the reservation held.
LEMMA HeldKept ==
    ASSUME Inv, RebootHeld, NEW p, p \in [Ids -> Pcs],
           \A u \in Ids : p[u] # pc[u] => pc[u] \notin Reboots \cup {"parked", "done"},
           NotifyOne(p) \/ pc' = p,
           \A u \in JobIds : pc[u] \in Reboots => rebootJob'[u] = rebootJob[u],
           \A r \in RebootIds : status[r] = "Rebooting" => status'[r] = "Rebooting",
           reboot_pending' = reboot_pending
    PROVE  RebootHeld'
<1>. SUFFICES ASSUME reboot_pending # None PROVE RebootHeld'
  BY DEF RebootHeld
<1>1. \A u \in Ids : pc[u] \in Reboots \cup {"done"} => pc'[u] = pc[u]
  <2>1. \A u \in Ids : Moves(p, u)
    BY PcStep
  <2>2. "parked" \notin Reboots \cup {"done"}
    BY DEF Reboots, BeforeReboot, DuringReboot
  <2>. QED BY <2>1, <2>2 DEF Moves
<1>2. reboot_pending \in RebootIds /\ RebootIds \subseteq Ids
  BY DEF Inv, TypeOK, Ids
<1>3. ASSUME NEW t \in Ids, pc[t] \in Reboots, RebootJob(t) = reboot_pending
      PROVE  RebootHeld'
  <2>1. pc'[t] \in Reboots
    BY <1>1, <1>3
  <2>2. RebootJob(t)' = RebootJob(t)
    BY <1>3 DEF RebootJob, Ids
  <2>. QED BY <1>3, <2>1, <2>2 DEF RebootHeld
<1>4. CASE pc[reboot_pending] = "done" /\ status[reboot_pending] = "Rebooting"
  BY <1>1, <1>2, <1>4 DEF RebootHeld
<1>. QED BY <1>3, <1>4 DEF RebootHeld

\* The usual case: one task moves.
LEMMA HeldMove ==
    ASSUME Inv, RebootHeld, NEW t \in Ids, NEW l \in Pcs,
           pc[t] \notin Reboots \cup {"parked", "done"},
           NotifyOne(GoTo(t, l)) \/ pc' = GoTo(t, l),
           rebootJob' = rebootJob,
           \A r \in RebootIds : status[r] = "Rebooting" => status'[r] = "Rebooting",
           reboot_pending' = reboot_pending
    PROVE  RebootHeld'
<1>. DEFINE p == GoTo(t, l)
<1>1. p \in [Ids -> Pcs] /\ \A u \in Ids \ {t} : p[u] = pc[u]
  BY DEF GoTo, Inv, TypeOK, Pcs
<1>2. NotifyOne(p) \/ pc' = p
  OBVIOUS
<1>. HIDE DEF p
<1>. QED BY <1>1, <1>2, HeldKept

\* A task inside its reboot that goes on inside it holds the reservation.
LEMMA HeldByOwner ==
    ASSUME Inv, NEW t \in Ids, pc[t] \in Reboots, NEW l \in Reboots, l \in Pcs,
           NotifyOne(GoTo(t, l)) \/ pc' = GoTo(t, l),
           UNCHANGED <<rebootJob, reboot_pending>>
    PROVE  RebootHeld'
<1>1. pc'[t] = l
  BY TaskStep DEF Reboots, BeforeReboot, DuringReboot
<1>2. RebootJob(t)' = RebootJob(t) /\ RebootJob(t) = reboot_pending
  BY DEF RebootJob, Inv, ReservationOwned, Reboots
<1>. QED BY <1>1, <1>2 DEF RebootHeld

\* Every step leaves a reserved reboot with its task, if no handler is dropped.
LEMMA RebootHeldStep ==
    ASSUME Inv, RebootHeld, Next, "caller" \notin MayDrop, "handler" \notin MayDrop
    PROVE  RebootHeld'
<1>a. TypeOK
  BY DEF Inv
<1>b. /\ JobIds \subseteq Ids /\ RebootIds \subseteq Ids
      /\ JobIds \cap RebootIds = {} /\ None \notin Ids
      /\ \A t \in Ids : t \in JobIds \/ t \in RebootIds
  BY SchedulerAssumption DEF Ids
<1>c. pc \in [Ids -> Pcs]
  BY <1>a DEF TypeOK, Pcs
<1>d. \A l \in JobPcs \cup RebootPcs : l \in Pcs
  BY DEF Pcs
<1>e. Reboots = {"reserved", "setRebooting", "begin", "rebootCmd", "rollback"}
  BY DEF Reboots, BeforeReboot, DuringReboot
<1>f. ASSUME NEW t \in Ids, pc[t] \in Reboots
      PROVE  /\ RebootJob(t) \in RebootIds /\ reboot_pending = RebootJob(t)
             /\ pc[t] \in BeforeReboot => status[RebootJob(t)] = "Pending"
             /\ pc[t] \in DuringReboot => status[RebootJob(t)] = "Rebooting"
  BY <1>a, <1>f DEF Inv, ReservationOwned, TypeOK, Reboots, BeforeReboot, DuringReboot
<1>1. ASSUME NEW j \in JobIds, NEW o \in Ops, AdmitJob(j, o) PROVE RebootHeld'
  <2>1. \A r \in RebootIds : status'[r] = status[r]
    BY <1>1, <1>a, <1>b DEF AdmitJob, TypeOK
  <2>. QED BY <1>1, <1>b, <1>d, <1>e, <2>1, HeldMove DEF AdmitJob, JobPcs
<1>2. ASSUME NEW j \in JobIds, CreateRollbackJob(j) PROVE RebootHeld'
  <2>1. \A r \in RebootIds : status'[r] = status[r]
    BY <1>2, <1>a, <1>b DEF CreateRollbackJob, TypeOK
  <2>. QED BY <1>2, <1>b, <1>d, <1>e, <2>1, HeldMove DEF CreateRollbackJob, JobPcs
<1>3. ASSUME NEW j \in JobIds, TryReserveSelfUpdate(j) PROVE RebootHeld'
  <2>1. \A r \in RebootIds : status'[r] = status[r]
    BY <1>3, <1>a, <1>b DEF TryReserveSelfUpdate, TypeOK
  <2>. QED BY <1>3, <1>b, <1>d, <1>e, <2>1, HeldMove DEF TryReserveSelfUpdate, JobPcs
<1>4. ASSUME NEW r \in RebootIds, NEW k \in Tiers, AdmitReboot(r, k) PROVE RebootHeld'
  <2>1. NotifyOne(GoTo(r, "reserved")) /\ pc[r] = "idle" /\ reboot_pending' = r
    BY <1>4 DEF AdmitReboot, ReserveReboot
  <2>2. pc'[r] = "reserved"
    BY <1>b, <1>d, <2>1, TaskStep DEF RebootPcs
  <2>3. RebootJob(r)' = r
    BY DEF RebootJob
  <2>. QED BY <1>b, <1>e, <2>1, <2>2, <2>3 DEF RebootHeld
<1>5. ASSUME NEW j \in JobIds, PatchReserveReboot(j) PROVE RebootHeld'
  <2>1. CASE pc' = GoTo(j, "complete") /\ UNCHANGED <<status, reboot_pending, rebootJob>>
    <3>1. pc[j] = "reserve"
      BY <1>5 DEF PatchReserveReboot
    <3>. QED BY <1>b, <1>d, <1>e, <2>1, <3>1, HeldMove DEF JobPcs
  <2>2. ASSUME NEW r \in RebootIds,
               ReserveReboot(r, "force", [pc EXCEPT ![j] = "reserved", ![r] = "guarded"]),
               rebootJob' = [rebootJob EXCEPT ![j] = r]
        PROVE  RebootHeld'
    <3>. DEFINE p == [pc EXCEPT ![j] = "reserved", ![r] = "guarded"]
    <3>1. NotifyOne(p) /\ pc[r] = "idle" /\ pc[j] = "reserve" /\ reboot_pending' = r
      BY <1>5, <2>2 DEF PatchReserveReboot, ReserveReboot
    <3>2. /\ p \in [Ids -> Pcs] /\ p[j] = "reserved"
          /\ \A u \in Ids \ {j, r} : p[u] = pc[u]
      BY <1>b, <1>c, <1>d DEF JobPcs, RebootPcs
    <3>. HIDE DEF p
    <3>3. \A u \in Ids : p[u] # pc[u] => pc[u] # "parked"
      BY <3>1, <3>2
    <3>4. Moves(p, j)
      BY <1>b, <3>1, <3>2, <3>3, PcStep
    <3>5. pc'[j] = "reserved"
      BY <3>2, <3>4 DEF Moves
    <3>6. RebootJob(j)' = r
      BY <1>a, <1>b, <2>2 DEF RebootJob, TypeOK
    <3>. QED BY <1>b, <1>e, <3>1, <3>5, <3>6 DEF RebootHeld
  <2>. QED BY <1>5, <2>1, <2>2 DEF PatchReserveReboot
<1>6. ASSUME NEW t \in Ids, ReserveReturns(t) PROVE RebootHeld'
  <2>1. PICK l \in {"begin", "setRebooting"} : pc' = GoTo(t, l)
    BY <1>6 DEF ReserveReturns
  <2>. QED BY <1>6, <1>d, <1>e, <2>1, HeldByOwner DEF ReserveReturns, JobPcs
<1>7. ASSUME NEW j \in JobIds, SetJobRebooting(j) PROVE RebootHeld'
  BY <1>7, <1>b, <1>d, <1>e, HeldByOwner DEF SetJobRebooting, JobPcs
<1>8. ASSUME NEW t \in Ids, BeginRebootExecution(t) PROVE RebootHeld'
  <2>1. pc[t] = "begin" /\ UNCHANGED <<rebootJob, reboot_pending>>
    BY <1>8 DEF BeginRebootExecution
  <2>2. reboot_pending = RebootJob(t) /\ status[RebootJob(t)] = "Pending"
    BY <1>e, <1>f, <2>1 DEF BeforeReboot
  <2>3. NotifyOne(GoTo(t, "rebootCmd"))
    BY <1>8, <2>2 DEF BeginRebootExecution
  <2>. QED BY <1>d, <1>e, <2>1, <2>3, HeldByOwner DEF JobPcs
<1>9. ASSUME NEW t \in Ids, RebootCommandOk(t) PROVE RebootHeld'
  <2>1. /\ pc[t] = "rebootCmd" /\ UNCHANGED <<reboot_pending, status>>
        /\ pc' = [pc EXCEPT ![t] = "done", ![RebootJob(t)] = "done"]
    BY <1>9 DEF RebootCommandOk
  <2>2. /\ RebootJob(t) \in RebootIds /\ reboot_pending = RebootJob(t)
        /\ status[RebootJob(t)] = "Rebooting"
    BY <1>e, <1>f, <2>1 DEF DuringReboot
  <2>3. pc'[RebootJob(t)] = "done"
    BY <1>b, <1>c, <2>1, <2>2
  <2>. QED BY <2>1, <2>2, <2>3 DEF RebootHeld
<1>10. ASSUME NEW t \in Ids, RebootCommandErr(t) PROVE RebootHeld'
  BY <1>10, <1>d, <1>e, HeldByOwner DEF RebootCommandErr, JobPcs
<1>11. ASSUME NEW t \in Ids, RebootFailed(t) PROVE RebootHeld'
  <2>1. reboot_pending = RebootJob(t)
    BY <1>11, <1>e, <1>f DEF RebootFailed
  <2>. QED BY <1>11, <2>1 DEF RebootFailed, RollbackReboot, RebootHeld
<1>12. ASSUME NEW r \in RebootIds, GuardDrop(r) PROVE RebootHeld'
  <2>1. reboot_pending # r /\ pc[r] = "guardDrop"
    BY <1>12 DEF GuardDrop, Inv, GuardHeld
  <2>. QED BY <1>12, <1>b, <1>d, <1>e, <2>1, HeldMove DEF GuardDrop, RollbackReboot, RebootPcs
<1>13. ASSUME NEW j \in JobIds,
             \/ DispatchReject(j) \/ DispatchWait(j) \/ PollNotified(j)
             \/ DispatchAcquire(j) \/ SpawnWatchdog(j) \/ ReceiveResult(j)
      PROVE  RebootHeld'
  <2>1. PICK l \in {"fail", "parking", "dispatch", "parked", "acquired", "await",
                    "complete", "reserve"} : pc' = GoTo(j, l)
    BY <1>13 DEF DispatchReject, DispatchWait, PollNotified, DispatchAcquire, SpawnWatchdog,
                 ReceiveResult
  <2>2. l \in Pcs
    BY <1>d DEF JobPcs
  <2>3. /\ pc[j] \in {"dispatch", "woken", "parking", "acquired", "await"}
        /\ UNCHANGED <<rebootJob, reboot_pending>>
    BY <1>13 DEF DispatchReject, DispatchWait, PollNotified, DispatchAcquire, SpawnWatchdog,
                 ReceiveResult
  <2>4. \A r \in RebootIds : status'[r] = status[r]
    BY <1>13, <1>a, <1>b
      DEF DispatchReject, DispatchWait, PollNotified, DispatchAcquire, SpawnWatchdog,
          ReceiveResult, TypeOK
  <2>. QED BY <1>b, <1>e, <2>1, <2>2, <2>3, <2>4, HeldMove
<1>14. ASSUME NEW j \in JobIds, CompleteJob(j) PROVE RebootHeld'
  <2>. DEFINE p == [t \in Ids |-> IF t = j THEN AfterFinish(j)
                                  ELSE IF t = rebootJob[j] THEN "guardDrop" ELSE pc[t]]
  <2>1. AfterFinish(j) \in {"delete", "release", "done"}
    BY DEF AfterFinish
  <2>2. p \in [Ids -> Pcs]
    <3>1. {"delete", "release", "done", "guardDrop"} \subseteq Pcs
      BY <1>d DEF JobPcs, RebootPcs
    <3>. QED BY <1>c, <2>1, <3>1
  <2>3. /\ NotifyOne(p) /\ pc[j] = "complete" /\ reboot_pending' = reboot_pending
        /\ rebootJob' = [rebootJob EXCEPT ![j] = None]
    BY <1>14 DEF CompleteJob, FinishJob
  <2>4. \A u \in Ids \ {j, rebootJob[j]} : p[u] = pc[u]
    OBVIOUS
  <2>5. rebootJob[j] \in Ids => pc[rebootJob[j]] = "guarded"
    BY <1>b DEF Inv, GuardHeld
  <2>. HIDE DEF p
  <2>6. \A u \in Ids : p[u] # pc[u] => pc[u] \notin Reboots \cup {"parked", "done"}
    BY <1>e, <2>3, <2>4, <2>5
  <2>7. \A u \in JobIds : pc[u] \in Reboots => rebootJob'[u] = rebootJob[u]
    BY <1>a, <1>e, <2>3 DEF TypeOK
  <2>8. \A r \in RebootIds : status'[r] = status[r]
    BY <1>14, <1>a, <1>b DEF CompleteJob, FinishJob, TypeOK
  <2>. QED BY <2>2, <2>3, <2>6, <2>7, <2>8, HeldKept
<1>15. ASSUME NEW j \in JobIds, FailJob(j) PROVE RebootHeld'
  <2>1. AfterFinish(j) \in Pcs
    BY <1>d DEF AfterFinish, JobPcs
  <2>2. \A r \in RebootIds : status'[r] = status[r]
    BY <1>15, <1>a, <1>b DEF FailJob, FinishJob, TypeOK
  <2>. QED BY <1>15, <1>b, <1>e, <2>1, <2>2, HeldMove DEF FailJob, FinishJob
<1>16. ASSUME NEW j \in JobIds, DeleteTrackingJob(j) \/ ReleaseSelfUpdate(j) PROVE RebootHeld'
  <2>1. \A r \in RebootIds : status'[r] = status[r]
    BY <1>16, <1>a, <1>b DEF DeleteTrackingJob, ReleaseSelfUpdate, TypeOK
  <2>2. /\ pc[j] \in {"delete", "release"} /\ UNCHANGED <<rebootJob, reboot_pending>>
        /\ NotifyOne(GoTo(j, "done")) \/ pc' = GoTo(j, "done")
    BY <1>16 DEF DeleteTrackingJob, ReleaseSelfUpdate
  <2>. QED BY <1>b, <1>d, <1>e, <2>1, <2>2, HeldMove DEF JobPcs
<1>17. ASSUME NotifyOne(pc) \/ pc' = pc, UNCHANGED <<rebootJob, reboot_pending>>,
              \A r \in RebootIds : status[r] = "Rebooting" => status'[r] = "Rebooting"
       PROVE  RebootHeld'
  BY <1>17, <1>c, HeldKept
<1>18. ASSUME NEW i \in Ids, DeleteJob(i) PROVE RebootHeld'
  <2>1. \A r \in RebootIds : status[r] = "Rebooting" => status'[r] = "Rebooting"
    BY <1>18, <1>a, <1>b DEF DeleteJob, TypeOK, Terminal
  <2>. QED BY <1>17, <1>18, <2>1 DEF DeleteJob, notifyVars
<1>19. ASSUME FreezeAdmission PROVE RebootHeld'
  BY <1>17, <1>19 DEF FreezeAdmission
<1>20. ASSUME NEW j \in JobIds, ClosureExits(j) PROVE RebootHeld'
  BY <1>17, <1>20 DEF ClosureExits, notifyVars
<1>21. ASSUME NEW j \in JobIds, WatchdogFinalize(j) PROVE RebootHeld'
  <2>1. \A r \in RebootIds : status'[r] = status[r]
    BY <1>21, <1>a, <1>b DEF WatchdogFinalize, TypeOK
  <2>. QED BY <1>17, <1>21, <2>1 DEF WatchdogFinalize
<1>22. ASSUME NEW t \in Ids, CallerDropped(t) \/ HandlerDropped(t) PROVE FALSE
  BY <1>22 DEF CallerDropped, HandlerDropped
<1>23. ASSUME Environment PROVE RebootHeld'
  BY <1>23, <1>1, <1>2, <1>3, <1>4, <1>18, <1>19 DEF Environment, Ops, Tiers
<1>24. ASSUME NEW j \in JobIds, JobTask(j) PROVE RebootHeld'
  BY <1>24, <1>5, <1>7, <1>13, <1>14, <1>15, <1>16 DEF JobTask
<1>25. ASSUME NEW t \in Ids, RebootTask(t) PROVE RebootHeld'
  BY <1>25, <1>6, <1>8, <1>9, <1>10, <1>11 DEF RebootTask
<1>. QED BY <1>b, <1>12, <1>20, <1>21, <1>22, <1>23, <1>24, <1>25 DEF Next

\* No reservation is left behind by a task that ended: release_self_update and
\* rollback_reboot are reached on every path.  This needs that neither a caller
\* of dispatch_mutation nor the reboot handler is dropped; the second can happen
\* in the service, and then the reservation leaks.
THEOREM ReservationsAreHeld ==
    ASSUME "caller" \notin MayDrop, "handler" \notin MayDrop
    PROVE  Spec => []ReservationsHeld
<1>1. Init => SelfHeld /\ RebootHeld
  BY DEF Init, SelfHeld, RebootHeld
<1>2. SelfHeld /\ RebootHeld /\ UNCHANGED vars => (SelfHeld /\ RebootHeld)'
  BY DEF SelfHeld, RebootHeld, RebootJob, vars
<1>3. Inv /\ SelfHeld /\ RebootHeld /\ [Next]_vars => (SelfHeld /\ RebootHeld)'
  BY <1>2, SelfHeldStep, RebootHeldStep
<1>4. SelfHeld /\ RebootHeld => ReservationsHeld
  BY DEF SelfHeld, RebootHeld, ReservationsHeld, Reboots
<1>. QED
  BY <1>1, <1>3, <1>4, InvHolds, PTL DEF Spec

-----------------------------------------------------------------------------
(* Scheduler implements HostExclusion: each step of the scheduler, seen    *)
(* through the refinement mapping Host of Scheduler, is a step of the      *)
(* abstract specification or leaves its variables as they are.             *)


\* The operations under way, as the mapping sees them.
Mutating   == {j \in JobIds : Holding(j) /\ ~IsInternal(j)}
Refreshing == {j \in JobIds : Holding(j) /\ IsInternal(j)}

SameWork == Mutating' = Mutating /\ Refreshing' = Refreshing

\* Neither the work nor a reservation changes.
Silent == SameWork /\ UNCHANGED <<self_update, reboot_pending, tier>>

\* notify_one makes nobody an owner and takes the slot from nobody.
LEMMA AcquiredKept ==
    ASSUME TypeOK, WaitersParked, NEW S, NEW p \in [Ids -> S],
           \A j \in JobIds : pc[j] = "parked" => p[j] # "acquired",
           NotifyOne(p) \/ pc' = p
    PROVE  \A j \in JobIds : pc'[j] = "acquired" <=> p[j] = "acquired"
<1>1. CASE pc' = p
  BY <1>1
<1>2. CASE NotifyOne(p) /\ waiters = <<>>
  BY <1>2 DEF NotifyOne
<1>3. CASE NotifyOne(p) /\ waiters # <<>>
  <2> DEFINE h == Head(waiters)
  <2>1. h \in JobIds /\ pc[h] = "parked"
    <3>1. waiters \in Seq(JobIds)
      BY DEF TypeOK
    <3>2. Len(waiters) \in Nat /\ Len(waiters) > 0 /\ h = waiters[1]
      BY <1>3, <3>1
    <3> QED
      BY <3>1, <3>2 DEF WaitersParked
  <2>2. pc' = [p EXCEPT ![h] = "woken"]
    BY <1>3 DEF NotifyOne
  <2> HIDE DEF h
  <2> QED
    BY <2>1, <2>2 DEF Ids
<1> QED
  BY <1>1, <1>2, <1>3

\* The work is the same when the same jobs are past the wait loop, the same
\* watchdogs run and no operation under way changes its kind.
LEMMA WorkKept ==
    ASSUME \A j \in JobIds : pc'[j] = "acquired" <=> pc[j] = "acquired",
           watchdog' = watchdog,
           \A j \in JobIds : Holding(j) => op'[j] = op[j]
    PROVE  SameWork
<1>1. \A j \in JobIds : Holding(j)' <=> Holding(j)
  BY DEF Holding
<1>2. \A j \in JobIds : Holding(j) => (IsInternal(j)' <=> IsInternal(j))
  BY DEF IsInternal
<1>3. \A j \in JobIds : j \in Mutating' <=> j \in Mutating
  BY <1>1, <1>2 DEF Mutating
<1>4. \A j \in JobIds : j \in Refreshing' <=> j \in Refreshing
  BY <1>1, <1>2 DEF Refreshing
<1>5. /\ Mutating \subseteq JobIds /\ Mutating' \subseteq JobIds
      /\ Refreshing \subseteq JobIds /\ Refreshing' \subseteq JobIds
  BY DEF Mutating, Refreshing
<1> QED
  BY <1>3, <1>4, <1>5 DEF SameWork

\* One task moves, outside the slot, with or without a notification.
Quiet(t, l) ==
    /\ pc[t] \notin {"parked", "acquired"} /\ l # "acquired"
    /\ NotifyOne(GoTo(t, l)) \/ pc' = GoTo(t, l)
    /\ \A u \in Ids \ {t} : op'[u] = op[u]
    /\ watchdog' = watchdog

\* Such a move changes no work, provided the task's operation keeps its kind
\* or is not under way.
LEMMA QuietWork ==
    ASSUME Inv, NEW t \in Ids, NEW l, Quiet(t, l),
           op'[t] = op[t] \/ pc[t] \notin {"await", "dropped"}
    PROVE  SameWork
<1> DEFINE p == GoTo(t, l)
           S == Pcs \cup {l}
<1>0. TypeOK /\ WaitersParked
  BY DEF Inv
<1>1. /\ p \in [Ids -> S] /\ p[t] = l
      /\ \A u \in Ids \ {t} : p[u] = pc[u]
  BY <1>0 DEF GoTo, TypeOK, Pcs
<1>2. NotifyOne(p) \/ pc' = p
  BY DEF Quiet
<1>3. l # "acquired" /\ pc[t] \notin {"parked", "acquired"}
  BY DEF Quiet
<1>4. \A j \in JobIds : pc'[j] = "acquired" <=> pc[j] = "acquired"
  <2> HIDE DEF p, S
  <2>1. \A j \in JobIds : pc'[j] = "acquired" <=> p[j] = "acquired"
    BY <1>0, <1>1, <1>2, <1>3, AcquiredKept DEF Ids
  <2> QED
    BY <1>1, <1>3, <2>1 DEF Ids
<1>5. \A j \in JobIds : Holding(j) => op'[j] = op[j]
  BY <1>3, NotHolding DEF Quiet, Inv, Ids
<1> QED
  BY <1>4, <1>5, WorkKept DEF Quiet

\* The abstract state does not change in a silent step.
LEMMA SilentStutters == ASSUME Silent PROVE UNCHANGED Host!hostVars
BY DEF Silent, SameWork, Mutating, Refreshing, Host!hostVars

\* At most one operation is under way, and the owner of the slot is it.
LEMMA SoleWork ==
    ASSUME Inv
    PROVE  /\ active_mutation = None => Mutating = {} /\ Refreshing = {}
           /\ \A j \in JobIds : Holding(j) => Mutating \cup Refreshing = {j}
<1>1. \A j, k \in JobIds : Holding(j) /\ Holding(k) => j = k
  BY DEF Inv, SlotOwned
<1>2. active_mutation = None => \A j \in JobIds : ~Holding(j)
  BY NotHolding DEF Inv
<1> QED
  BY <1>1, <1>2 DEF Mutating, Refreshing

-----------------------------------------------------------------------------
(* One step of the scheduler *)

\* The steps that do not show: requests that only queue, the wait loop, the
\* ends of the tasks, the progress of a reboot.
LEMMA SilentSteps ==
    ASSUME Inv
    PROVE  /\ \A j \in JobIds, o \in Ops : AdmitJob(j, o) => Silent
           /\ \A j \in JobIds : CreateRollbackJob(j) => Silent
           /\ \A j \in Ids : DeleteJob(j) => Silent
           /\ FreezeAdmission => Silent
           /\ \A j \in JobIds :
                 \/ DispatchReject(j) \/ DispatchWait(j) \/ PollNotified(j) \/ SpawnWatchdog(j)
                 \/ ReceiveResult(j) \/ SetJobRebooting(j) \/ CompleteJob(j) \/ FailJob(j)
                 \/ DeleteTrackingJob(j) \/ ClosureExits(j)
                 => Silent
           /\ \A t \in Ids :
                 ReserveReturns(t) \/ BeginRebootExecution(t) \/ RebootCommandOk(t)
                 \/ RebootCommandErr(t) => Silent
           /\ \A r \in RebootIds : GuardDrop(r) \/ HandlerDropped(r) => Silent
<1>a. TypeOK /\ WaitersParked /\ WatchdogPhase
  BY DEF Inv
<1>b. /\ JobIds \subseteq Ids /\ RebootIds \subseteq Ids
      /\ JobIds \cap RebootIds = {} /\ None \notin Ids
  BY SchedulerAssumption DEF Ids
<1>1. ASSUME NEW j \in JobIds, NEW o \in Ops, AdmitJob(j, o) PROVE Silent
  <2>1. Quiet(j, "dispatch") /\ pc[j] = "idle"
    BY <1>1, <1>a, <1>b DEF AdmitJob, Quiet, taskVars, TypeOK
  <2> QED
    BY <1>1, <1>b, <2>1, QuietWork DEF AdmitJob, Silent
<1>2. ASSUME NEW j \in JobIds, CreateRollbackJob(j) PROVE Silent
  <2>1. Quiet(j, "done") /\ pc[j] = "idle"
    BY <1>2, <1>a, <1>b DEF CreateRollbackJob, Quiet, taskVars, TypeOK
  <2> QED
    BY <1>2, <1>b, <2>1, QuietWork DEF CreateRollbackJob, Silent
<1>3. ASSUME NEW j \in Ids, DeleteJob(j) PROVE Silent
  BY <1>3, WorkKept DEF DeleteJob, Silent, taskVars, notifyVars
<1>4. ASSUME FreezeAdmission PROVE Silent
  <2>1. pc \in [Ids -> Pcs]
    BY <1>a DEF TypeOK, Pcs
  <2>2. \A j \in JobIds : pc'[j] = "acquired" <=> pc[j] = "acquired"
    BY <1>4, <1>a, <2>1, AcquiredKept DEF FreezeAdmission
  <2> QED
    BY <1>4, <2>2, WorkKept DEF FreezeAdmission, Silent, taskVars
<1>5. ASSUME NEW j \in JobIds, DispatchReject(j) PROVE Silent
  <2>1. Quiet(j, "fail") /\ op' = op
    BY <1>5 DEF DispatchReject, Quiet, taskVars
  <2> QED
    BY <1>5, <1>b, <2>1, QuietWork DEF DispatchReject, Silent
<1>6. ASSUME NEW j \in JobIds, DispatchWait(j) PROVE Silent
  <2>1. Quiet(j, "parking") /\ op' = op
    BY <1>6 DEF DispatchWait, Quiet, taskVars
  <2> QED
    BY <1>6, <1>b, <2>1, QuietWork DEF DispatchWait, Silent
<1>7. ASSUME NEW j \in JobIds, PollNotified(j) PROVE Silent
  <2>1. PICK l \in {"dispatch", "parked"} : pc' = GoTo(j, l)
    BY <1>7 DEF PollNotified
  <2>2. Quiet(j, l) /\ op' = op
    BY <1>7, <2>1 DEF PollNotified, Quiet, taskVars
  <2> QED
    BY <1>7, <1>b, <2>2, QuietWork DEF PollNotified, Silent
<1>8. ASSUME NEW j \in JobIds, SpawnWatchdog(j) PROVE Silent
  <2>1. \A k \in JobIds : Holding(k)' <=> Holding(k)
    BY <1>8, <1>a, <1>b DEF SpawnWatchdog, Holding, GoTo, TypeOK
  <2> QED
    BY <1>8, <2>1 DEF SpawnWatchdog, Silent, SameWork, Mutating, Refreshing, IsInternal
<1>9. ASSUME NEW j \in JobIds, ReceiveResult(j) PROVE Silent
  <2>1. PICK l \in {"complete", "fail", "reserve"} : pc' = GoTo(j, l)
    BY <1>9 DEF ReceiveResult
  <2>2. Quiet(j, l) /\ op' = op
    BY <1>9, <2>1 DEF ReceiveResult, Quiet
  <2> QED
    BY <1>9, <1>b, <2>2, QuietWork DEF ReceiveResult, Silent
<1>10. ASSUME NEW j \in JobIds, SetJobRebooting(j) PROVE Silent
  <2>1. Quiet(j, "begin") /\ op' = op
    BY <1>10 DEF SetJobRebooting, Quiet, taskVars
  <2> QED
    BY <1>10, <1>b, <2>1, QuietWork DEF SetJobRebooting, Silent
<1>11. ASSUME NEW j \in JobIds, CompleteJob(j) PROVE Silent
  <2> DEFINE p == [t \in Ids |-> IF t = j THEN AfterFinish(j)
                                 ELSE IF t = rebootJob[j] THEN "guardDrop" ELSE pc[t]]
             S == Pcs \cup {"delete", "release", "done", "guardDrop"}
  <2>1. AfterFinish(j) \in {"delete", "release", "done"}
    BY DEF AfterFinish
  <2>2. p \in [Ids -> S] /\ \A k \in JobIds : p[k] = "acquired" <=> pc[k] = "acquired"
    <3>1. p \in [Ids -> S]
      BY <1>a, <2>1 DEF TypeOK, Pcs
    <3>2. rebootJob[j] \notin JobIds /\ pc[j] = "complete"
      BY <1>11, <1>a, <1>b DEF CompleteJob, TypeOK
    <3> QED
      BY <1>b, <2>1, <3>1, <3>2
  <2>3. NotifyOne(p)
    BY <1>11 DEF CompleteJob, FinishJob
  <2>4. \A k \in JobIds : pc'[k] = "acquired" <=> pc[k] = "acquired"
    <3> HIDE DEF p, S
    <3> QED
      BY <1>a, <2>2, <2>3, AcquiredKept
  <2> QED
    BY <1>11, <2>4, WorkKept DEF CompleteJob, FinishJob, Silent, taskVars
<1>12. ASSUME NEW j \in JobIds, FailJob(j) PROVE Silent
  <2>1. AfterFinish(j) \in {"delete", "release", "done"}
    BY DEF AfterFinish
  <2>2. Quiet(j, AfterFinish(j)) /\ op' = op
    BY <1>12, <2>1 DEF FailJob, FinishJob, Quiet, taskVars
  <2> QED
    BY <1>12, <1>b, <2>2, QuietWork DEF FailJob, FinishJob, Silent
<1>13. ASSUME NEW j \in JobIds, DeleteTrackingJob(j) PROVE Silent
  <2>1. Quiet(j, "done") /\ op' = op
    BY <1>13 DEF DeleteTrackingJob, Quiet, taskVars
  <2> QED
    BY <1>13, <1>b, <2>1, QuietWork DEF DeleteTrackingJob, Silent
<1>14. ASSUME NEW j \in JobIds, ClosureExits(j) PROVE Silent
  BY <1>14, WorkKept DEF ClosureExits, Silent, notifyVars
<1>15. ASSUME NEW t \in Ids, ReserveReturns(t) PROVE Silent
  <2>1. PICK l \in {"begin", "setRebooting"} : pc' = GoTo(t, l)
    BY <1>15 DEF ReserveReturns
  <2>2. Quiet(t, l) /\ op' = op
    BY <1>15, <2>1 DEF ReserveReturns, Quiet, taskVars
  <2> QED
    BY <1>15, <2>2, QuietWork DEF ReserveReturns, Silent
<1>16. ASSUME NEW t \in Ids, BeginRebootExecution(t) PROVE Silent
  <2>1. PICK l \in {"rebootCmd", "done", "complete"} : NotifyOne(GoTo(t, l)) \/ pc' = GoTo(t, l)
    BY <1>16 DEF BeginRebootExecution
  <2>2. Quiet(t, l) /\ op' = op
    BY <1>16, <2>1 DEF BeginRebootExecution, Quiet, taskVars
  <2> QED
    BY <1>16, <2>2, QuietWork DEF BeginRebootExecution, Silent
<1>17. ASSUME NEW t \in Ids, RebootCommandOk(t) PROVE Silent
  <2>1. RebootJob(t) \in RebootIds
    <3>1. reboot_pending = RebootJob(t) /\ reboot_pending # None
      BY <1>17 DEF RebootCommandOk, Inv, ReservationOwned, BeforeReboot, DuringReboot
    <3> QED
      BY <1>a, <3>1 DEF TypeOK
  <2>2. \A j \in JobIds : pc'[j] = "acquired" <=> pc[j] = "acquired"
    BY <1>17, <1>a, <1>b, <2>1 DEF RebootCommandOk, TypeOK
  <2> QED
    BY <1>17, <2>2, WorkKept DEF RebootCommandOk, Silent, taskVars
<1>18. ASSUME NEW t \in Ids, RebootCommandErr(t) PROVE Silent
  <2>1. Quiet(t, "rollback") /\ op' = op
    BY <1>18 DEF RebootCommandErr, Quiet, taskVars
  <2> QED
    BY <1>18, <2>1, QuietWork DEF RebootCommandErr, Silent
<1>19. ASSUME NEW r \in RebootIds, GuardDrop(r) PROVE Silent
  <2>1. reboot_pending # r
    BY <1>19 DEF GuardDrop, Inv, GuardHeld
  <2>2. Quiet(r, "done") /\ op' = op
    BY <1>19, <2>1 DEF GuardDrop, RollbackReboot, Quiet, taskVars
  <2> QED
    BY <1>19, <1>b, <2>1, <2>2, QuietWork DEF GuardDrop, RollbackReboot, Silent
<1>20. ASSUME NEW r \in RebootIds, HandlerDropped(r) PROVE Silent
  <2>1. Quiet(r, "dropped") /\ op' = op
    BY <1>20 DEF HandlerDropped, Quiet, taskVars
  <2> QED
    BY <1>20, <1>b, <2>1, QuietWork DEF HandlerDropped, Silent
<1> QED
  BY <1>1, <1>2, <1>3, <1>4, <1>5, <1>6, <1>7, <1>8, <1>9, <1>10, <1>11, <1>12, <1>13,
     <1>14, <1>15, <1>16, <1>17, <1>18, <1>19, <1>20

\* A reservation that was granted: the abstract reboot reservation.
LEMMA ReserveShows ==
    ASSUME Inv, NEW r \in RebootIds, NEW k \in Tiers, SameWork,
           CanReboot(k), reboot_pending' = r, tier' = k, self_update' = self_update
    PROVE  Host!Next
<1>1. k = "force" => Mutating = {} /\ Refreshing = {}
  BY SoleWork DEF CanReboot
<1>2. reboot_pending = None /\ (k # "ack" => self_update = None)
  BY DEF CanReboot, Tiers
<1>3. Host!ReserveReboot(r, k)
  BY <1>1, <1>2 DEF Host!ReserveReboot, Host!Idle, SameWork, Mutating, Refreshing
<1> QED
  BY <1>3 DEF Host!Next, Tiers

\* The steps that show: an operation begins or ends, a reservation is made,
\* released or rolled back.
LEMMA VisibleSteps ==
    ASSUME Inv
    PROVE  /\ \A j \in JobIds : TryReserveSelfUpdate(j) => Host!Next
           /\ \A r \in RebootIds, k \in Tiers : AdmitReboot(r, k) => Host!Next
           /\ \A j \in JobIds : PatchReserveReboot(j) => Silent \/ Host!Next
           /\ \A t \in Ids : RebootFailed(t) => Host!Next
           /\ \A j \in JobIds : DispatchAcquire(j) => Host!Next
           /\ \A j \in JobIds : WatchdogFinalize(j) => Host!Next
           /\ \A j \in JobIds : CallerDropped(j) => Silent \/ Host!Next
           /\ \A j \in JobIds : ReleaseSelfUpdate(j) => Silent \/ Host!Next
<1>a. TypeOK /\ WaitersParked /\ WatchdogPhase
  BY DEF Inv
<1>b. /\ JobIds \subseteq Ids /\ RebootIds \subseteq Ids
      /\ JobIds \cap RebootIds = {} /\ None \notin Ids
  BY SchedulerAssumption DEF Ids
<1>1. ASSUME NEW j \in JobIds, TryReserveSelfUpdate(j) PROVE Host!Next
  <2>1. Quiet(j, "dispatch") /\ pc[j] = "idle"
    BY <1>1, <1>a, <1>b DEF TryReserveSelfUpdate, Quiet, taskVars, TypeOK
  <2>2. SameWork
    BY <1>b, <2>1, QuietWork
  <2>3. Mutating = {}
    <3>1. \A k \in JobIds : Holding(k) => active_mutation = k
      BY DEF Inv, SlotOwned
    <3>2. active_mutation \in JobIds => IsInternal(active_mutation)
      BY <1>1, <1>b DEF TryReserveSelfUpdate, SlotFreeOrInternal
    <3> QED
      BY <3>1, <3>2 DEF Mutating
  <2>4. Host!ReserveUpdate(j)
    BY <1>1, <2>2, <2>3
       DEF TryReserveSelfUpdate, Host!ReserveUpdate, SameWork, Mutating, Refreshing
  <2> QED
    BY <2>4 DEF Host!Next
<1>2. ASSUME NEW r \in RebootIds, NEW k \in Tiers, AdmitReboot(r, k) PROVE Host!Next
  <2>1. Quiet(r, "reserved") /\ pc[r] = "idle"
    BY <1>2, <1>a, <1>b DEF AdmitReboot, ReserveReboot, Quiet, taskVars, TypeOK
  <2>2. SameWork
    BY <1>b, <2>1, QuietWork
  <2> QED
    BY <1>2, <2>2, ReserveShows DEF AdmitReboot, ReserveReboot
<1>3. ASSUME NEW j \in JobIds, PatchReserveReboot(j) PROVE Silent \/ Host!Next
  <2>1. ASSUME NEW r \in RebootIds,
               ReserveReboot(r, "force", [pc EXCEPT ![j] = "reserved", ![r] = "guarded"])
        PROVE  Host!Next
    <3> DEFINE p == [pc EXCEPT ![j] = "reserved", ![r] = "guarded"]
    <3>1. p \in [Ids -> Pcs]
      BY <1>a, PatchReserveType DEF PcType
    <3>2. \A u \in JobIds : p[u] = "acquired" <=> pc[u] = "acquired"
      BY <1>3, <1>a, <1>b DEF PatchReserveReboot, TypeOK
    <3>3. NotifyOne(p)
      BY <2>1 DEF ReserveReboot
    <3>4. \A u \in JobIds : pc'[u] = "acquired" <=> pc[u] = "acquired"
      <4> HIDE DEF p
      <4> QED
        BY <1>a, <3>1, <3>2, <3>3, AcquiredKept
    <3>5. \A u \in JobIds : op'[u] = op[u]
      BY <2>1, <1>a, <1>b DEF ReserveReboot, TypeOK
    <3>6. SameWork
      BY <2>1, <3>4, <3>5, WorkKept DEF ReserveReboot, taskVars
    <3> QED
      BY <2>1, <3>6, ReserveShows DEF ReserveReboot, Tiers
  <2>2. CASE /\ pc' = GoTo(j, "complete")
             /\ UNCHANGED <<op, self_update, reboot_pending, taskVars, tier>>
    <3>1. Quiet(j, "complete") /\ op' = op
      BY <1>3, <2>2 DEF PatchReserveReboot, Quiet, taskVars
    <3> QED
      BY <1>b, <2>2, <3>1, QuietWork DEF Silent
  <2> QED
    BY <1>3, <2>1, <2>2 DEF PatchReserveReboot
<1>4. ASSUME NEW t \in Ids, RebootFailed(t) PROVE Host!Next
  <2>1. reboot_pending = RebootJob(t) /\ reboot_pending # None
    BY <1>4 DEF RebootFailed, Inv, ReservationOwned, BeforeReboot, DuringReboot
  <2>2. PICK l \in {"done", "complete"} : Quiet(t, l) /\ op' = op
    BY <1>4 DEF RebootFailed, RollbackReboot, Quiet, taskVars
  <2>3. SameWork
    BY <2>2, QuietWork
  <2>4. Host!CancelReboot
    BY <1>4, <2>1, <2>3
       DEF RebootFailed, RollbackReboot, Host!CancelReboot, SameWork, Mutating, Refreshing
  <2> QED
    BY <2>4 DEF Host!Next
<1>5. ASSUME NEW j \in JobIds, DispatchAcquire(j) PROVE Host!Next
  <2>1. /\ active_mutation = None /\ reboot_pending = None
        /\ self_update \in {None, j}
        /\ pc' = GoTo(j, "acquired")
        /\ UNCHANGED <<op, watchdog, self_update, reboot_pending, tier>>
    BY <1>5 DEF DispatchAcquire, MustWait, Rejected, taskVars
  <2>2. Mutating = {} /\ Refreshing = {} /\ \A k \in JobIds : ~Holding(k)
    BY <1>a, <2>1, SoleWork, NotHolding DEF Inv
  <2>3. \A k \in JobIds : Holding(k)' <=> k = j
    BY <1>a, <1>b, <2>1, <2>2 DEF Holding, GoTo, TypeOK
  <2>4. \/ Mutating' = {j} /\ Refreshing' = {}
        \/ Refreshing' = {j} /\ Mutating' = {}
    BY <2>3 DEF Mutating, Refreshing
  <2>5. Host!Begin(j)
    BY <2>1, <2>2, <2>4 DEF Host!Begin, Host!Idle, Mutating, Refreshing
  <2> QED
    BY <2>5 DEF Host!Next
<1>6. ASSUME NEW j \in JobIds, (Mutating' \cup Refreshing') = {}, Holding(j),
             UNCHANGED <<self_update, reboot_pending, tier>>
      PROVE  Host!Next
  <2>1. ~ (Mutating = {} /\ Refreshing = {})
    BY <1>6 DEF Mutating, Refreshing
  <2>2. Host!End
    BY <1>6, <2>1 DEF Host!End, Host!Idle, Mutating, Refreshing
  <2> QED
    BY <2>2 DEF Host!Next
<1>7. ASSUME NEW j \in JobIds, WatchdogFinalize(j) PROVE Host!Next
  <2>1. watchdog[j] = "running" /\ watchdog' = [watchdog EXCEPT ![j] = "none"]
    BY <1>7 DEF WatchdogFinalize
  <2>2. Holding(j) /\ \A k \in JobIds \ {j} : ~Holding(k)
    BY <2>1 DEF Holding, Inv, SlotOwned
  <2>3. \A k \in JobIds : pc'[k] = "acquired" <=> pc[k] = "acquired"
    <3>1. pc \in [Ids -> Pcs]
      BY <1>a DEF TypeOK, Pcs
    <3> QED
      BY <1>7, <1>a, <3>1, AcquiredKept DEF WatchdogFinalize
  <2>4. pc[j] # "acquired"
    BY <1>a, <2>1 DEF WatchdogPhase
  <2>5. \A k \in JobIds : ~Holding(k)'
    BY <1>a, <2>1, <2>2, <2>3, <2>4 DEF Holding, TypeOK
  <2>6. (Mutating' \cup Refreshing') = {}
    BY <2>5 DEF Mutating, Refreshing
  <2> QED
    BY <1>6, <1>7, <2>2, <2>6 DEF WatchdogFinalize
<1>8. ASSUME NEW j \in JobIds, CallerDropped(j) PROVE Silent \/ Host!Next
  <2>1. UNCHANGED <<op, watchdog, self_update, reboot_pending, tier>>
    BY <1>8 DEF CallerDropped, taskVars
  <2>2. CASE pc[j] = "acquired"
    <3>1. pc' = GoTo(j, "dropped")
      BY <1>8, <2>2 DEF CallerDropped
    <3>2. Holding(j) /\ watchdog[j] # "running" /\ \A k \in JobIds \ {j} : ~Holding(k)
      BY <1>a, <2>2 DEF Holding, Inv, SlotOwned, WatchdogPhase
    <3>3. \A k \in JobIds : ~Holding(k)'
      BY <1>a, <1>b, <2>1, <3>1, <3>2 DEF Holding, GoTo, TypeOK
    <3>4. (Mutating' \cup Refreshing') = {}
      BY <3>3 DEF Mutating, Refreshing
    <3> QED
      BY <1>6, <2>1, <3>2, <3>4
  <2>3. CASE pc[j] # "acquired"
    <3> DEFINE p == GoTo(j, "dropped")
               S == Pcs \cup {"dropped"}
    <3>1. p \in [Ids -> S] /\ \A k \in JobIds : p[k] = "acquired" <=> pc[k] = "acquired"
      BY <1>a, <1>b, <2>3 DEF GoTo, TypeOK, Pcs
    <3>2. NotifyOne(p) \/ pc' = p
      BY <1>8 DEF CallerDropped
    <3>3. \A k \in JobIds : pc'[k] = "acquired" <=> pc[k] = "acquired"
      <4> HIDE DEF p, S
      <4> QED
        BY <1>a, <3>1, <3>2, AcquiredKept
    <3> QED
      BY <2>1, <3>3, WorkKept DEF Silent
  <2> QED
    BY <2>2, <2>3
<1>9. ASSUME NEW j \in JobIds, ReleaseSelfUpdate(j) PROVE Silent \/ Host!Next
  <2>1. Quiet(j, "done") /\ op' = op
    BY <1>9 DEF ReleaseSelfUpdate, Quiet, taskVars
  <2>2. SameWork
    BY <1>b, <2>1, QuietWork
  <2>3. CASE self_update = j
    <3>1. Host!ReleaseUpdate
      BY <1>9, <1>b, <2>2, <2>3
         DEF ReleaseSelfUpdate, Host!ReleaseUpdate, SameWork, Mutating, Refreshing
    <3> QED
      BY <3>1 DEF Host!Next
  <2>4. CASE self_update # j
    BY <1>9, <2>2, <2>4 DEF ReleaseSelfUpdate, Silent
  <2> QED
    BY <2>3, <2>4
<1> QED
  BY <1>1, <1>2, <1>3, <1>4, <1>5, <1>7, <1>8, <1>9

\* Every step of the scheduler is a step of HostExclusion or a stutter of it.
LEMMA HostStep == ASSUME Inv, Next PROVE [Host!Next]_(Host!hostVars)
<1>1. Silent \/ Host!Next
  <2>1. CASE Environment
    BY <2>1, SilentSteps, VisibleSteps DEF Environment, Ops, Tiers
  <2>2. CASE \E j \in JobIds : JobTask(j)
    BY <2>2, SilentSteps, VisibleSteps DEF JobTask
  <2>3. CASE \E t \in Ids : RebootTask(t)
    BY <2>3, SilentSteps, VisibleSteps DEF RebootTask
  <2> QED
    BY <2>1, <2>2, <2>3, SilentSteps, VisibleSteps DEF Next
<1> QED
  BY <1>1, SilentStutters

\* dispatch_mutation, the self-update reservation and the reboot reservation
\* together implement the abstract host: an operation begins only on an idle,
\* unreserved host, and a reservation meets only what its tier allows.
THEOREM ImplementsHostExclusion == Spec => KeepsHostExclusion
<1>1. Init => Host!Init
  BY DEF Init, Host!Init, Host!Idle, Holding, Ids
<1>2. Inv /\ [Next]_vars => [Host!Next]_(Host!hostVars)
  <2>1. ASSUME UNCHANGED vars PROVE UNCHANGED Host!hostVars
    BY <2>1 DEF vars, Host!hostVars, Holding, IsInternal
  <2> QED
    BY <2>1, HostStep
<1> QED
  BY <1>1, <1>2, InvHolds, PTL DEF Spec, KeepsHostExclusion, Host!Spec

=============================================================================
