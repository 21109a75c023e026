-------------------------- MODULE JobHistoryProofs --------------------------
(***************************************************************************)
(* Proofs about the durable job history (JobHistory), for any set of jobs, *)
(* any number of deaths of the process and of the machine, any number of   *)
(* failed file operations and any overlap of persist calls.  Only          *)
(* PromisesAreKept assumes that persist calls do not overlap.              *)
(***************************************************************************)
EXTENDS JobHistory, FiniteSetTheorems, TLAPS

-----------------------------------------------------------------------------
(* The inductive invariant *)

\* The task t has reserved the reboot and has neither failed nor succeeded.
Owner(t) == pc[t] \in {"setRebooting", "begin", "rebootCmd"}

\* The record of j belongs to this process.
Live(j) == pc[j] \notin {"idle", "done"} \/ jobs[j] \in Active

\* A writer between its two steps has a snapshot, and an old file that is
\* being migrated is still there.
Held ==
    /\ \A w \in Writers : persist[w] = "write" => snapshot[w] \in [Ids -> Status]
    /\ phase = "migrating" => legacy \in [Ids -> Status]
    /\ IsFiniteSet({k \in Ids : boot_id[k] # None})

\* The reservation and the tasks: there is at most one owner, its reboot job is
\* in the reservation and has no task of its own, and a patch job is Rebooting
\* once its owner is past set_job_rebooting.
OwnerInv ==
    /\ \A t \in Ids : Owner(t) =>
          /\ rebootJob[t] \in RebootIds /\ reboot_pending = rebootJob[t]
          /\ rebootJob[t] # t => t \in JobIds /\ pc[rebootJob[t]] = "guarded"
          /\ jobs[rebootJob[t]] \in Active
    /\ \A t, u \in Ids : Owner(t) /\ Owner(u) => t = u
    /\ \A t \in Ids : pc[t] = "setRebooting" => rebootJob[t] # t

\* What the task of an active record is doing.
ActiveInv ==
    \A j \in Ids : jobs[j] \in Active =>
        /\ pc[j] \notin {"idle", "delete", "ended"}
        /\ pc[j] \in {"running", "exited", "reserve", "setRebooting"} => jobs[j] = "Running"
        /\ pc[j] = "begin" /\ rebootJob[j] # j => jobs[j] = "Rebooting"
        /\ pc[j] = "rebootCmd" => jobs[j] = "Rebooting"
        /\ pc[j] = "done" =>
              /\ jobs[j] = "Rebooting" /\ reboot_pending # None
              /\ \A t \in Ids : ~Owner(t)

\* Before the server is up there is no task and no active record.
DownInv ==
    phase # "up" => \A j \in Ids : pc[j] \in {"idle", "done"} /\ jobs[j] \notin Active

\* A record of this process was created in this boot, one that the machine
\* took down in an earlier boot.
BootInv ==
    /\ \A j \in Ids : Live(j) => boot_id[j] = boot
    /\ \A j \in rebooted : pc[j] # "idle" /\ boot_id[j] \in Nat /\ boot_id[j] < boot

\* What no map of records ever holds, in memory, in a snapshot or on disk: an
\* id that is still free, an interrupted internal job, an interrupted job of
\* this process, a job that the machine took down reported as restarted.
Honest(m) ==
    \A j \in Ids :
        /\ pc[j] = "idle" => m[j] = "Absent"
        /\ IsInternal(j) \/ Live(j) => m[j] \notin Interrupted
        /\ j \in rebooted => m[j] # "AgentRestarted"

MapInv ==
    /\ Honest(jobs)
    /\ \A w \in Writers : persist[w] = "write" => Honest(snapshot[w])
    /\ file # None => Honest(file)
    /\ legacy # None => Honest(legacy)

HistoryInv == TypeOK /\ Held /\ OwnerInv /\ ActiveInv /\ DownInv /\ BootInv /\ MapInv

\* A map of records that keeps the promises, but for what the retention
\* limit has cut off.
Keeps(m) ==
    \A j \in Ids :
        /\ promised[j] \in Terminal =>
              \/ m[j] = promised[j]
              \/ m[j] = "Absent" /\ Newer(j) >= Retention
        /\ promised[j] = "Deleted" => m[j] = "Absent"

KeepsInv ==
    /\ phase \in {"up", "flush"} => Keeps(jobs)
    /\ file # None => Keeps(file)
    /\ \A w \in Writers : persist[w] = "write" => Keeps(snapshot[w])

\* What a persist call is about to promise stands in its snapshot.
CoveredInv ==
    \A w \in Writers : persist[w] = "write" =>
        /\ w \in Ids /\ pc[w] \in {"ended", "delete"} /\ jobs[w] \in Terminal
              => snapshot[w][w] = jobs[w]
        /\ w = "main" => snapshot[w] = jobs
        /\ w = "client" /\ deleting # None => snapshot[w][deleting] = "Absent"

\* One persist call at a time is between its two steps; the flush of the
\* startup sequence is the only one before the server is up.
WritersInv ==
    /\ \A w, x \in Writers : persist[w] = "write" /\ persist[x] = "write" => w = x
    /\ persist["main"] # "idle" => phase = "flush"
    /\ phase \in {"down", "migrating"} => \A w \in Writers : persist[w] = "idle"

\* An end is promised of a job whose task has ended, and of none before the
\* first file is written; a record that is being deleted is gone from memory.
MarksInv ==
    /\ \A j \in Ids :
          /\ promised[j] \in Terminal => pc[j] \in {"ended", "delete", "done"}
          /\ promised[j] # "none" => pc[j] # "idle"
          /\ file = None \/ phase = "migrating" => promised[j] = "none"
    /\ deleting # None =>
          phase = "up" /\ jobs[deleting] = "Absent" /\ pc[deleting] # "idle"

\* Finitely many jobs exist, and created_at belongs to those.
CreatedInv ==
    /\ \A j \in Ids : pc[j] = "idle" => created[j] = 0
    /\ IsFiniteSet({k \in Ids : created[k] # 0})

PromiseInv == KeepsInv /\ CoveredInv /\ WritersInv /\ MarksInv /\ CreatedInv

-----------------------------------------------------------------------------
(* What the operators of the history do to one record *)

\* persist_all_jobs writes a record as it is or leaves it out.
LEMMA KeptType ==
    ASSUME NEW s \in [Ids -> Status]
    PROVE  /\ Kept(s) \in [Ids -> Status]
           /\ \A j \in Ids : Kept(s)[j] \in {s[j], "Absent"}
<1>. DEFINE retained == {j \in Ids : s[j] # "Absent" /\ (~IsInternal(j) \/ s[j] \in Terminal)}
            Fits(j) == /\ j \in retained
                       /\ Cardinality({k \in retained : created[k] > created[j]}) < Retention
<1>1. Kept(s) = [j \in Ids |-> IF Fits(j) THEN s[j] ELSE "Absent"]
  BY DEF Kept
<1>. HIDE DEF Fits
<1>2. \A j \in Ids : s[j] \in Status /\ "Absent" \in Status
  BY DEF Status
<1>. QED
  BY <1>1, <1>2

\* recover_orphaned_jobs keeps what was final and ends the rest.
LEMMA RecoverType ==
    ASSUME NEW j \in Ids, NEW s \in Status
    PROVE  /\ Recover(j, s) \in Status \ Active
           /\ s \notin Active => Recover(j, s) = s
           /\ Recover(j, s) \in Interrupted =>
                 s \in Interrupted \/ (s \in Active /\ ~IsInternal(j))
           /\ Recover(j, s) = "AgentRestarted" =>
                 s = "AgentRestarted" \/ (s \in Active /\ boot_id[j] = boot)
  BY DEF Recover, Status, Active, Terminal, Interrupted

-----------------------------------------------------------------------------
(* Types *)

\* created_at of the next job is a number: only finitely many jobs exist.
LEMMA CreatedType ==
    ASSUME Held PROVE 1 + Cardinality({k \in Ids : boot_id[k] # None}) \in Nat
  BY FS_CardinalityType DEF Held

\* Types after main has loaded and recovered a map.
LEMMA StartWithTypes ==
    ASSUME NEW m \in [Ids -> Status], StartWith(m), TypeOK,
           errors' \in 0..MaxErrors, legacy' \in [Ids -> Status] \cup {None},
           promised' \in [Ids -> Terminal \cup {"none", "Deleted"}]
    PROVE  TypeOK'
<1>1. jobs' \in [Ids -> Status]
  BY RecoverType DEF StartWith
<1>2. phase' \in {"flush", "up"}
  BY DEF StartWith
<1>3. persist' \in [Writers -> {"idle", "called", "write"}] /\ snapshot' = snapshot
  BY DEF StartWith, Calls, persistVars, TypeOK
<1>. QED
  BY <1>1, <1>2, <1>3 DEF StartWith, taskVars, TypeOK

\* Types are kept by every step.
LEMMA TypesKept == TypeOK /\ Held /\ [Next]_vars => TypeOK'
<1>. SUFFICES ASSUME TypeOK /\ Held, [Next]_vars PROVE TypeOK'
  OBVIOUS
<1>1. ASSUME NEW j \in JobIds, NEW o \in Ops, Admit(j, o) PROVE TypeOK'
  <2>1. created' \in [Ids -> Nat] /\ boot_id' \in [Ids -> Nat \cup {None}]
    BY <1>1, CreatedType DEF Admit, Insert, TypeOK
  <2>2. jobs' \in [Ids -> Status] /\ op' \in [Ids -> Ops \cup {"none", "Install", "Refresh", "Reboot"}]
    BY <1>1 DEF Admit, Insert, TypeOK, Status, Active
  <2>. QED
    BY <1>1, <2>1, <2>2
    DEF Admit, persistVars, diskVars, procVars, ghostVars, TypeOK
<1>2. ASSUME NEW j \in JobIds, Start(j) PROVE TypeOK'
  BY <1>2
  DEF Start, At, Calls, diskVars, procVars, ghostVars, TypeOK, Ids, Writers,
      Status, Active, Terminal, Interrupted
<1>3. ASSUME NEW j \in JobIds, MutationExits(j) PROVE TypeOK'
  BY <1>3
  DEF MutationExits, At, persistVars, diskVars, procVars, ghostVars, TypeOK,
      Ids, Writers, Status, Active, Terminal, Interrupted
<1>4. ASSUME NEW j \in JobIds, NEW s \in {"Completed", "Failed"}, Finish(j, s)
      PROVE  TypeOK'
  BY <1>4
  DEF Finish, At, Calls, diskVars, procVars, ghostVars, TypeOK, Ids, Writers,
      Status, Active, Terminal, Interrupted
<1>5. ASSUME NEW j \in JobIds, DeleteTrackingJob(j) PROVE TypeOK'
  <2>1. CASE jobs[j] \in Terminal
    <3>1. jobs' \in [Ids -> Status]
      BY <1>5, <2>1 DEF DeleteTrackingJob, TypeOK, Status
    <3>2. persist' \in [Writers -> {"idle", "called", "write"}] /\ snapshot' = snapshot
      BY <1>5, <2>1 DEF DeleteTrackingJob, Calls, TypeOK
    <3>. QED
      BY <1>5, <2>1, <3>1, <3>2 DEF DeleteTrackingJob, diskVars, procVars, TypeOK
  <2>2. CASE jobs[j] \notin Terminal
    BY <1>5, <2>2 DEF DeleteTrackingJob, persistVars, diskVars, procVars, TypeOK
  <2>. QED
    BY <2>1, <2>2
<1>6. ASSUME NEW t \in JobIds, SetJobRebooting(t) PROVE TypeOK'
  <2>1. CASE jobs[t] = "Running"
    <3>1. jobs' \in [Ids -> Status]
      BY <1>6, <2>1 DEF SetJobRebooting, TypeOK, Status, Active
    <3>2. persist' \in [Writers -> {"idle", "called", "write"}] /\ snapshot' = snapshot
      BY <1>6, <2>1 DEF SetJobRebooting, Calls, TypeOK
    <3>. QED
      BY <1>6, <2>1, <3>1, <3>2
      DEF SetJobRebooting, diskVars, procVars, ghostVars, TypeOK
  <2>2. CASE jobs[t] # "Running"
    BY <1>6, <2>2
    DEF SetJobRebooting, persistVars, diskVars, procVars, ghostVars, TypeOK
  <2>. QED
    BY <2>1, <2>2
<1>7. ASSUME NEW r \in RebootIds, NEW t \in JobIds \cup {r}, ReserveReboot(t, r)
      PROVE  TypeOK'
  <2>1. created' \in [Ids -> Nat] /\ boot_id' \in [Ids -> Nat \cup {None}]
    BY <1>7, CreatedType DEF ReserveReboot, Insert, TypeOK
  <2>2. jobs' \in [Ids -> Status] /\ op' \in [Ids -> Ops \cup {"none", "Install", "Refresh", "Reboot"}]
    BY <1>7 DEF ReserveReboot, Insert, TypeOK, Status, Active, Terminal
  <2>3. persist' \in [Writers -> {"idle", "called", "write"}] /\ snapshot' = snapshot
    BY <1>7 DEF ReserveReboot, Calls, TypeOK
  <2>4. pc' \in [Ids -> {"idle", "queued", "running", "exited", "reserve",
                         "setRebooting", "begin", "rebootCmd", "rolledBack",
                         "guarded", "ended", "delete", "done"}]
    BY <1>7 DEF ReserveReboot, TypeOK
  <2>5. rebootJob' \in [Ids -> RebootIds \cup {None}] /\ reboot_pending' \in RebootIds
    BY <1>7 DEF ReserveReboot, TypeOK
  <2>. QED
    BY <1>7, <2>1, <2>2, <2>3, <2>4, <2>5
    DEF ReserveReboot, diskVars, procVars, ghostVars, TypeOK
<1>8. ASSUME NEW t \in JobIds \cup RebootIds, BeginRebootExecution(t)
      PROVE  TypeOK'
  BY <1>8
  DEF BeginRebootExecution, At, Calls, diskVars, procVars, ghostVars, TypeOK,
      Ids, Writers, Status, Active, Terminal, Interrupted
<1>9. ASSUME NEW t \in JobIds \cup RebootIds, RebootCommandOk(t) PROVE TypeOK'
  BY <1>9
  DEF RebootCommandOk, At, Calls, persistVars, diskVars, procVars, ghostVars,
      TypeOK, Ids, Writers, Status, Active, Terminal, Interrupted
<1>10. ASSUME NEW t \in JobIds \cup RebootIds, RebootCommandErr(t) PROVE TypeOK'
  BY <1>10
  DEF RebootCommandErr, At, Calls, diskVars, procVars, ghostVars, TypeOK, Ids,
      Writers, Status, Active, Terminal, Interrupted
<1>11. ASSUME NEW j \in Ids, DeleteJob(j) PROVE TypeOK'
  BY <1>11
  DEF DeleteJob, Calls, taskVars, diskVars, procVars, TypeOK, Ids, Writers,
      Status, Active, Terminal, Interrupted
<1>12. ASSUME NEW w \in Writers, Snapshot(w) PROVE TypeOK'
  BY <1>12
  DEF Snapshot, taskVars, diskVars, procVars, ghostVars, TypeOK, Ids, Writers,
      Status, Active, Terminal, Interrupted
<1>13. ASSUME NEW w \in Writers, Rename(w) PROVE TypeOK'
  <2>1. snapshot[w] \in [Ids -> Status]
    BY <1>13 DEF Rename, Held, TypeOK
  <2>2. file' \in [Ids -> Status]
    BY <1>13, <2>1, KeptType DEF Rename
  <2>3. promised' \in [Ids -> Terminal \cup {"none", "Deleted"}]
    BY <1>13 DEF Rename, Promise, TypeOK
  <2>. QED
    BY <1>13, <2>2, <2>3 DEF Rename, Returns, taskVars, TypeOK
<1>14. ASSUME NEW w \in Writers, WriteFails(w) PROVE TypeOK'
  <2>1. errors' \in 0..MaxErrors
    BY <1>14, HistoryAssumption DEF WriteFails, Fails, TypeOK
  <2>. QED
    BY <1>14, <2>1 DEF WriteFails, Returns, taskVars, TypeOK
<1>15. ASSUME NEW machine \in BOOLEAN, Dies(machine) PROVE TypeOK'
  <2>1. deaths' \in 0..MaxDeaths /\ boot' \in Nat
    BY <1>15, HistoryAssumption DEF Dies, TypeOK
  <2>2. rebooted' \subseteq Ids /\ jobs' \in [Ids -> Status]
    BY <1>15 DEF Dies, TypeOK, Empty, Status
  <2>. QED
    BY <1>15, <2>1, <2>2 DEF Dies, diskVars, TypeOK
<1>16. ASSUME Migrate PROVE TypeOK'
  <2>1. errors' \in 0..MaxErrors
    BY <1>16, HistoryAssumption DEF Migrate, Fails, TypeOK
  <2>2. legacy \in [Ids -> Status]
    BY <1>16 DEF Migrate, TypeOK
  <2>3. file' \in [Ids -> Status] \cup {None}
    BY <1>16, <2>2, KeptType DEF Migrate, TypeOK
  <2>. QED
    BY <1>16, <2>1, <2>3 DEF Migrate, taskVars, persistVars, ghostVars, TypeOK
<1>17. ASSUME Migrated PROVE TypeOK'
  <2>1. errors' \in 0..MaxErrors /\ legacy' \in [Ids -> Status] \cup {None}
    BY <1>17, HistoryAssumption DEF Migrated, Fails, TypeOK
  <2>2. legacy \in [Ids -> Status]
    BY <1>17 DEF Migrated, TypeOK, Held
  <2>3. StartWith(legacy) /\ promised' \in [Ids -> Terminal \cup {"none", "Deleted"}]
    BY <1>17 DEF Migrated, TypeOK
  <2>. QED
    BY <2>1, <2>2, <2>3, StartWithTypes
<1>18. ASSUME Load PROVE TypeOK'
  <2>1. Empty \in [Ids -> Status]
    BY DEF Empty, Status
  <2>2. PICK m \in [Ids -> Status] : StartWith(m)
    BY <1>18, <2>1 DEF Load, TypeOK
  <2>3. errors' \in 0..MaxErrors /\ legacy' = legacy
    BY <1>18, HistoryAssumption DEF Load, Fails, TypeOK
  <2>4. promised' \in [Ids -> Terminal \cup {"none", "Deleted"}]
    BY <1>18 DEF Load, TypeOK
  <2>. QED
    BY <2>2, <2>3, <2>4, StartWithTypes DEF TypeOK
<1>19. ASSUME UNCHANGED vars PROVE TypeOK'
  BY <1>19
  DEF vars, taskVars, persistVars, diskVars, procVars, ghostVars, TypeOK, Ids,
      Writers, Status, Active, Terminal, Interrupted
<1>. QED
  BY <1>1, <1>2, <1>3, <1>4, <1>5, <1>6, <1>7, <1>8, <1>9, <1>10, <1>11,
     <1>12, <1>13, <1>14, <1>15, <1>16, <1>17, <1>18, <1>19 DEF Next

-----------------------------------------------------------------------------
(* Snapshots, and the number of jobs *)

\* A new job: created keeps being a number of finitely many jobs.
LEMMA InsertHeld ==
    ASSUME NEW j \in Ids, NEW o, TypeOK, Held, Insert(j, o)
    PROVE  IsFiniteSet({k \in Ids : boot_id'[k] # None})
<1>. DEFINE S == {k \in Ids : boot_id[k] # None}
            T == {k \in Ids : boot_id'[k] # None}
<1>1. T \subseteq S \cup {j}
  BY DEF Insert, TypeOK
<1>2. IsFiniteSet(S \cup {j})
  BY FS_AddElement DEF Held
<1>3. IsFiniteSet(T)
  BY <1>1, <1>2, FS_Subset
<1>. QED
  BY <1>3

\* Every step keeps the snapshots and the finiteness.
LEMMA HeldKept == TypeOK /\ Held /\ [Next]_vars => Held'
<1>. SUFFICES ASSUME TypeOK /\ Held, [Next]_vars PROVE Held'
  OBVIOUS
<1>1. ASSUME NEW j \in JobIds, NEW o \in Ops, Admit(j, o) PROVE Held'
  <2>1. IsFiniteSet({k \in Ids : boot_id'[k] # None})
    BY <1>1, InsertHeld DEF Admit, Ids
  <2>. QED
    BY <1>1, <2>1 DEF Admit, Held, persistVars, diskVars, procVars
<1>2. ASSUME NEW j \in JobIds, Start(j) PROVE Held'
  BY <1>2 DEF Start, At, Calls, diskVars, procVars, ghostVars, Held, TypeOK
<1>3. ASSUME NEW j \in JobIds, MutationExits(j) PROVE Held'
  BY <1>3
  DEF MutationExits, At, persistVars, diskVars, procVars, ghostVars, Held,
      TypeOK
<1>4. ASSUME NEW j \in JobIds, NEW s \in {"Completed", "Failed"}, Finish(j, s)
      PROVE  Held'
  BY <1>4 DEF Finish, At, Calls, diskVars, procVars, ghostVars, Held, TypeOK
<1>5. ASSUME NEW j \in JobIds, DeleteTrackingJob(j) PROVE Held'
  BY <1>5
  DEF DeleteTrackingJob, At, Calls, persistVars, diskVars, procVars, Held,
      TypeOK
<1>6. ASSUME NEW t \in JobIds, SetJobRebooting(t) PROVE Held'
  BY <1>6
  DEF SetJobRebooting, At, Calls, persistVars, diskVars, procVars, ghostVars,
      Held, TypeOK
<1>7. ASSUME NEW r \in RebootIds, NEW t \in JobIds \cup {r}, ReserveReboot(t, r)
      PROVE  Held'
  <2>1. IsFiniteSet({k \in Ids : boot_id'[k] # None})
    BY <1>7, InsertHeld DEF ReserveReboot, Ids
  <2>. QED
    BY <1>7, <2>1 DEF ReserveReboot, Calls, Held, diskVars, procVars, TypeOK
<1>8. ASSUME NEW t \in JobIds \cup RebootIds, BeginRebootExecution(t) PROVE Held'
  BY <1>8
  DEF BeginRebootExecution, At, Calls, diskVars, procVars, ghostVars, Held,
      TypeOK
<1>9. ASSUME NEW t \in JobIds \cup RebootIds, RebootCommandOk(t) PROVE Held'
  BY <1>9
  DEF RebootCommandOk, At, Calls, persistVars, diskVars, procVars, ghostVars,
      Held, TypeOK
<1>10. ASSUME NEW t \in JobIds \cup RebootIds, RebootCommandErr(t) PROVE Held'
  BY <1>10
  DEF RebootCommandErr, At, Calls, diskVars, procVars, ghostVars, Held, TypeOK
<1>11. ASSUME NEW j \in Ids, DeleteJob(j) PROVE Held'
  BY <1>11 DEF DeleteJob, Calls, taskVars, diskVars, procVars, Held, TypeOK
<1>12. ASSUME NEW w \in Writers, Snapshot(w) PROVE Held'
  BY <1>12 DEF Snapshot, taskVars, diskVars, procVars, ghostVars, Held, TypeOK
<1>13. ASSUME NEW w \in Writers, Rename(w) PROVE Held'
  BY <1>13 DEF Rename, Returns, taskVars, Held, TypeOK
<1>14. ASSUME NEW w \in Writers, WriteFails(w) PROVE Held'
  BY <1>14 DEF WriteFails, Returns, Fails, taskVars, Held, TypeOK
<1>15. ASSUME NEW machine \in BOOLEAN, Dies(machine) PROVE Held'
  BY <1>15 DEF Dies, diskVars, Held, TypeOK
<1>16. ASSUME Migrate PROVE Held'
  BY <1>16 DEF Migrate, Fails, taskVars, persistVars, ghostVars, Held, TypeOK
<1>17. ASSUME Migrated PROVE Held'
  BY <1>17
  DEF Migrated, StartWith, Fails, Calls, taskVars, persistVars, Held, TypeOK
<1>18. ASSUME Load PROVE Held'
  BY <1>18
  DEF Load, StartWith, Fails, Calls, taskVars, persistVars, Held, TypeOK
<1>19. ASSUME UNCHANGED vars PROVE Held'
  BY <1>19
  DEF vars, taskVars, persistVars, diskVars, procVars, ghostVars, Held, TypeOK
<1>. QED
  BY <1>1, <1>2, <1>3, <1>4, <1>5, <1>6, <1>7, <1>8, <1>9, <1>10, <1>11,
     <1>12, <1>13, <1>14, <1>15, <1>16, <1>17, <1>18, <1>19 DEF Next

-----------------------------------------------------------------------------
(* The owner of the reservation *)

\* No step makes a second owner or ends a reboot job under its owner.
LEMMA OwnerKept == TypeOK /\ OwnerInv /\ DownInv /\ [Next]_vars => OwnerInv'
<1>. SUFFICES ASSUME TypeOK /\ OwnerInv /\ DownInv, [Next]_vars PROVE OwnerInv'
  OBVIOUS
<1>1. ASSUME NEW j \in JobIds, NEW o \in Ops, Admit(j, o) PROVE OwnerInv'
  BY <1>1, HistoryAssumption
  DEF Admit, At, Insert, persistVars, diskVars, procVars, ghostVars, OwnerInv,
      Owner, TypeOK, Ids, Active, Terminal
<1>2. ASSUME NEW j \in JobIds, Start(j) PROVE OwnerInv'
  BY <1>2, HistoryAssumption
  DEF Start, At, Calls, diskVars, procVars, ghostVars, OwnerInv, Owner,
      TypeOK, Ids, Active, Terminal
<1>3. ASSUME NEW j \in JobIds, MutationExits(j) PROVE OwnerInv'
  BY <1>3, HistoryAssumption
  DEF MutationExits, At, persistVars, diskVars, procVars, ghostVars, OwnerInv,
      Owner, TypeOK, Ids, Active, Terminal
<1>4. ASSUME NEW j \in JobIds, NEW s \in {"Completed", "Failed"}, Finish(j, s)
      PROVE  OwnerInv'
  BY <1>4, HistoryAssumption
  DEF Finish, At, Calls, diskVars, procVars, ghostVars, OwnerInv, Owner,
      TypeOK, Ids, Active, Terminal
<1>5. ASSUME NEW j \in JobIds, DeleteTrackingJob(j) PROVE OwnerInv'
  BY <1>5, HistoryAssumption
  DEF DeleteTrackingJob, At, Calls, persistVars, diskVars, procVars, OwnerInv,
      Owner, TypeOK, Ids, Active, Terminal
<1>6. ASSUME NEW t \in JobIds, SetJobRebooting(t) PROVE OwnerInv'
  BY <1>6, HistoryAssumption
  DEF SetJobRebooting, At, Calls, persistVars, diskVars, procVars, ghostVars,
      OwnerInv, Owner, TypeOK, Ids, Active, Terminal
<1>7. ASSUME NEW r \in RebootIds, NEW t \in JobIds \cup {r}, ReserveReboot(t, r)
      PROVE  OwnerInv'
  BY <1>7, HistoryAssumption
  DEF ReserveReboot, At, Calls, Insert, diskVars, procVars, ghostVars,
      OwnerInv, Owner, TypeOK, Ids, Active, Terminal
<1>8. ASSUME NEW t \in JobIds \cup RebootIds, BeginRebootExecution(t)
      PROVE  OwnerInv'
  BY <1>8, HistoryAssumption
  DEF BeginRebootExecution, At, Calls, diskVars, procVars, ghostVars,
      OwnerInv, Owner, TypeOK, Ids, Active, Terminal
<1>9. ASSUME NEW t \in JobIds \cup RebootIds, RebootCommandOk(t) PROVE OwnerInv'
  BY <1>9, HistoryAssumption
  DEF RebootCommandOk, At, Calls, persistVars, diskVars, procVars, ghostVars,
      OwnerInv, Owner, TypeOK, Ids, Active, Terminal
<1>10. ASSUME NEW t \in JobIds \cup RebootIds, RebootCommandErr(t) PROVE OwnerInv'
  BY <1>10, HistoryAssumption
  DEF RebootCommandErr, At, Calls, diskVars, procVars, ghostVars, OwnerInv,
      Owner, TypeOK, Ids, Active, Terminal
<1>11. ASSUME NEW j \in Ids, DeleteJob(j) PROVE OwnerInv'
  <2>1. \A t \in Ids : Owner(t) => rebootJob[t] # j
    BY <1>11 DEF DeleteJob, OwnerInv, Active, Terminal, Interrupted
  <2>2. \A k \in Ids \ {j} : jobs'[k] = jobs[k]
    BY <1>11 DEF DeleteJob, TypeOK
  <2>3. \A t \in Ids : Owner(t) => rebootJob[t] \in Ids
    BY DEF OwnerInv, Ids
  <2>. QED
    BY <1>11, <2>1, <2>2, <2>3 DEF DeleteJob, taskVars, OwnerInv, Owner
<1>12. ASSUME NEW w \in Writers, Snapshot(w) PROVE OwnerInv'
  BY <1>12, HistoryAssumption
  DEF Snapshot, taskVars, diskVars, procVars, ghostVars, OwnerInv, Owner,
      TypeOK, Ids, Active, Terminal
<1>13. ASSUME NEW w \in Writers, Rename(w) PROVE OwnerInv'
  BY <1>13, HistoryAssumption
  DEF Rename, Returns, taskVars, OwnerInv, Owner, TypeOK, Ids, Active,
      Terminal
<1>14. ASSUME NEW w \in Writers, WriteFails(w) PROVE OwnerInv'
  BY <1>14, HistoryAssumption
  DEF WriteFails, Returns, Fails, taskVars, OwnerInv, Owner, TypeOK, Ids,
      Active, Terminal
<1>15. ASSUME NEW machine \in BOOLEAN, Dies(machine) PROVE OwnerInv'
  BY <1>15, HistoryAssumption
  DEF Dies, diskVars, OwnerInv, Owner, TypeOK, Ids, Active, Terminal
<1>16. ASSUME Migrate PROVE OwnerInv'
  BY <1>16, HistoryAssumption
  DEF Migrate, Fails, taskVars, persistVars, ghostVars, OwnerInv, Owner,
      TypeOK, Ids, Active, Terminal
<1>17. ASSUME Migrated PROVE OwnerInv'
  <2>1. \A t \in Ids : ~Owner(t)
    BY <1>17 DEF Migrated, DownInv, Owner
  <2>. QED
    BY <1>17, <2>1 DEF Migrated, StartWith, taskVars, OwnerInv, Owner
<1>18. ASSUME Load PROVE OwnerInv'
  <2>1. \A t \in Ids : ~Owner(t)
    BY <1>18 DEF Load, DownInv, Owner
  <2>. QED
    BY <1>18, <2>1 DEF Load, StartWith, taskVars, OwnerInv, Owner
<1>19. ASSUME UNCHANGED vars PROVE OwnerInv'
  BY <1>19, HistoryAssumption
  DEF vars, taskVars, persistVars, diskVars, procVars, ghostVars, OwnerInv,
      Owner, TypeOK, Ids, Active, Terminal
<1>. QED
  BY <1>1, <1>2, <1>3, <1>4, <1>5, <1>6, <1>7, <1>8, <1>9, <1>10, <1>11,
     <1>12, <1>13, <1>14, <1>15, <1>16, <1>17, <1>18, <1>19 DEF Next

-----------------------------------------------------------------------------
(* Active records, and the process that is not up *)

\* Startup takes over no active record.
LEMMA StartWithQuiet ==
    ASSUME NEW m \in [Ids -> Status], StartWith(m)
    PROVE  \A j \in Ids : jobs'[j] \notin Active
  BY RecoverType DEF StartWith

\* main always loads a map of records.
LEMMA LoadsMap ==
    ASSUME TypeOK, Held, Migrated \/ Load
    PROVE  \E m \in [Ids -> Status] : StartWith(m)
<1>1. Empty \in [Ids -> Status]
  BY DEF Empty, Status
<1>. QED
  BY <1>1 DEF Migrated, Load, TypeOK, Held

\* The owner's reboot job, and what is true of everybody else.
LEMMA OwnerFacts ==
    ASSUME NEW t \in JobIds \cup RebootIds, Owner(t), TypeOK, OwnerInv, ActiveInv
    PROVE  /\ t \in Ids /\ rebootJob[t] \in Ids /\ rebootJob[t] \in RebootIds
           /\ reboot_pending = rebootJob[t] /\ reboot_pending # None
           /\ rebootJob[t] # t => pc[rebootJob[t]] = "guarded"
           /\ \A u \in Ids \ {t} : ~Owner(u)
           /\ \A j \in Ids : jobs[j] \in Active => pc[j] # "done"
<1>1. t \in Ids
  BY DEF Ids
<1>2. rebootJob[t] \in RebootIds /\ reboot_pending = rebootJob[t]
      /\ (rebootJob[t] # t => pc[rebootJob[t]] = "guarded")
  BY <1>1 DEF OwnerInv
<1>3. \A u \in Ids \ {t} : ~Owner(u)
  BY <1>1 DEF OwnerInv
<1>4. \A j \in Ids : jobs[j] \in Active => pc[j] # "done"
  BY <1>1 DEF ActiveInv
<1>5. rebootJob[t] \in Ids /\ rebootJob[t] # None
  BY <1>2, HistoryAssumption DEF Ids
<1>. QED
  BY <1>1, <1>2, <1>3, <1>4, <1>5

\* No step leaves an active record without a task.
LEMMA ActiveKept ==
    TypeOK /\ Held /\ OwnerInv /\ ActiveInv /\ [Next]_vars
       => ActiveInv'
<1>. SUFFICES ASSUME TypeOK /\ Held /\ OwnerInv /\ ActiveInv, [Next]_vars
              PROVE  ActiveInv'
  OBVIOUS
<1>1. ASSUME NEW j \in JobIds, NEW o \in Ops, Admit(j, o) PROVE ActiveInv'
  BY <1>1, HistoryAssumption
  DEF Admit, At, Insert, persistVars, diskVars, procVars, ghostVars,
      ActiveInv, Owner, TypeOK, Ids, Active, Terminal, Interrupted
<1>2. ASSUME NEW j \in JobIds, Start(j) PROVE ActiveInv'
  BY <1>2, HistoryAssumption
  DEF Start, At, Calls, diskVars, procVars, ghostVars, ActiveInv, Owner,
      TypeOK, Ids, Active, Terminal, Interrupted
<1>3. ASSUME NEW j \in JobIds, MutationExits(j) PROVE ActiveInv'
  BY <1>3, HistoryAssumption
  DEF MutationExits, At, persistVars, diskVars, procVars, ghostVars,
      ActiveInv, Owner, TypeOK, Ids, Active, Terminal, Interrupted
<1>4. ASSUME NEW j \in JobIds, NEW s \in {"Completed", "Failed"}, Finish(j, s)
      PROVE  ActiveInv'
  BY <1>4, HistoryAssumption
  DEF Finish, At, Calls, diskVars, procVars, ghostVars, ActiveInv, Owner,
      TypeOK, Ids, Active, Terminal, Interrupted
<1>5. ASSUME NEW j \in JobIds, DeleteTrackingJob(j) PROVE ActiveInv'
  BY <1>5, HistoryAssumption
  DEF DeleteTrackingJob, At, Calls, persistVars, diskVars, procVars,
      ActiveInv, Owner, TypeOK, Ids, Active, Terminal, Interrupted
<1>6. ASSUME NEW t \in JobIds, SetJobRebooting(t) PROVE ActiveInv'
  BY <1>6, HistoryAssumption
  DEF SetJobRebooting, At, Calls, persistVars, diskVars, procVars, ghostVars,
      ActiveInv, Owner, TypeOK, Ids, Active, Terminal, Interrupted
<1>7. ASSUME NEW r \in RebootIds, NEW t \in JobIds \cup {r}, ReserveReboot(t, r)
      PROVE  ActiveInv'
  BY <1>7, HistoryAssumption
  DEF ReserveReboot, At, Calls, Insert, diskVars, procVars, ghostVars,
      ActiveInv, Owner, TypeOK, Ids, Active, Terminal, Interrupted
<1>8. ASSUME NEW t \in JobIds \cup RebootIds, BeginRebootExecution(t)
      PROVE  ActiveInv'
  <2>1. Owner(t) /\ pc[t] = "begin"
    BY <1>8 DEF BeginRebootExecution, At, Owner
  <2>2. /\ jobs' = [jobs EXCEPT ![rebootJob[t]] = "Rebooting"]
        /\ pc' = [pc EXCEPT ![t] = "rebootCmd"]
        /\ rebootJob' = rebootJob
    BY <1>8 DEF BeginRebootExecution
  <2>3. ASSUME NEW j \in Ids, jobs'[j] \in Active
        PROVE  /\ pc'[j] \notin {"idle", "delete", "ended", "done"}
               /\ pc'[j] \in {"running", "exited", "reserve", "setRebooting"} => jobs'[j] = "Running"
               /\ pc'[j] = "begin" /\ rebootJob'[j] # j => jobs'[j] = "Rebooting"
               /\ pc'[j] = "rebootCmd" => jobs'[j] = "Rebooting"
    <3>1. CASE j = t /\ rebootJob[t] = t
      BY <2>1, <2>2, <3>1, OwnerFacts DEF TypeOK
    <3>2. CASE j = t /\ rebootJob[t] # t
      BY <2>1, <2>2, <2>3, <3>2, OwnerFacts DEF TypeOK, ActiveInv
    <3>3. CASE j # t /\ rebootJob[t] = j
      BY <2>1, <2>2, <3>3, OwnerFacts DEF TypeOK
    <3>4. CASE j # t /\ rebootJob[t] # j
      BY <2>1, <2>2, <2>3, <3>4, OwnerFacts DEF TypeOK, ActiveInv
    <3>. QED
      BY <3>1, <3>2, <3>3, <3>4
  <2>. QED
    BY <2>3 DEF ActiveInv
<1>9. ASSUME NEW t \in JobIds \cup RebootIds, RebootCommandOk(t) PROVE ActiveInv'
  <2>1. Owner(t) /\ pc[t] = "rebootCmd"
    BY <1>9 DEF RebootCommandOk, At, Owner
  <2>2. /\ jobs' = jobs /\ rebootJob' = rebootJob /\ reboot_pending' = reboot_pending
        /\ pc' = [pc EXCEPT ![t] = "done"]
    BY <1>9 DEF RebootCommandOk
  <2>3. \A u \in Ids : ~Owner(u)'
    BY <2>1, <2>2, OwnerFacts DEF TypeOK, Owner
  <2>. QED
    BY <2>1, <2>2, <2>3, OwnerFacts DEF TypeOK, ActiveInv
<1>10. ASSUME NEW t \in JobIds \cup RebootIds, RebootCommandErr(t)
       PROVE  ActiveInv'
  <2>1. Owner(t) /\ pc[t] = "rebootCmd"
    BY <1>10 DEF RebootCommandErr, At, Owner
  <2>2. /\ jobs' = [jobs EXCEPT ![rebootJob[t]] = "Failed"] /\ rebootJob' = rebootJob
        /\ pc' = [pc EXCEPT ![t] = IF t \in RebootIds THEN "ended" ELSE "rolledBack"]
    BY <1>10 DEF RebootCommandErr
  <2>3. ASSUME NEW j \in Ids, jobs'[j] \in Active
        PROVE  jobs'[j] = jobs[j] /\ j # rebootJob[t] /\ pc[j] # "done"
    BY <2>1, <2>2, <2>3, OwnerFacts DEF TypeOK, Active
  <2>4. t \in RebootIds => rebootJob[t] = t
    BY <2>1, HistoryAssumption DEF OwnerInv, Ids
  <2>. QED
    BY <2>1, <2>2, <2>3, <2>4, OwnerFacts DEF TypeOK, ActiveInv
<1>11. ASSUME NEW j \in Ids, DeleteJob(j) PROVE ActiveInv'
  BY <1>11, HistoryAssumption
  DEF DeleteJob, Calls, taskVars, diskVars, procVars, ActiveInv, Owner,
      TypeOK, Ids, Active, Terminal, Interrupted
<1>12. ASSUME NEW w \in Writers, Snapshot(w) PROVE ActiveInv'
  BY <1>12, HistoryAssumption
  DEF Snapshot, taskVars, diskVars, procVars, ghostVars, ActiveInv, Owner,
      TypeOK, Ids, Active, Terminal, Interrupted
<1>13. ASSUME NEW w \in Writers, Rename(w) PROVE ActiveInv'
  BY <1>13, HistoryAssumption
  DEF Rename, Returns, taskVars, ActiveInv, Owner, TypeOK, Ids, Active,
      Terminal, Interrupted
<1>14. ASSUME NEW w \in Writers, WriteFails(w) PROVE ActiveInv'
  BY <1>14, HistoryAssumption
  DEF WriteFails, Returns, Fails, taskVars, ActiveInv, Owner, TypeOK, Ids,
      Active, Terminal, Interrupted
<1>15. ASSUME NEW machine \in BOOLEAN, Dies(machine) PROVE ActiveInv'
  <2>1. \A j \in Ids : jobs'[j] = "Absent" /\ pc'[j] \in {"idle", "done"}
    BY <1>15 DEF Dies, Empty, TypeOK
  <2>. QED
    BY <2>1 DEF ActiveInv, Active
<1>16. ASSUME Migrate PROVE ActiveInv'
  BY <1>16, HistoryAssumption
  DEF Migrate, Fails, taskVars, persistVars, ghostVars, ActiveInv, Owner,
      TypeOK, Ids, Active, Terminal, Interrupted
<1>17. ASSUME Migrated PROVE ActiveInv'
  <2>1. \A j \in Ids : jobs'[j] \notin Active
    BY <1>17, LoadsMap, StartWithQuiet
  <2>. QED
    BY <1>17, <2>1 DEF ActiveInv, Migrated, StartWith, taskVars
<1>18. ASSUME Load PROVE ActiveInv'
  <2>1. \A j \in Ids : jobs'[j] \notin Active
    BY <1>18, LoadsMap, StartWithQuiet
  <2>. QED
    BY <1>18, <2>1 DEF ActiveInv, Load, StartWith, taskVars
<1>19. ASSUME UNCHANGED vars PROVE ActiveInv'
  BY <1>19, HistoryAssumption
  DEF vars, taskVars, persistVars, diskVars, procVars, ghostVars, ActiveInv,
      Owner, TypeOK, Ids, Active, Terminal, Interrupted
<1>. QED
  BY <1>1, <1>2, <1>3, <1>4, <1>5, <1>6, <1>7, <1>8, <1>9, <1>10, <1>11,
     <1>12, <1>13, <1>14, <1>15, <1>16, <1>17, <1>18, <1>19 DEF Next

\* No task runs and no record is active before the server is up.
LEMMA DownKept == TypeOK /\ Held /\ DownInv /\ [Next]_vars => DownInv'
<1>. SUFFICES ASSUME TypeOK /\ Held /\ DownInv, [Next]_vars PROVE DownInv'
  OBVIOUS
<1>1. ASSUME NEW j \in JobIds, NEW o \in Ops, Admit(j, o) PROVE DownInv'
  BY <1>1, HistoryAssumption
  DEF Admit, At, Insert, persistVars, diskVars, procVars, ghostVars, DownInv,
      TypeOK, Ids, Active, Terminal, Interrupted
<1>2. ASSUME NEW j \in JobIds, Start(j) PROVE DownInv'
  BY <1>2, HistoryAssumption
  DEF Start, At, Calls, diskVars, procVars, ghostVars, DownInv, TypeOK, Ids,
      Active, Terminal, Interrupted
<1>3. ASSUME NEW j \in JobIds, MutationExits(j) PROVE DownInv'
  BY <1>3, HistoryAssumption
  DEF MutationExits, At, persistVars, diskVars, procVars, ghostVars, DownInv,
      TypeOK, Ids, Active, Terminal, Interrupted
<1>4. ASSUME NEW j \in JobIds, NEW s \in {"Completed", "Failed"}, Finish(j, s)
      PROVE  DownInv'
  BY <1>4, HistoryAssumption
  DEF Finish, At, Calls, diskVars, procVars, ghostVars, DownInv, TypeOK, Ids,
      Active, Terminal, Interrupted
<1>5. ASSUME NEW j \in JobIds, DeleteTrackingJob(j) PROVE DownInv'
  BY <1>5, HistoryAssumption
  DEF DeleteTrackingJob, At, Calls, persistVars, diskVars, procVars, DownInv,
      TypeOK, Ids, Active, Terminal, Interrupted
<1>6. ASSUME NEW t \in JobIds, SetJobRebooting(t) PROVE DownInv'
  BY <1>6, HistoryAssumption
  DEF SetJobRebooting, At, Calls, persistVars, diskVars, procVars, ghostVars,
      DownInv, TypeOK, Ids, Active, Terminal, Interrupted
<1>7. ASSUME NEW r \in RebootIds, NEW t \in JobIds \cup {r}, ReserveReboot(t, r)
      PROVE  DownInv'
  BY <1>7, HistoryAssumption
  DEF ReserveReboot, At, Calls, Insert, diskVars, procVars, ghostVars,
      DownInv, TypeOK, Ids, Active, Terminal, Interrupted
<1>8. ASSUME NEW t \in JobIds \cup RebootIds, BeginRebootExecution(t)
      PROVE  DownInv'
  BY <1>8, HistoryAssumption
  DEF BeginRebootExecution, At, Calls, diskVars, procVars, ghostVars, DownInv,
      TypeOK, Ids, Active, Terminal, Interrupted
<1>9. ASSUME NEW t \in JobIds \cup RebootIds, RebootCommandOk(t) PROVE DownInv'
  BY <1>9, HistoryAssumption
  DEF RebootCommandOk, At, Calls, persistVars, diskVars, procVars, ghostVars,
      DownInv, TypeOK, Ids, Active, Terminal, Interrupted
<1>10. ASSUME NEW t \in JobIds \cup RebootIds, RebootCommandErr(t) PROVE DownInv'
  BY <1>10, HistoryAssumption
  DEF RebootCommandErr, At, Calls, diskVars, procVars, ghostVars, DownInv,
      TypeOK, Ids, Active, Terminal, Interrupted
<1>11. ASSUME NEW j \in Ids, DeleteJob(j) PROVE DownInv'
  BY <1>11, HistoryAssumption
  DEF DeleteJob, Calls, taskVars, diskVars, procVars, DownInv, TypeOK, Ids,
      Active, Terminal, Interrupted
<1>12. ASSUME NEW w \in Writers, Snapshot(w) PROVE DownInv'
  BY <1>12, HistoryAssumption
  DEF Snapshot, taskVars, diskVars, procVars, ghostVars, DownInv, TypeOK, Ids,
      Active, Terminal, Interrupted
<1>13. ASSUME NEW w \in Writers, Rename(w) PROVE DownInv'
  BY <1>13, HistoryAssumption
  DEF Rename, Returns, taskVars, DownInv, TypeOK, Ids, Active, Terminal,
      Interrupted
<1>14. ASSUME NEW w \in Writers, WriteFails(w) PROVE DownInv'
  BY <1>14, HistoryAssumption
  DEF WriteFails, Returns, Fails, taskVars, DownInv, TypeOK, Ids, Active,
      Terminal, Interrupted
<1>15. ASSUME NEW machine \in BOOLEAN, Dies(machine) PROVE DownInv'
  <2>1. \A j \in Ids : jobs'[j] = "Absent" /\ pc'[j] \in {"idle", "done"}
    BY <1>15 DEF Dies, Empty, TypeOK
  <2>. QED
    BY <2>1 DEF DownInv, Active
<1>16. ASSUME Migrate PROVE DownInv'
  BY <1>16, HistoryAssumption
  DEF Migrate, Fails, taskVars, persistVars, ghostVars, DownInv, TypeOK, Ids,
      Active, Terminal, Interrupted
<1>17. ASSUME Migrated PROVE DownInv'
  <2>1. \A j \in Ids : jobs'[j] \notin Active
    BY <1>17, LoadsMap, StartWithQuiet
  <2>. QED
    BY <1>17, <2>1 DEF DownInv, Migrated, StartWith, taskVars
<1>18. ASSUME Load PROVE DownInv'
  <2>1. \A j \in Ids : jobs'[j] \notin Active
    BY <1>18, LoadsMap, StartWithQuiet
  <2>. QED
    BY <1>18, <2>1 DEF DownInv, Load, StartWith, taskVars
<1>19. ASSUME UNCHANGED vars PROVE DownInv'
  BY <1>19, HistoryAssumption
  DEF vars, taskVars, persistVars, diskVars, procVars, ghostVars, DownInv,
      TypeOK, Ids, Active, Terminal, Interrupted
<1>. QED
  BY <1>1, <1>2, <1>3, <1>4, <1>5, <1>6, <1>7, <1>8, <1>9, <1>10, <1>11,
     <1>12, <1>13, <1>14, <1>15, <1>16, <1>17, <1>18, <1>19 DEF Next

-----------------------------------------------------------------------------
(* Boots *)

\* Boots: a step creates records of this boot only, and the machine takes
\* down only those.
LEMMA BootKept ==
    TypeOK /\ Held /\ OwnerInv /\ ActiveInv /\ DownInv /\ BootInv /\ [Next]_vars
       => BootInv'
<1>. SUFFICES ASSUME TypeOK /\ Held /\ OwnerInv /\ ActiveInv /\ DownInv /\ BootInv,
                     [Next]_vars
              PROVE  BootInv'
  OBVIOUS
<1>1. ASSUME NEW j \in JobIds, NEW o \in Ops, Admit(j, o) PROVE BootInv'
  BY <1>1, HistoryAssumption
  DEF Admit, At, Insert, persistVars, diskVars, procVars, ghostVars, BootInv,
      Live, TypeOK, Ids, Active, Terminal, Interrupted
<1>2. ASSUME NEW j \in JobIds, Start(j) PROVE BootInv'
  BY <1>2, HistoryAssumption
  DEF Start, At, Calls, diskVars, procVars, ghostVars, BootInv, Live, TypeOK,
      Ids, Active, Terminal, Interrupted
<1>3. ASSUME NEW j \in JobIds, MutationExits(j) PROVE BootInv'
  BY <1>3, HistoryAssumption
  DEF MutationExits, At, persistVars, diskVars, procVars, ghostVars, BootInv,
      Live, TypeOK, Ids, Active, Terminal, Interrupted
<1>4. ASSUME NEW j \in JobIds, NEW s \in {"Completed", "Failed"}, Finish(j, s)
      PROVE  BootInv'
  BY <1>4, HistoryAssumption
  DEF Finish, At, Calls, diskVars, procVars, ghostVars, BootInv, Live, TypeOK,
      Ids, Active, Terminal, Interrupted
<1>5. ASSUME NEW j \in JobIds, DeleteTrackingJob(j) PROVE BootInv'
  BY <1>5, HistoryAssumption
  DEF DeleteTrackingJob, At, Calls, persistVars, diskVars, procVars, BootInv,
      Live, TypeOK, Ids, Active, Terminal, Interrupted
<1>6. ASSUME NEW t \in JobIds, SetJobRebooting(t) PROVE BootInv'
  BY <1>6, HistoryAssumption
  DEF SetJobRebooting, At, Calls, persistVars, diskVars, procVars, ghostVars,
      BootInv, Live, TypeOK, Ids, Active, Terminal, Interrupted
<1>7. ASSUME NEW r \in RebootIds, NEW t \in JobIds \cup {r}, ReserveReboot(t, r)
      PROVE  BootInv'
  BY <1>7, HistoryAssumption
  DEF ReserveReboot, At, Calls, Insert, diskVars, procVars, ghostVars,
      BootInv, Live, TypeOK, Ids, Active, Terminal, Interrupted
<1>8. ASSUME NEW t \in JobIds \cup RebootIds, BeginRebootExecution(t)
      PROVE  BootInv'
  <2>1. Owner(t) /\ pc[t] = "begin"
    BY <1>8 DEF BeginRebootExecution, At, Owner
  <2>2. /\ jobs' = [jobs EXCEPT ![rebootJob[t]] = "Rebooting"]
        /\ pc' = [pc EXCEPT ![t] = "rebootCmd"]
        /\ boot_id' = boot_id /\ boot' = boot /\ rebooted' = rebooted
    BY <1>8 DEF BeginRebootExecution, procVars, ghostVars
  <2>3. Live(t) /\ Live(rebootJob[t])
    BY <2>1, OwnerFacts DEF Live
  <2>4. \A j \in Ids : Live(j)' => Live(j)
    BY <2>1, <2>2, <2>3, OwnerFacts DEF Live, TypeOK
  <2>. QED
    BY <2>1, <2>2, <2>4, OwnerFacts DEF BootInv, TypeOK
<1>9. ASSUME NEW t \in JobIds \cup RebootIds, RebootCommandOk(t) PROVE BootInv'
  BY <1>9, HistoryAssumption
  DEF RebootCommandOk, At, Calls, persistVars, diskVars, procVars, ghostVars,
      BootInv, Live, TypeOK, Ids, Active, Terminal, Interrupted
<1>10. ASSUME NEW t \in JobIds \cup RebootIds, RebootCommandErr(t) PROVE BootInv'
  BY <1>10, HistoryAssumption
  DEF RebootCommandErr, At, Calls, diskVars, procVars, ghostVars, BootInv,
      Live, TypeOK, Ids, Active, Terminal, Interrupted
<1>11. ASSUME NEW j \in Ids, DeleteJob(j) PROVE BootInv'
  BY <1>11, HistoryAssumption
  DEF DeleteJob, Calls, taskVars, diskVars, procVars, BootInv, Live, TypeOK,
      Ids, Active, Terminal, Interrupted
<1>12. ASSUME NEW w \in Writers, Snapshot(w) PROVE BootInv'
  BY <1>12, HistoryAssumption
  DEF Snapshot, taskVars, diskVars, procVars, ghostVars, BootInv, Live,
      TypeOK, Ids, Active, Terminal, Interrupted
<1>13. ASSUME NEW w \in Writers, Rename(w) PROVE BootInv'
  BY <1>13, HistoryAssumption
  DEF Rename, Returns, taskVars, BootInv, Live, TypeOK, Ids, Active, Terminal,
      Interrupted
<1>14. ASSUME NEW w \in Writers, WriteFails(w) PROVE BootInv'
  BY <1>14, HistoryAssumption
  DEF WriteFails, Returns, Fails, taskVars, BootInv, Live, TypeOK, Ids,
      Active, Terminal, Interrupted
<1>15. ASSUME NEW machine \in BOOLEAN, Dies(machine) PROVE BootInv'
  <2>1. \A j \in Ids : ~Live(j)'
    BY <1>15 DEF Dies, Empty, TypeOK, Live, Active
  <2>2. ASSUME NEW j \in rebooted' PROVE j \in Ids /\ pc[j] # "idle"
    BY <1>15, <2>2 DEF Dies, TypeOK, BootInv, ActiveInv
  <2>3. ASSUME NEW j \in rebooted' PROVE boot_id[j] \in Nat /\ boot_id[j] < boot'
    <3>1. CASE j \in rebooted
      BY <1>15, <3>1 DEF Dies, TypeOK, BootInv
    <3>2. CASE j \notin rebooted
      <4>1. machine /\ j \in Ids /\ jobs[j] \in Active
        BY <1>15, <2>3, <3>2 DEF Dies
      <4>2. boot_id[j] = boot
        BY <4>1 DEF BootInv, Live
      <4>. QED
        BY <1>15, <4>1, <4>2 DEF Dies, TypeOK
    <3>. QED
      BY <3>1, <3>2
  <2>. QED
    BY <1>15, <2>1, <2>2, <2>3 DEF Dies, BootInv, TypeOK
<1>16. ASSUME Migrate PROVE BootInv'
  BY <1>16, HistoryAssumption
  DEF Migrate, Fails, taskVars, persistVars, ghostVars, BootInv, Live, TypeOK,
      Ids, Active, Terminal, Interrupted
<1>17. ASSUME Migrated PROVE BootInv'
  <2>1. \A j \in Ids : jobs'[j] \notin Active /\ pc[j] \in {"idle", "done"}
    BY <1>17, LoadsMap, StartWithQuiet DEF Migrated, DownInv
  <2>. QED
    BY <1>17, <2>1 DEF BootInv, Live, Migrated, StartWith, taskVars
<1>18. ASSUME Load PROVE BootInv'
  <2>1. \A j \in Ids : jobs'[j] \notin Active /\ pc[j] \in {"idle", "done"}
    BY <1>18, LoadsMap, StartWithQuiet DEF Load, DownInv
  <2>. QED
    BY <1>18, <2>1 DEF BootInv, Live, Load, StartWith, taskVars
<1>19. ASSUME UNCHANGED vars PROVE BootInv'
  BY <1>19, HistoryAssumption
  DEF vars, taskVars, persistVars, diskVars, procVars, ghostVars, BootInv,
      Live, TypeOK, Ids, Active, Terminal, Interrupted
<1>. QED
  BY <1>1, <1>2, <1>3, <1>4, <1>5, <1>6, <1>7, <1>8, <1>9, <1>10, <1>11,
     <1>12, <1>13, <1>14, <1>15, <1>16, <1>17, <1>18, <1>19 DEF Next

-----------------------------------------------------------------------------
(* Maps of records *)

\* A step that gives a record only to an id that was free, changes no other
\* operation and lets the machine take down only records of this process.
Calm ==
    \A j \in Ids :
        /\ pc'[j] = "idle" => pc[j] = "idle"
        /\ op'[j] = op[j] \/ pc[j] = "idle"
        /\ Live(j)' => Live(j) \/ pc[j] = "idle"
        /\ j \in rebooted' => j \in rebooted \/ Live(j)

\* A step that writes no interrupted record, and none with a free id.
Tame ==
    \A j \in Ids :
        \/ jobs'[j] = jobs[j]
        \/ jobs'[j] = "Absent"
        \/ jobs'[j] \notin Interrupted /\ pc'[j] # "idle"

\* A calm step leaves a map honest ...
LEMMA HonestKept ==
    ASSUME NEW m, Honest(m), Calm
    PROVE  Honest(m)'
  BY DEF Honest, Calm, IsInternal, Interrupted

\* ... and what persist_all_jobs makes of an honest map is honest.
LEMMA KeptHonest ==
    ASSUME NEW m \in [Ids -> Status], Honest(m)
    PROVE  Honest(Kept(m))
<1>1. \A j \in Ids : Kept(m)[j] = m[j] \/ Kept(m)[j] = "Absent"
  BY KeptType
<1>. QED
  BY <1>1 DEF Honest, Interrupted

\* A calm and tame step leaves the job map honest.
LEMMA JobsHonest ==
    ASSUME Honest(jobs), Calm, Tame
    PROVE  Honest(jobs)'
  BY DEF Honest, Calm, Tame, IsInternal, Interrupted

\* A lifecycle step leaves the disk and the snapshots alone.
LEMMA LifecycleMaps ==
    ASSUME MapInv, Calm, Tame, UNCHANGED <<file, legacy, snapshot>>,
           \A w \in Writers : persist'[w] = "write" => persist[w] = "write"
    PROVE  MapInv'
<1>1. Honest(jobs)'
  BY JobsHonest DEF MapInv
<1>2. ASSUME NEW w \in Writers, persist'[w] = "write" PROVE Honest(snapshot[w])'
  <2>1. Honest(snapshot[w]) /\ snapshot'[w] = snapshot[w]
    BY <1>2 DEF MapInv
  <2>. QED
    BY <2>1, HonestKept DEF Honest
<1>3. file' # None => Honest(file)'
  BY HonestKept DEF MapInv, Honest
<1>4. legacy' # None => Honest(legacy)'
  BY HonestKept DEF MapInv, Honest
<1>. QED
  BY <1>1, <1>2, <1>3, <1>4 DEF MapInv

\* What startup makes of an honest map: an orphan is AgentRestarted only if it
\* was created in this boot, which no rebooted one was.
LEMMA StartWithMaps ==
    ASSUME NEW m \in [Ids -> Status], Honest(m), StartWith(m),
           TypeOK, DownInv, BootInv, MapInv, phase # "up",
           rebooted' = rebooted, legacy' = legacy \/ legacy' = None
    PROVE  MapInv'
<1>1. \A j \in Ids : jobs'[j] \notin Active /\ jobs[j] \notin Active /\ ~Live(j)
  BY StartWithQuiet DEF DownInv, Live
<1>2. Calm
  BY <1>1 DEF StartWith, taskVars, Calm, Live
<1>3. Honest(jobs)'
  <2>. SUFFICES ASSUME NEW j \in Ids
                PROVE  /\ pc'[j] = "idle" => jobs'[j] = "Absent"
                       /\ IsInternal(j)' \/ Live(j)' => jobs'[j] \notin Interrupted
                       /\ j \in rebooted' => jobs'[j] # "AgentRestarted"
    BY DEF Honest
  <2>1. jobs'[j] = Recover(j, m[j]) /\ m[j] \in Status /\ pc' = pc /\ op' = op
    BY DEF StartWith, taskVars
  <2>2. ~Live(j)'
    BY <1>1, <1>2, <2>1 DEF Live, StartWith
  <2>3. pc[j] = "idle" => jobs'[j] = "Absent"
    BY <2>1, RecoverType DEF Honest, Active
  <2>4. IsInternal(j) => jobs'[j] \notin Interrupted
    BY <2>1, RecoverType DEF Honest
  <2>5. j \in rebooted => jobs'[j] # "AgentRestarted"
    <3>1. j \in rebooted => boot_id[j] # boot
      BY DEF BootInv, TypeOK
    <3>. QED
      BY <2>1, <3>1, RecoverType DEF Honest
  <2>. QED
    BY <2>1, <2>2, <2>3, <2>4, <2>5 DEF IsInternal
<1>4. ASSUME NEW x \in Writers, persist'[x] = "write" PROVE Honest(snapshot[x])'
  <2>1. persist[x] = "write" /\ snapshot' = snapshot
    BY <1>4 DEF StartWith, Calls, persistVars, TypeOK
  <2>. QED
    BY <1>2, <2>1, HonestKept DEF MapInv, Honest
<1>5. (file' # None => Honest(file)') /\ (legacy' # None => Honest(legacy)')
  BY <1>2, HonestKept DEF StartWith, MapInv, Honest
<1>. QED
  BY <1>3, <1>4, <1>5 DEF MapInv

\* Every map of records stays honest.
LEMMA MapsKept ==
    TypeOK /\ Held /\ OwnerInv /\ ActiveInv /\ DownInv /\ BootInv /\ MapInv /\ [Next]_vars
       => MapInv'
<1>. SUFFICES ASSUME TypeOK /\ Held /\ OwnerInv /\ ActiveInv /\ DownInv /\ BootInv /\ MapInv,
                     [Next]_vars
              PROVE  MapInv'
  OBVIOUS
<1>1. ASSUME NEW j \in JobIds, NEW o \in Ops, Admit(j, o) PROVE MapInv'
  <2>1. Calm
    BY <1>1, HistoryAssumption
    DEF Admit, At, Insert, procVars, ghostVars, Calm, Live, TypeOK, Ids, Active,
        Terminal
  <2>2. Tame
    BY <1>1, HistoryAssumption
    DEF Admit, At, Insert, Tame, Interrupted, TypeOK, Ids
  <2>3. /\ UNCHANGED <<file, legacy, snapshot>>
        /\ \A w \in Writers : persist'[w] = "write" => persist[w] = "write"
    BY <1>1 DEF Admit, At, Insert, persistVars, diskVars, TypeOK
  <2>. QED
    BY <2>1, <2>2, <2>3, LifecycleMaps
<1>2. ASSUME NEW j \in JobIds, Start(j) PROVE MapInv'
  <2>1. Calm
    BY <1>2, HistoryAssumption
    DEF Start, At, Calls, procVars, ghostVars, Calm, Live, TypeOK, Ids, Active,
        Terminal
  <2>2. Tame
    BY <1>2, HistoryAssumption
    DEF Start, At, Calls, Tame, Interrupted, TypeOK, Ids
  <2>3. /\ UNCHANGED <<file, legacy, snapshot>>
        /\ \A w \in Writers : persist'[w] = "write" => persist[w] = "write"
    BY <1>2 DEF Start, At, Calls, persistVars, diskVars, TypeOK
  <2>. QED
    BY <2>1, <2>2, <2>3, LifecycleMaps
<1>3. ASSUME NEW j \in JobIds, MutationExits(j) PROVE MapInv'
  <2>1. Calm
    BY <1>3, HistoryAssumption
    DEF MutationExits, At, procVars, ghostVars, Calm, Live, TypeOK, Ids, Active,
        Terminal
  <2>2. Tame
    BY <1>3, HistoryAssumption
    DEF MutationExits, At, Tame, Interrupted, TypeOK, Ids
  <2>3. /\ UNCHANGED <<file, legacy, snapshot>>
        /\ \A w \in Writers : persist'[w] = "write" => persist[w] = "write"
    BY <1>3 DEF MutationExits, At, persistVars, diskVars, TypeOK
  <2>. QED
    BY <2>1, <2>2, <2>3, LifecycleMaps
<1>4. ASSUME NEW j \in JobIds, NEW s \in {"Completed", "Failed"}, Finish(j, s)
      PROVE  MapInv'
  <2>1. Calm
    BY <1>4, HistoryAssumption
    DEF Finish, At, Calls, procVars, ghostVars, Calm, Live, TypeOK, Ids, Active,
        Terminal
  <2>2. Tame
    BY <1>4, HistoryAssumption
    DEF Finish, At, Calls, Tame, Interrupted, TypeOK, Ids
  <2>3. /\ UNCHANGED <<file, legacy, snapshot>>
        /\ \A w \in Writers : persist'[w] = "write" => persist[w] = "write"
    BY <1>4 DEF Finish, At, Calls, persistVars, diskVars, TypeOK
  <2>. QED
    BY <2>1, <2>2, <2>3, LifecycleMaps
<1>5. ASSUME NEW j \in JobIds, DeleteTrackingJob(j) PROVE MapInv'
  <2>1. Calm
    BY <1>5, HistoryAssumption
    DEF DeleteTrackingJob, At, Calls, procVars, ghostVars, Calm, Live, TypeOK,
        Ids, Active, Terminal
  <2>2. Tame
    BY <1>5, HistoryAssumption
    DEF DeleteTrackingJob, At, Calls, Tame, Interrupted, TypeOK, Ids
  <2>3. /\ UNCHANGED <<file, legacy, snapshot>>
        /\ \A w \in Writers : persist'[w] = "write" => persist[w] = "write"
    BY <1>5 DEF DeleteTrackingJob, At, Calls, persistVars, diskVars, TypeOK
  <2>. QED
    BY <2>1, <2>2, <2>3, LifecycleMaps
<1>6. ASSUME NEW t \in JobIds, SetJobRebooting(t) PROVE MapInv'
  <2>1. Calm
    BY <1>6, HistoryAssumption
    DEF SetJobRebooting, At, Calls, procVars, ghostVars, Calm, Live, TypeOK, Ids,
        Active, Terminal
  <2>2. Tame
    BY <1>6, HistoryAssumption
    DEF SetJobRebooting, At, Calls, Tame, Interrupted, TypeOK, Ids
  <2>3. /\ UNCHANGED <<file, legacy, snapshot>>
        /\ \A w \in Writers : persist'[w] = "write" => persist[w] = "write"
    BY <1>6 DEF SetJobRebooting, At, Calls, persistVars, diskVars, TypeOK
  <2>. QED
    BY <2>1, <2>2, <2>3, LifecycleMaps
<1>7. ASSUME NEW r \in RebootIds, NEW t \in JobIds \cup {r}, ReserveReboot(t, r)
      PROVE  MapInv'
  <2>1. Calm
    BY <1>7, HistoryAssumption
    DEF ReserveReboot, At, Calls, Insert, procVars, ghostVars, Calm, Live, TypeOK,
        Ids, Active, Terminal
  <2>2. Tame
    <3>1. /\ jobs' = [k \in Ids |-> IF k = r THEN "Pending"
                               ELSE IF jobs[k] = "Pending" THEN "Failed" ELSE jobs[k]]
          /\ pc' = [pc EXCEPT ![r] = "guarded", ![t] = IF t = r THEN "begin" ELSE "setRebooting"]
      BY <1>7 DEF ReserveReboot
    <3>2. pc'[r] # "idle"
      BY <3>1 DEF TypeOK, Ids
    <3>3. ASSUME NEW k \in Ids, k # r, jobs[k] = "Pending" PROVE pc'[k] # "idle"
      BY <1>7, <2>1, <3>1, <3>3 DEF Calm, ActiveInv, Active
    <3>. QED
      BY <3>1, <3>2, <3>3 DEF Tame, Interrupted
  <2>3. /\ UNCHANGED <<file, legacy, snapshot>>
        /\ \A w \in Writers : persist'[w] = "write" => persist[w] = "write"
    BY <1>7 DEF ReserveReboot, At, Calls, Insert, persistVars, diskVars, TypeOK
  <2>. QED
    BY <2>1, <2>2, <2>3, LifecycleMaps
<1>8. ASSUME NEW t \in JobIds \cup RebootIds, BeginRebootExecution(t)
      PROVE  MapInv'
  <2>1. Owner(t) /\ pc[t] = "begin"
    BY <1>8 DEF BeginRebootExecution, At, Owner
  <2>2. /\ jobs' = [jobs EXCEPT ![rebootJob[t]] = "Rebooting"]
        /\ pc' = [pc EXCEPT ![t] = "rebootCmd"]
        /\ op' = op /\ rebooted' = rebooted
    BY <1>8 DEF BeginRebootExecution, ghostVars
  <2>3. Calm
    BY <2>1, <2>2, OwnerFacts DEF Calm, Live, TypeOK
  <2>4. Tame
    BY <2>1, <2>2, OwnerFacts DEF Tame, Interrupted, TypeOK
  <2>5. /\ UNCHANGED <<file, legacy, snapshot>>
        /\ \A w \in Writers : persist'[w] = "write" => persist[w] = "write"
    BY <1>8 DEF BeginRebootExecution, Calls, diskVars, TypeOK
  <2>. QED
    BY <2>3, <2>4, <2>5, LifecycleMaps
<1>9. ASSUME NEW t \in JobIds \cup RebootIds, RebootCommandOk(t) PROVE MapInv'
  <2>1. Calm
    BY <1>9, HistoryAssumption
    DEF RebootCommandOk, At, Calls, procVars, ghostVars, Calm, Live, TypeOK, Ids,
        Active, Terminal
  <2>2. Tame
    BY <1>9, HistoryAssumption
    DEF RebootCommandOk, At, Calls, Tame, Interrupted, TypeOK, Ids
  <2>3. /\ UNCHANGED <<file, legacy, snapshot>>
        /\ \A w \in Writers : persist'[w] = "write" => persist[w] = "write"
    BY <1>9 DEF RebootCommandOk, At, Calls, persistVars, diskVars, TypeOK
  <2>. QED
    BY <2>1, <2>2, <2>3, LifecycleMaps
<1>10. ASSUME NEW t \in JobIds \cup RebootIds, RebootCommandErr(t) PROVE MapInv'
  <2>1. Owner(t) /\ pc[t] = "rebootCmd"
    BY <1>10 DEF RebootCommandErr, At, Owner
  <2>2. /\ jobs' = [jobs EXCEPT ![rebootJob[t]] = "Failed"]
        /\ pc' = [pc EXCEPT ![t] = IF t \in RebootIds THEN "ended" ELSE "rolledBack"]
        /\ op' = op /\ rebooted' = rebooted
    BY <1>10 DEF RebootCommandErr, ghostVars
  <2>3. Calm
    BY <2>1, <2>2, OwnerFacts DEF Calm, Live, TypeOK, Active
  <2>4. Tame
    BY <2>1, <2>2, OwnerFacts DEF Tame, Interrupted, TypeOK
  <2>5. /\ UNCHANGED <<file, legacy, snapshot>>
        /\ \A w \in Writers : persist'[w] = "write" => persist[w] = "write"
    BY <1>10 DEF RebootCommandErr, Calls, diskVars, TypeOK
  <2>. QED
    BY <2>3, <2>4, <2>5, LifecycleMaps
<1>11. ASSUME NEW j \in Ids, DeleteJob(j) PROVE MapInv'
  <2>1. Calm
    BY <1>11, HistoryAssumption
    DEF DeleteJob, Calls, taskVars, Calm, Live, TypeOK, Ids, Active, Terminal
  <2>2. Tame
    BY <1>11, HistoryAssumption
    DEF DeleteJob, Calls, Tame, Interrupted, TypeOK, Ids
  <2>3. /\ UNCHANGED <<file, legacy, snapshot>>
        /\ \A w \in Writers : persist'[w] = "write" => persist[w] = "write"
    BY <1>11 DEF DeleteJob, Calls, persistVars, diskVars, TypeOK
  <2>. QED
    BY <2>1, <2>2, <2>3, LifecycleMaps
<1>12. ASSUME NEW w \in Writers, Snapshot(w) PROVE MapInv'
  <2>1. Calm
    BY <1>12 DEF Snapshot, taskVars, ghostVars, Calm, Live
  <2>2. Honest(jobs)' /\ (file' # None => Honest(file)') /\ (legacy' # None => Honest(legacy)')
    BY <1>12, <2>1, HonestKept DEF Snapshot, diskVars, MapInv, Honest
  <2>3. ASSUME NEW x \in Writers, persist'[x] = "write" PROVE Honest(snapshot[x])'
    <3>1. CASE x = w
      BY <1>12, <2>2, <3>1 DEF Snapshot, TypeOK, Honest
    <3>2. CASE x # w
      <4>1. Honest(snapshot[x]) /\ snapshot'[x] = snapshot[x]
        BY <1>12, <2>3, <3>2 DEF Snapshot, TypeOK, MapInv
      <4>. QED
        BY <2>1, <4>1, HonestKept DEF Honest
    <3>. QED
      BY <3>1, <3>2
  <2>. QED
    BY <2>2, <2>3 DEF MapInv
<1>13. ASSUME NEW w \in Writers, Rename(w) PROVE MapInv'
  <2>1. Calm
    BY <1>13 DEF Rename, Returns, taskVars, Calm, Live
  <2>2. Honest(jobs)' /\ (legacy' # None => Honest(legacy)')
    BY <1>13, <2>1, HonestKept DEF Rename, Returns, MapInv, Honest
  <2>3. ASSUME NEW x \in Writers, persist'[x] = "write" PROVE Honest(snapshot[x])'
    <3>1. Honest(snapshot[x]) /\ snapshot'[x] = snapshot[x]
      BY <1>13, <2>3 DEF Rename, Returns, TypeOK, MapInv
    <3>. QED
      BY <2>1, <3>1, HonestKept DEF Honest
  <2>4. Honest(file)'
    <3>1. snapshot[w] \in [Ids -> Status] /\ Honest(snapshot[w]) /\ file' = Kept(snapshot[w])
      BY <1>13 DEF Rename, Held, MapInv
    <3>2. Honest(Kept(snapshot[w]))
      BY <3>1, KeptHonest
    <3>. QED
      BY <2>1, <3>1, <3>2, HonestKept DEF Honest
  <2>. QED
    BY <2>2, <2>3, <2>4 DEF MapInv
<1>14. ASSUME NEW w \in Writers, WriteFails(w) PROVE MapInv'
  <2>1. Calm
    BY <1>14 DEF WriteFails, Returns, taskVars, Calm, Live
  <2>2. Honest(jobs)' /\ (legacy' # None => Honest(legacy)')
    BY <1>14, <2>1, HonestKept DEF WriteFails, Returns, MapInv, Honest
  <2>3. ASSUME NEW x \in Writers, persist'[x] = "write" PROVE Honest(snapshot[x])'
    <3>1. Honest(snapshot[x]) /\ snapshot'[x] = snapshot[x]
      BY <1>14, <2>3 DEF WriteFails, Returns, TypeOK, MapInv
    <3>. QED
      BY <2>1, <3>1, HonestKept DEF Honest
  <2>4. file' # None => Honest(file)'
    BY <1>14, <2>1, HonestKept DEF WriteFails, MapInv, Honest
  <2>. QED
    BY <2>2, <2>3, <2>4 DEF MapInv
<1>15. ASSUME NEW machine \in BOOLEAN, Dies(machine) PROVE MapInv'
  <2>1. Calm
    BY <1>15 DEF Dies, Calm, Live, Empty, TypeOK, Active
  <2>2. (file' # None => Honest(file)') /\ (legacy' # None => Honest(legacy)')
    BY <1>15, <2>1, HonestKept DEF Dies, diskVars, MapInv, Honest
  <2>3. Honest(jobs)'
    BY <1>15 DEF Dies, Empty, Honest, Interrupted
  <2>4. \A w \in Writers : persist'[w] # "write"
    BY <1>15 DEF Dies
  <2>. QED
    BY <2>2, <2>3, <2>4 DEF MapInv
<1>16. ASSUME Migrate PROVE MapInv'
  <2>1. Calm
    BY <1>16 DEF Migrate, taskVars, ghostVars, Calm, Live
  <2>2. Honest(jobs)' /\ (legacy' # None => Honest(legacy)')
    BY <1>16, <2>1, HonestKept DEF Migrate, MapInv, Honest
  <2>3. ASSUME NEW x \in Writers, persist'[x] = "write" PROVE Honest(snapshot[x])'
    BY <1>16, <2>1, <2>3, HonestKept DEF Migrate, persistVars, MapInv, Honest
  <2>4. file' # None => Honest(file)'
    <3>1. legacy \in [Ids -> Status] /\ Honest(legacy)
      BY <1>16 DEF Migrate, TypeOK, MapInv
    <3>2. Honest(Kept(legacy))
      BY <3>1, KeptHonest
    <3>3. file' = file \/ file' = Kept(legacy)
      BY <1>16 DEF Migrate
    <3>. QED
      BY <2>1, <3>2, <3>3, HonestKept DEF MapInv, Honest
  <2>. QED
    BY <2>2, <2>3, <2>4 DEF MapInv
<1>17. ASSUME Migrated PROVE MapInv'
  <2>1. phase # "up" /\ legacy \in [Ids -> Status] /\ Honest(legacy) /\ StartWith(legacy)
    BY <1>17, NoneAssumption DEF Migrated, Held, MapInv
  <2>2. rebooted' = rebooted /\ (legacy' = legacy \/ legacy' = None)
    BY <1>17 DEF Migrated, StartWith
  <2>. QED
    BY <2>1, <2>2, StartWithMaps
<1>18. ASSUME Load PROVE MapInv'
  <2>1. PICK m \in [Ids -> Status] : Honest(m) /\ StartWith(m)
    <3>1. Empty \in [Ids -> Status] /\ Honest(Empty)
      BY DEF Empty, Status, Honest, Interrupted
    <3>2. file # None => file \in [Ids -> Status] /\ Honest(file)
      BY DEF TypeOK, MapInv
    <3>. QED
      BY <1>18, <3>1, <3>2 DEF Load
  <2>2. phase # "up" /\ rebooted' = rebooted /\ legacy' = legacy
    BY <1>18 DEF Load, StartWith
  <2>. QED
    BY <2>1, <2>2, StartWithMaps
<1>19. ASSUME UNCHANGED vars PROVE MapInv'
  <2>1. Calm /\ Tame
    BY <1>19 DEF vars, taskVars, ghostVars, Calm, Tame, Live
  <2>. QED
    BY <1>19, <2>1, LifecycleMaps DEF vars, persistVars, diskVars
<1>. QED
  BY <1>1, <1>2, <1>3, <1>4, <1>5, <1>6, <1>7, <1>8, <1>9, <1>10, <1>11,
     <1>12, <1>13, <1>14, <1>15, <1>16, <1>17, <1>18, <1>19 DEF Next

-----------------------------------------------------------------------------
(* Creation *)

\* A new job is one more.
LEMMA InsertCreated ==
    ASSUME NEW j \in Ids, NEW o, TypeOK, CreatedInv, Insert(j, o)
    PROVE  IsFiniteSet({k \in Ids : created'[k] # 0})
<1>. DEFINE S == {k \in Ids : created[k] # 0}
            T == {k \in Ids : created'[k] # 0}
<1>1. T \subseteq S \cup {j}
  BY DEF Insert, TypeOK
<1>2. IsFiniteSet(S \cup {j})
  BY FS_AddElement DEF CreatedInv
<1>3. IsFiniteSet(T)
  BY <1>1, <1>2, FS_Subset
<1>. QED
  BY <1>3

\* created_at belongs to finitely many jobs after every step.
LEMMA CreatedKept == TypeOK /\ Held /\ CreatedInv /\ [Next]_vars => CreatedInv'
<1>. SUFFICES ASSUME TypeOK /\ Held /\ CreatedInv, [Next]_vars PROVE CreatedInv'
  OBVIOUS
<1>1. ASSUME NEW j \in JobIds, NEW o \in Ops, Admit(j, o) PROVE CreatedInv'
  <2>1. IsFiniteSet({k \in Ids : created'[k] # 0})
    BY <1>1, InsertCreated DEF Admit, Ids
  <2>. QED
    BY <1>1, <2>1 DEF Admit, Insert, CreatedInv, TypeOK
<1>2. ASSUME NEW j \in JobIds, Start(j) PROVE CreatedInv'
  BY <1>2
  DEF Start, At, Calls, diskVars, procVars, ghostVars, CreatedInv, TypeOK
<1>3. ASSUME NEW j \in JobIds, MutationExits(j) PROVE CreatedInv'
  BY <1>3
  DEF MutationExits, At, persistVars, diskVars, procVars, ghostVars,
      CreatedInv, TypeOK
<1>4. ASSUME NEW j \in JobIds, NEW s \in {"Completed", "Failed"}, Finish(j, s)
      PROVE  CreatedInv'
  BY <1>4
  DEF Finish, At, Calls, diskVars, procVars, ghostVars, CreatedInv, TypeOK
<1>5. ASSUME NEW j \in JobIds, DeleteTrackingJob(j) PROVE CreatedInv'
  BY <1>5
  DEF DeleteTrackingJob, At, Calls, persistVars, diskVars, procVars,
      CreatedInv, TypeOK
<1>6. ASSUME NEW t \in JobIds, SetJobRebooting(t) PROVE CreatedInv'
  BY <1>6
  DEF SetJobRebooting, At, Calls, persistVars, diskVars, procVars, ghostVars,
      CreatedInv, TypeOK
<1>7. ASSUME NEW r \in RebootIds, NEW t \in JobIds \cup {r}, ReserveReboot(t, r)
      PROVE  CreatedInv'
  <2>1. IsFiniteSet({k \in Ids : created'[k] # 0})
    BY <1>7, InsertCreated DEF ReserveReboot, Ids
  <2>. QED
    BY <1>7, <2>1 DEF ReserveReboot, Insert, CreatedInv, TypeOK, Ids
<1>8. ASSUME NEW t \in JobIds \cup RebootIds, BeginRebootExecution(t)
      PROVE  CreatedInv'
  BY <1>8
  DEF BeginRebootExecution, At, Calls, diskVars, procVars, ghostVars,
      CreatedInv, TypeOK
<1>9. ASSUME NEW t \in JobIds \cup RebootIds, RebootCommandOk(t) PROVE CreatedInv'
  BY <1>9
  DEF RebootCommandOk, At, Calls, persistVars, diskVars, procVars, ghostVars,
      CreatedInv, TypeOK
<1>10. ASSUME NEW t \in JobIds \cup RebootIds, RebootCommandErr(t)
       PROVE  CreatedInv'
  BY <1>10
  DEF RebootCommandErr, At, Calls, diskVars, procVars, ghostVars, CreatedInv,
      TypeOK
<1>11. ASSUME NEW j \in Ids, DeleteJob(j) PROVE CreatedInv'
  BY <1>11
  DEF DeleteJob, Calls, taskVars, diskVars, procVars, CreatedInv, TypeOK
<1>12. ASSUME NEW w \in Writers, Snapshot(w) PROVE CreatedInv'
  BY <1>12
  DEF Snapshot, taskVars, diskVars, procVars, ghostVars, CreatedInv, TypeOK
<1>13. ASSUME NEW w \in Writers, Rename(w) PROVE CreatedInv'
  BY <1>13 DEF Rename, Returns, taskVars, CreatedInv, TypeOK
<1>14. ASSUME NEW w \in Writers, WriteFails(w) PROVE CreatedInv'
  BY <1>14 DEF WriteFails, Returns, Fails, taskVars, CreatedInv, TypeOK
<1>15. ASSUME NEW machine \in BOOLEAN, Dies(machine) PROVE CreatedInv'
  BY <1>15 DEF Dies, diskVars, CreatedInv, TypeOK
<1>16. ASSUME Migrate PROVE CreatedInv'
  BY <1>16
  DEF Migrate, Fails, taskVars, persistVars, ghostVars, CreatedInv, TypeOK
<1>17. ASSUME Migrated PROVE CreatedInv'
  <2>1. pc' = pc /\ created' = created
    BY <1>17 DEF Migrated, StartWith, taskVars
  <2>. QED
    BY <2>1 DEF CreatedInv
<1>18. ASSUME Load PROVE CreatedInv'
  <2>1. pc' = pc /\ created' = created
    BY <1>18 DEF Load, StartWith, taskVars
  <2>. QED
    BY <2>1 DEF CreatedInv
<1>19. ASSUME UNCHANGED vars PROVE CreatedInv'
  BY <1>19
  DEF vars, taskVars, persistVars, diskVars, procVars, ghostVars, CreatedInv,
      TypeOK
<1>. QED
  BY <1>1, <1>2, <1>3, <1>4, <1>5, <1>6, <1>7, <1>8, <1>9, <1>10, <1>11,
     <1>12, <1>13, <1>14, <1>15, <1>16, <1>17, <1>18, <1>19 DEF Next

\* The jobs created after j are finitely many ...
LEMMA NewerFinite ==
    ASSUME NEW j \in Ids, TypeOK, CreatedInv
    PROVE  /\ IsFiniteSet({k \in Ids : created[k] > created[j]})
           /\ Newer(j) \in Nat
<1>1. {k \in Ids : created[k] > created[j]} \subseteq {k \in Ids : created[k] # 0}
  BY DEF TypeOK
<1>2. IsFiniteSet({k \in Ids : created[k] > created[j]})
  BY <1>1, FS_Subset DEF CreatedInv
<1>. QED
  BY <1>2, FS_CardinalityType DEF Newer

\* ... and a job that is created later makes them no fewer.
LEMMA NewerGrows ==
    ASSUME NEW j \in Ids, NEW k \in Ids, NEW o, j # k, pc[k] = "idle",
           TypeOK, CreatedInv, TypeOK', CreatedInv', Insert(k, o)
    PROVE  Newer(j)' >= Newer(j)
<1>. DEFINE S == {x \in Ids : created[x] > created[j]}
            T == {x \in Ids : created'[x] > created'[j]}
<1>1. created[k] = 0 /\ created'[j] = created[j]
      /\ \A x \in Ids \ {k} : created'[x] = created[x]
  BY DEF CreatedInv, Insert, TypeOK
<1>2. S \subseteq T
  BY <1>1 DEF TypeOK
<1>3. IsFiniteSet(T)
  <2>1. T \subseteq {x \in Ids : created'[x] # 0}
    BY DEF TypeOK
  <2>2. IsFiniteSet({x \in Ids : created'[x] # 0})
    BY DEF CreatedInv
  <2>. QED
    BY <2>1, <2>2, FS_Subset
<1>4. Cardinality(S) <= Cardinality(T) /\ Cardinality(S) \in Nat /\ Cardinality(T) \in Nat
  BY <1>2, <1>3, FS_Subset, FS_CardinalityType
<1>5. Newer(j) = Cardinality(S) /\ Newer(j)' = Cardinality(T)
  BY DEF Newer
<1>. HIDE DEF S, T
<1>. QED
  BY <1>4, <1>5

-----------------------------------------------------------------------------
(* Writers *)

\* With one call in flight no second one enters its write.
LEMMA WritersKept ==
    MaxInFlight = 1 /\ TypeOK /\ WritersInv /\ [Next]_vars
       => WritersInv'
<1>. SUFFICES ASSUME MaxInFlight = 1 /\ TypeOK /\ WritersInv, [Next]_vars
              PROVE  WritersInv'
  OBVIOUS
<1>1. ASSUME NEW j \in JobIds, NEW o \in Ops, Admit(j, o) PROVE WritersInv'
  BY <1>1, HistoryAssumption
  DEF Admit, At, Insert, persistVars, diskVars, procVars, ghostVars,
      WritersInv, TypeOK, Writers, Ids
<1>2. ASSUME NEW j \in JobIds, Start(j) PROVE WritersInv'
  BY <1>2, HistoryAssumption
  DEF Start, At, Calls, diskVars, procVars, ghostVars, WritersInv, TypeOK,
      Writers, Ids
<1>3. ASSUME NEW j \in JobIds, MutationExits(j) PROVE WritersInv'
  BY <1>3, HistoryAssumption
  DEF MutationExits, At, persistVars, diskVars, procVars, ghostVars,
      WritersInv, TypeOK, Writers, Ids
<1>4. ASSUME NEW j \in JobIds, NEW s \in {"Completed", "Failed"}, Finish(j, s)
      PROVE  WritersInv'
  BY <1>4, HistoryAssumption
  DEF Finish, At, Calls, diskVars, procVars, ghostVars, WritersInv, TypeOK,
      Writers, Ids
<1>5. ASSUME NEW j \in JobIds, DeleteTrackingJob(j) PROVE WritersInv'
  BY <1>5, HistoryAssumption
  DEF DeleteTrackingJob, At, Calls, persistVars, diskVars, procVars,
      WritersInv, TypeOK, Writers, Ids
<1>6. ASSUME NEW t \in JobIds, SetJobRebooting(t) PROVE WritersInv'
  BY <1>6, HistoryAssumption
  DEF SetJobRebooting, At, Calls, persistVars, diskVars, procVars, ghostVars,
      WritersInv, TypeOK, Writers, Ids
<1>7. ASSUME NEW r \in RebootIds, NEW t \in JobIds \cup {r}, ReserveReboot(t, r)
      PROVE  WritersInv'
  BY <1>7, HistoryAssumption
  DEF ReserveReboot, At, Calls, Insert, diskVars, procVars, ghostVars,
      WritersInv, TypeOK, Writers, Ids
<1>8. ASSUME NEW t \in JobIds \cup RebootIds, BeginRebootExecution(t)
      PROVE  WritersInv'
  BY <1>8, HistoryAssumption
  DEF BeginRebootExecution, At, Calls, diskVars, procVars, ghostVars,
      WritersInv, TypeOK, Writers, Ids
<1>9. ASSUME NEW t \in JobIds \cup RebootIds, RebootCommandOk(t) PROVE WritersInv'
  BY <1>9, HistoryAssumption
  DEF RebootCommandOk, At, Calls, persistVars, diskVars, procVars, ghostVars,
      WritersInv, TypeOK, Writers, Ids
<1>10. ASSUME NEW t \in JobIds \cup RebootIds, RebootCommandErr(t)
       PROVE  WritersInv'
  BY <1>10, HistoryAssumption
  DEF RebootCommandErr, At, Calls, diskVars, procVars, ghostVars, WritersInv,
      TypeOK, Writers, Ids
<1>11. ASSUME NEW j \in Ids, DeleteJob(j) PROVE WritersInv'
  BY <1>11, HistoryAssumption
  DEF DeleteJob, Calls, taskVars, diskVars, procVars, WritersInv, TypeOK,
      Writers, Ids
<1>12. ASSUME NEW w \in Writers, Snapshot(w) PROVE WritersInv'
  <2>1. \A x \in Writers : persist[x] # "write"
    <3>. DEFINE S == {x \in Writers : persist[x] = "write"}
    <3>1. ASSUME NEW x \in Writers, persist[x] = "write" PROVE FALSE
      <4>1. S = {x}
        BY <3>1 DEF WritersInv
      <4>2. Cardinality(S) = 1
        BY <4>1, FS_Singleton
      <4>. QED
        BY <1>12, <4>2 DEF Snapshot
    <3>. QED
      BY <3>1
  <2>. QED
    BY <1>12, <2>1 DEF Snapshot, WritersInv, TypeOK, procVars
<1>13. ASSUME NEW w \in Writers, Rename(w) PROVE WritersInv'
  BY <1>13, HistoryAssumption
  DEF Rename, Returns, taskVars, WritersInv, TypeOK, Writers, Ids
<1>14. ASSUME NEW w \in Writers, WriteFails(w) PROVE WritersInv'
  BY <1>14, HistoryAssumption
  DEF WriteFails, Returns, Fails, taskVars, WritersInv, TypeOK, Writers, Ids
<1>15. ASSUME NEW machine \in BOOLEAN, Dies(machine) PROVE WritersInv'
  BY <1>15, HistoryAssumption
  DEF Dies, diskVars, WritersInv, TypeOK, Writers, Ids
<1>16. ASSUME Migrate PROVE WritersInv'
  BY <1>16, HistoryAssumption
  DEF Migrate, Fails, taskVars, persistVars, ghostVars, WritersInv, TypeOK,
      Writers, Ids
<1>17. ASSUME Migrated PROVE WritersInv'
  BY <1>17, HistoryAssumption
  DEF Migrated, StartWith, Fails, Calls, taskVars, persistVars, WritersInv,
      TypeOK, Writers, Ids
<1>18. ASSUME Load PROVE WritersInv'
  BY <1>18, HistoryAssumption
  DEF Load, StartWith, Fails, Calls, taskVars, persistVars, WritersInv,
      TypeOK, Writers, Ids
<1>19. ASSUME UNCHANGED vars PROVE WritersInv'
  BY <1>19, HistoryAssumption
  DEF vars, taskVars, persistVars, diskVars, procVars, ghostVars, WritersInv,
      TypeOK, Writers, Ids
<1>. QED
  BY <1>1, <1>2, <1>3, <1>4, <1>5, <1>6, <1>7, <1>8, <1>9, <1>10, <1>11,
     <1>12, <1>13, <1>14, <1>15, <1>16, <1>17, <1>18, <1>19 DEF Next

-----------------------------------------------------------------------------
(* Promises and tasks *)

\* Promises and deletions agree with the tasks after every step.
LEMMA MarksKept ==
    HistoryInv /\ WritersInv /\ MarksInv /\ [Next]_vars
       => MarksInv'
<1>. SUFFICES ASSUME HistoryInv /\ WritersInv /\ MarksInv, [Next]_vars
              PROVE  MarksInv'
  OBVIOUS
<1>1. ASSUME NEW j \in JobIds, NEW o \in Ops, Admit(j, o) PROVE MarksInv'
  BY <1>1, HistoryAssumption
  DEF Admit, At, Insert, persistVars, diskVars, procVars, ghostVars,
      HistoryInv, MarksInv, TypeOK, Ids, Active, Terminal, Interrupted
<1>2. ASSUME NEW j \in JobIds, Start(j) PROVE MarksInv'
  BY <1>2, HistoryAssumption
  DEF Start, At, Calls, diskVars, procVars, ghostVars, HistoryInv, MarksInv,
      TypeOK, Ids, Active, Terminal, Interrupted
<1>3. ASSUME NEW j \in JobIds, MutationExits(j) PROVE MarksInv'
  BY <1>3, HistoryAssumption
  DEF MutationExits, At, persistVars, diskVars, procVars, ghostVars,
      HistoryInv, MarksInv, TypeOK, Ids, Active, Terminal, Interrupted
<1>4. ASSUME NEW j \in JobIds, NEW s \in {"Completed", "Failed"}, Finish(j, s)
      PROVE  MarksInv'
  BY <1>4, HistoryAssumption
  DEF Finish, At, Calls, diskVars, procVars, ghostVars, HistoryInv, MarksInv,
      TypeOK, Ids, Active, Terminal, Interrupted
<1>5. ASSUME NEW j \in JobIds, DeleteTrackingJob(j) PROVE MarksInv'
  BY <1>5, HistoryAssumption
  DEF DeleteTrackingJob, At, Calls, persistVars, diskVars, procVars,
      HistoryInv, MarksInv, TypeOK, Ids, Active, Terminal, Interrupted
<1>6. ASSUME NEW t \in JobIds, SetJobRebooting(t) PROVE MarksInv'
  BY <1>6, HistoryAssumption
  DEF SetJobRebooting, At, Calls, persistVars, diskVars, procVars, ghostVars,
      HistoryInv, MarksInv, TypeOK, Ids, Active, Terminal, Interrupted
<1>7. ASSUME NEW r \in RebootIds, NEW t \in JobIds \cup {r}, ReserveReboot(t, r)
      PROVE  MarksInv'
  BY <1>7, HistoryAssumption
  DEF ReserveReboot, At, Calls, Insert, diskVars, procVars, ghostVars,
      HistoryInv, MarksInv, TypeOK, Ids, Active, Terminal, Interrupted
<1>8. ASSUME NEW t \in JobIds \cup RebootIds, BeginRebootExecution(t)
      PROVE  MarksInv'
  <2>1. Owner(t)
    BY <1>8 DEF BeginRebootExecution, At, Owner
  <2>2. jobs[rebootJob[t]] \in Active
    BY <2>1 DEF HistoryInv, OwnerInv, Ids
  <2>3. deleting # None => jobs'[deleting] = "Absent" /\ pc'[deleting] # "idle"
    BY <1>8, <2>2 DEF BeginRebootExecution, HistoryInv, TypeOK, MarksInv, Active
  <2>4. promised' = promised /\ file' = file /\ phase' = phase /\ deleting' = deleting
        /\ pc' = [pc EXCEPT ![t] = "rebootCmd"] /\ pc[t] = "begin"
    BY <1>8 DEF BeginRebootExecution, At, ghostVars, diskVars, procVars
  <2>. QED
    BY <2>3, <2>4 DEF HistoryInv, TypeOK, MarksInv
<1>9. ASSUME NEW t \in JobIds \cup RebootIds, RebootCommandOk(t) PROVE MarksInv'
  BY <1>9, HistoryAssumption
  DEF RebootCommandOk, At, Calls, persistVars, diskVars, procVars, ghostVars,
      HistoryInv, MarksInv, TypeOK, Ids, Active, Terminal, Interrupted
<1>10. ASSUME NEW t \in JobIds \cup RebootIds, RebootCommandErr(t) PROVE MarksInv'
  <2>1. Owner(t)
    BY <1>10 DEF RebootCommandErr, At, Owner
  <2>2. jobs[rebootJob[t]] \in Active
    BY <2>1 DEF HistoryInv, OwnerInv, Ids
  <2>3. deleting # None => jobs'[deleting] = "Absent" /\ pc'[deleting] # "idle"
    BY <1>10, <2>2 DEF RebootCommandErr, HistoryInv, TypeOK, MarksInv, Active
  <2>4. promised' = promised /\ file' = file /\ phase' = phase /\ deleting' = deleting
        /\ pc' = [pc EXCEPT ![t] = IF t \in RebootIds THEN "ended" ELSE "rolledBack"]
        /\ pc[t] = "rebootCmd"
    BY <1>10 DEF RebootCommandErr, At, ghostVars, diskVars, procVars
  <2>. QED
    BY <2>3, <2>4 DEF HistoryInv, TypeOK, MarksInv
<1>11. ASSUME NEW j \in Ids, DeleteJob(j) PROVE MarksInv'
  <2>1. pc[j] # "idle" /\ jobs'[j] = "Absent" /\ deleting' = j
    BY <1>11
    DEF DeleteJob, HistoryInv, MapInv, Honest, TypeOK, Terminal, Interrupted
  <2>2. promised' = [promised EXCEPT ![j] = "none"] /\ pc' = pc /\ file' = file
        /\ phase' = phase /\ phase = "up"
    BY <1>11 DEF DeleteJob, taskVars, diskVars, procVars
  <2>. QED
    BY <2>1, <2>2 DEF HistoryInv, TypeOK, MarksInv, Terminal, Interrupted
<1>12. ASSUME NEW w \in Writers, Snapshot(w) PROVE MarksInv'
  BY <1>12, HistoryAssumption
  DEF Snapshot, taskVars, diskVars, procVars, ghostVars, HistoryInv, MarksInv,
      TypeOK, Ids, Active, Terminal, Interrupted
<1>13. ASSUME NEW w \in Writers, Rename(w) PROVE MarksInv'
  <2>1. phase \in {"up", "flush"} /\ file' # None /\ phase' \in {"up", phase}
    <3>1. phase \in {"up", "flush"}
      BY <1>13 DEF Rename, WritersInv, HistoryInv, TypeOK
    <3>2. file' \in [Ids -> Status]
      BY <1>13, KeptType DEF Rename, HistoryInv, Held
    <3>. QED
      BY <1>13, <3>1, <3>2, NoneAssumption DEF Rename, Returns
  <2>2. pc' = pc /\ jobs' = jobs /\ (deleting' = deleting \/ deleting' = None)
    BY <1>13 DEF Rename, Returns, taskVars
  <2>3. ASSUME NEW j \in Ids
        PROVE  /\ promised'[j] \in Terminal => pc[j] \in {"ended", "delete", "done"}
               /\ promised'[j] # "none" => pc[j] # "idle"
    <3>1. promised'[j] =
             IF \/ w = j /\ pc[j] \in {"ended", "delete"} /\ jobs[j] \in Terminal
                \/ w = "main" /\ jobs[j] \in Terminal
             THEN jobs[j]
             ELSE IF w = "client" /\ deleting = j THEN "Deleted" ELSE promised[j]
      BY <1>13 DEF Rename, Promise
    <3>2. CASE w = j /\ pc[j] \in {"ended", "delete"} /\ jobs[j] \in Terminal
      BY <3>2
    <3>3. CASE w = "main" /\ jobs[j] \in Terminal
      <4>1. phase = "flush"
        BY <1>13, <3>3 DEF Rename, WritersInv
      <4>2. pc[j] = "done"
        BY <3>3, <4>1
        DEF HistoryInv, DownInv, MapInv, Honest, Terminal, Interrupted
      <4>. QED
        BY <4>2
    <3>4. CASE w = "client" /\ deleting = j
      <4>1. deleting # None
        BY <3>4, HistoryAssumption
      <4>2. jobs[j] = "Absent" /\ pc[j] # "idle"
        BY <3>4, <4>1 DEF MarksInv
      <4>3. promised'[j] = "Deleted"
        BY <3>1, <3>4, <4>2, HistoryAssumption DEF Terminal, Interrupted
      <4>. QED
        BY <4>2, <4>3 DEF Terminal, Interrupted
    <3>5. CASE promised'[j] = promised[j]
      BY <3>5 DEF MarksInv
    <3>. QED
      BY <3>1, <3>2, <3>3, <3>4, <3>5
  <2>. QED
    BY <2>1, <2>2, <2>3 DEF MarksInv
<1>14. ASSUME NEW w \in Writers, WriteFails(w) PROVE MarksInv'
  BY <1>14, HistoryAssumption
  DEF WriteFails, Returns, Fails, taskVars, HistoryInv, MarksInv, TypeOK, Ids,
      Active, Terminal, Interrupted
<1>15. ASSUME NEW machine \in BOOLEAN, Dies(machine) PROVE MarksInv'
  BY <1>15, HistoryAssumption
  DEF Dies, diskVars, HistoryInv, MarksInv, TypeOK, Ids, Active, Terminal,
      Interrupted
<1>16. ASSUME Migrate PROVE MarksInv'
  BY <1>16, HistoryAssumption
  DEF Migrate, Fails, taskVars, persistVars, ghostVars, HistoryInv, MarksInv,
      TypeOK, Ids, Active, Terminal, Interrupted
<1>17. ASSUME Migrated PROVE MarksInv'
  <2>1. pc' = pc /\ file' = file /\ deleting' = deleting /\ promised' = promised
        /\ phase' \in {"flush", "up"}
    BY <1>17 DEF Migrated, StartWith, taskVars
  <2>2. deleting = None
    BY <1>17 DEF Migrated, MarksInv
  <2>3. \A j \in Ids : promised[j] = "none"
    BY <1>17 DEF Migrated, MarksInv
  <2>. QED
    BY <2>1, <2>2, <2>3 DEF MarksInv, Terminal, Interrupted
<1>18. ASSUME Load PROVE MarksInv'
  <2>1. pc' = pc /\ file' = file /\ deleting' = deleting /\ phase' \in {"flush", "up"}
    BY <1>18 DEF Load, StartWith, taskVars
  <2>2. deleting = None
    BY <1>18 DEF Load, MarksInv
  <2>3. \A j \in Ids : promised'[j] = promised[j] \/ promised'[j] = "none"
    BY <1>18 DEF Load
  <2>. QED
    BY <2>1, <2>2, <2>3 DEF MarksInv, Terminal, Interrupted
<1>19. ASSUME UNCHANGED vars PROVE MarksInv'
  BY <1>19, HistoryAssumption
  DEF vars, taskVars, persistVars, diskVars, procVars, ghostVars, HistoryInv,
      MarksInv, TypeOK, Ids, Active, Terminal, Interrupted
<1>. QED
  BY <1>1, <1>2, <1>3, <1>4, <1>5, <1>6, <1>7, <1>8, <1>9, <1>10, <1>11,
     <1>12, <1>13, <1>14, <1>15, <1>16, <1>17, <1>18, <1>19 DEF Next

-----------------------------------------------------------------------------
(* What a snapshot covers *)

\* A snapshot goes on covering what its call will promise.
LEMMA CoveredKept ==
    HistoryInv /\ WritersInv /\ MarksInv /\ CoveredInv /\ [Next]_vars
       => CoveredInv'
<1>. SUFFICES ASSUME HistoryInv /\ WritersInv /\ MarksInv /\ CoveredInv,
                     [Next]_vars
              PROVE  CoveredInv'
  OBVIOUS
<1>1. ASSUME NEW j \in JobIds, NEW o \in Ops, Admit(j, o) PROVE CoveredInv'
  BY <1>1, HistoryAssumption
  DEF Admit, At, Insert, persistVars, diskVars, procVars, ghostVars,
      HistoryInv, ActiveInv, WritersInv, CoveredInv, TypeOK, Ids, Writers,
      Active, Terminal, Interrupted
<1>2. ASSUME NEW j \in JobIds, Start(j) PROVE CoveredInv'
  BY <1>2, HistoryAssumption
  DEF Start, At, Calls, diskVars, procVars, ghostVars, HistoryInv, ActiveInv,
      WritersInv, CoveredInv, TypeOK, Ids, Writers, Active, Terminal,
      Interrupted
<1>3. ASSUME NEW j \in JobIds, MutationExits(j) PROVE CoveredInv'
  BY <1>3, HistoryAssumption
  DEF MutationExits, At, persistVars, diskVars, procVars, ghostVars,
      HistoryInv, ActiveInv, WritersInv, CoveredInv, TypeOK, Ids, Writers,
      Active, Terminal, Interrupted
<1>4. ASSUME NEW j \in JobIds, NEW s \in {"Completed", "Failed"}, Finish(j, s)
      PROVE  CoveredInv'
  BY <1>4, HistoryAssumption
  DEF Finish, At, Calls, diskVars, procVars, ghostVars, HistoryInv, ActiveInv,
      WritersInv, CoveredInv, TypeOK, Ids, Writers, Active, Terminal,
      Interrupted
<1>5. ASSUME NEW j \in JobIds, DeleteTrackingJob(j) PROVE CoveredInv'
  BY <1>5, HistoryAssumption
  DEF DeleteTrackingJob, At, Calls, persistVars, diskVars, procVars,
      HistoryInv, ActiveInv, WritersInv, CoveredInv, TypeOK, Ids, Writers,
      Active, Terminal, Interrupted
<1>6. ASSUME NEW t \in JobIds, SetJobRebooting(t) PROVE CoveredInv'
  BY <1>6, HistoryAssumption
  DEF SetJobRebooting, At, Calls, persistVars, diskVars, procVars, ghostVars,
      HistoryInv, ActiveInv, WritersInv, CoveredInv, TypeOK, Ids, Writers,
      Active, Terminal, Interrupted
<1>7. ASSUME NEW r \in RebootIds, NEW t \in JobIds \cup {r}, ReserveReboot(t, r)
      PROVE  CoveredInv'
  BY <1>7, HistoryAssumption
  DEF ReserveReboot, At, Calls, Insert, diskVars, procVars, ghostVars,
      HistoryInv, ActiveInv, WritersInv, CoveredInv, TypeOK, Ids, Writers,
      Active, Terminal, Interrupted
<1>8. ASSUME NEW t \in JobIds \cup RebootIds, BeginRebootExecution(t)
      PROVE  CoveredInv'
  BY <1>8, HistoryAssumption
  DEF BeginRebootExecution, At, Calls, diskVars, procVars, ghostVars,
      HistoryInv, ActiveInv, WritersInv, CoveredInv, TypeOK, Ids, Writers,
      Active, Terminal, Interrupted
<1>9. ASSUME NEW t \in JobIds \cup RebootIds, RebootCommandOk(t) PROVE CoveredInv'
  BY <1>9, HistoryAssumption
  DEF RebootCommandOk, At, Calls, persistVars, diskVars, procVars, ghostVars,
      HistoryInv, ActiveInv, WritersInv, CoveredInv, TypeOK, Ids, Writers,
      Active, Terminal, Interrupted
<1>10. ASSUME NEW t \in JobIds \cup RebootIds, RebootCommandErr(t)
       PROVE  CoveredInv'
  <2>1. Owner(t) /\ persist[t] = "idle" /\ phase = "up"
    BY <1>10 DEF RebootCommandErr, At, Owner
  <2>2. /\ jobs' = [jobs EXCEPT ![rebootJob[t]] = "Failed"] /\ deleting' = deleting
        /\ pc' = [pc EXCEPT ![t] = IF t \in RebootIds THEN "ended" ELSE "rolledBack"]
        /\ persist' = [persist EXCEPT ![t] = "called"] /\ snapshot' = snapshot
    BY <1>10 DEF RebootCommandErr, Calls
  <2>3. ASSUME NEW w \in Writers, persist'[w] = "write"
        PROVE  /\ persist[w] = "write" /\ w # t /\ w # "main"
               /\ w \in Ids => pc'[w] = pc[w]
               /\ w \in Ids /\ pc[w] \in {"ended", "delete"} => jobs'[w] = jobs[w]
    <3>1. persist[w] = "write" /\ w # t
      BY <2>1, <2>2, <2>3 DEF HistoryInv, TypeOK, Writers, Ids
    <3>2. w # "main"
      BY <2>1, <3>1 DEF WritersInv
    <3>. QED
      BY <2>1, <2>2, <3>1, <3>2, OwnerFacts DEF HistoryInv, TypeOK
  <2>. QED
    BY <2>2, <2>3 DEF CoveredInv
<1>11. ASSUME NEW j \in Ids, DeleteJob(j) PROVE CoveredInv'
  BY <1>11, HistoryAssumption
  DEF DeleteJob, Calls, taskVars, diskVars, procVars, HistoryInv, ActiveInv,
      WritersInv, CoveredInv, TypeOK, Ids, Writers, Active, Terminal,
      Interrupted
<1>12. ASSUME NEW w \in Writers, Snapshot(w) PROVE CoveredInv'
  <2>1. /\ snapshot' = [snapshot EXCEPT ![w] = jobs] /\ persist' = [persist EXCEPT ![w] = "write"]
        /\ jobs' = jobs /\ pc' = pc /\ deleting' = deleting
    BY <1>12 DEF Snapshot, taskVars
  <2>2. ASSUME NEW x \in Writers, x # w, persist'[x] = "write"
        PROVE  persist[x] = "write" /\ snapshot'[x] = snapshot[x]
    BY <2>1, <2>2 DEF HistoryInv, TypeOK
  <2>3. snapshot'[w] = jobs
    BY <2>1 DEF HistoryInv, TypeOK
  <2>4. deleting # None => jobs[deleting] = "Absent"
    BY DEF MarksInv
  <2>. QED
    BY <2>1, <2>2, <2>3, <2>4 DEF CoveredInv
<1>13. ASSUME NEW w \in Writers, Rename(w) PROVE CoveredInv'
  BY <1>13, HistoryAssumption
  DEF Rename, Returns, taskVars, HistoryInv, ActiveInv, WritersInv,
      CoveredInv, TypeOK, Ids, Writers, Active, Terminal, Interrupted
<1>14. ASSUME NEW w \in Writers, WriteFails(w) PROVE CoveredInv'
  BY <1>14, HistoryAssumption
  DEF WriteFails, Returns, Fails, taskVars, HistoryInv, ActiveInv, WritersInv,
      CoveredInv, TypeOK, Ids, Writers, Active, Terminal, Interrupted
<1>15. ASSUME NEW machine \in BOOLEAN, Dies(machine) PROVE CoveredInv'
  BY <1>15, HistoryAssumption
  DEF Dies, diskVars, HistoryInv, ActiveInv, WritersInv, CoveredInv, TypeOK,
      Ids, Writers, Active, Terminal, Interrupted
<1>16. ASSUME Migrate PROVE CoveredInv'
  BY <1>16, HistoryAssumption
  DEF Migrate, Fails, taskVars, persistVars, ghostVars, HistoryInv, ActiveInv,
      WritersInv, CoveredInv, TypeOK, Ids, Writers, Active, Terminal,
      Interrupted
<1>17. ASSUME Migrated PROVE CoveredInv'
  BY <1>17, HistoryAssumption
  DEF Migrated, StartWith, Fails, Calls, taskVars, persistVars, HistoryInv,
      ActiveInv, WritersInv, CoveredInv, TypeOK, Ids, Writers, Active,
      Terminal, Interrupted
<1>18. ASSUME Load PROVE CoveredInv'
  BY <1>18, HistoryAssumption
  DEF Load, StartWith, Fails, Calls, taskVars, persistVars, HistoryInv,
      ActiveInv, WritersInv, CoveredInv, TypeOK, Ids, Writers, Active,
      Terminal, Interrupted
<1>19. ASSUME UNCHANGED vars PROVE CoveredInv'
  BY <1>19, HistoryAssumption
  DEF vars, taskVars, persistVars, diskVars, procVars, ghostVars, HistoryInv,
      ActiveInv, WritersInv, CoveredInv, TypeOK, Ids, Writers, Active,
      Terminal, Interrupted
<1>. QED
  BY <1>1, <1>2, <1>3, <1>4, <1>5, <1>6, <1>7, <1>8, <1>9, <1>10, <1>11,
     <1>12, <1>13, <1>14, <1>15, <1>16, <1>17, <1>18, <1>19 DEF Next

-----------------------------------------------------------------------------
(* Keeping promises *)

\* A step that promises nothing new and leaves no promised job with fewer
\* newer ones.
Milder ==
    \A j \in Ids :
        /\ promised'[j] = promised[j] \/ promised'[j] = "none"
        /\ promised[j] \in Terminal => Newer(j)' >= Newer(j)
        /\ Newer(j) \in Nat /\ Newer(j)' \in Nat

\* A milder step leaves a map keeping the promises.
LEMMA KeepsMilder ==
    ASSUME NEW m, Keeps(m), Milder
    PROVE  Keeps(m)'
<1>. SUFFICES ASSUME NEW j \in Ids
              PROVE  /\ promised'[j] \in Terminal =>
                          \/ m[j] = promised'[j]
                          \/ m[j] = "Absent" /\ Newer(j)' >= Retention
                     /\ promised'[j] = "Deleted" => m[j] = "Absent"
  BY DEF Keeps
<1>1. CASE promised'[j] = "none"
  BY <1>1 DEF Terminal, Interrupted
<1>2. CASE promised'[j] = promised[j]
  <2>1. Newer(j) >= Retention /\ promised[j] \in Terminal => Newer(j)' >= Retention
    BY HistoryAssumption DEF Milder
  <2>. QED
    BY <1>2, <2>1 DEF Keeps
<1>. QED
  BY <1>1, <1>2 DEF Milder

\* A step that creates no job.
LEMMA MilderWithout ==
    ASSUME TypeOK, CreatedInv, created' = created,
           \A j \in Ids : promised'[j] = promised[j] \/ promised'[j] = "none"
    PROVE  Milder
<1>1. \A j \in Ids : Newer(j) \in Nat /\ Newer(j)' = Newer(j)
  BY NewerFinite DEF Newer
<1>. QED
  BY <1>1 DEF Milder

\* A step that creates one.
LEMMA MilderInsert ==
    ASSUME NEW k \in Ids, NEW o, pc[k] = "idle", Insert(k, o), promised' = promised,
           TypeOK, CreatedInv, MarksInv, TypeOK', CreatedInv'
    PROVE  Milder
<1>1. \A j \in Ids : Newer(j) \in Nat
  BY NewerFinite
<1>2. \A j \in Ids : Newer(j)' \in Nat
  <2>. SUFFICES ASSUME NEW j \in Ids PROVE Newer(j)' \in Nat
    OBVIOUS
  <2>1. {x \in Ids : created'[x] > created'[j]} \subseteq {x \in Ids : created'[x] # 0}
    BY DEF TypeOK
  <2>2. IsFiniteSet({x \in Ids : created'[x] # 0})
    BY DEF CreatedInv
  <2>3. IsFiniteSet({x \in Ids : created'[x] > created'[j]})
    BY <2>1, <2>2, FS_Subset
  <2>. QED
    BY <2>3, FS_CardinalityType DEF Newer
<1>3. ASSUME NEW j \in Ids, promised[j] \in Terminal PROVE Newer(j)' >= Newer(j)
  <2>1. j # k
    BY <1>3 DEF MarksInv, Terminal, Interrupted
  <2>. QED
    BY <2>1, NewerGrows
<1>. QED
  BY <1>1, <1>2, <1>3 DEF Milder

\* A lifecycle step: the disk and the snapshots stay, and a record changes
\* only if nothing is promised of it.
LEMMA LifecycleKeeps ==
    ASSUME KeepsInv, Milder, UNCHANGED <<file, snapshot, phase>>,
           phase = "up",
           \A w \in Writers : persist'[w] = "write" => persist[w] = "write",
           \A j \in Ids : jobs'[j] = jobs[j] \/ promised'[j] = "none"
    PROVE  KeepsInv'
<1>1. Keeps(jobs)'
  <2>1. Keeps(jobs)
    BY DEF KeepsInv
  <2>2. \A j \in Ids :
           /\ promised'[j] \in Terminal =>
                \/ jobs[j] = promised'[j]
                \/ jobs[j] = "Absent" /\ Newer(j)' >= Retention
           /\ promised'[j] = "Deleted" => jobs[j] = "Absent"
    BY <2>1, KeepsMilder DEF Keeps
  <2>. QED
    BY <2>2 DEF Keeps, Terminal, Interrupted
<1>2. file' # None => Keeps(file)'
  BY KeepsMilder DEF KeepsInv, Keeps
<1>3. ASSUME NEW w \in Writers, persist'[w] = "write" PROVE Keeps(snapshot[w])'
  <2>1. Keeps(snapshot[w]) /\ snapshot'[w] = snapshot[w]
    BY <1>3 DEF KeepsInv
  <2>. QED
    BY <2>1, KeepsMilder DEF Keeps
<1>. QED
  BY <1>1, <1>2, <1>3 DEF KeepsInv

\* The retention limit cuts off a final record only behind Retention newer
\* ones.
LEMMA KeptTerminal ==
    ASSUME NEW m \in [Ids -> Status], NEW j \in Ids, m[j] \in Terminal,
           TypeOK, CreatedInv
    PROVE  \/ Kept(m)[j] = m[j]
           \/ Kept(m)[j] = "Absent" /\ Newer(j) >= Retention
<1>. DEFINE retained == {k \in Ids : m[k] # "Absent" /\ (~IsInternal(k) \/ m[k] \in Terminal)}
            S == {k \in retained : created[k] > created[j]}
            T == {k \in Ids : created[k] > created[j]}
<1>1. j \in retained
  BY DEF Terminal, Interrupted
<1>2. Kept(m)[j] = IF Cardinality(S) < Retention THEN m[j] ELSE "Absent"
  BY <1>1 DEF Kept
<1>3. IsFiniteSet(T) /\ Newer(j) = Cardinality(T) /\ S \subseteq T
  BY NewerFinite DEF Newer
<1>. HIDE DEF S, T, retained
<1>4. Cardinality(S) \in Nat /\ Cardinality(T) \in Nat /\ Cardinality(S) <= Cardinality(T)
  BY <1>3, FS_Subset, FS_CardinalityType
<1>. QED
  BY <1>2, <1>3, <1>4, HistoryAssumption

\* Nothing is promised of an active record.
LEMMA ActiveUnpromised ==
    ASSUME HistoryInv, KeepsInv, phase = "up", NEW j \in Ids, jobs[j] \in Active
    PROVE  promised[j] = "none"
<1>1. promised[j] \in Terminal \cup {"none", "Deleted"}
  BY DEF HistoryInv, TypeOK
<1>2. Keeps(jobs)
  BY DEF KeepsInv
<1>. QED
  BY <1>1, <1>2 DEF Keeps, Terminal, Interrupted, Active

\* Nor of one whose task is under way, unless it was deleted.
LEMMA RunningUnpromised ==
    ASSUME HistoryInv, KeepsInv, MarksInv, phase = "up", NEW j \in Ids,
           pc[j] \notin {"ended", "delete", "done"}
    PROVE  jobs[j] = "Absent" \/ promised[j] = "none"
<1>1. promised[j] \in Terminal \cup {"none", "Deleted"}
  BY DEF HistoryInv, TypeOK
<1>2. Keeps(jobs)
  BY DEF KeepsInv
<1>. QED
  BY <1>1, <1>2 DEF Keeps, MarksInv

\* Every map of records goes on keeping the promises.
LEMMA KeepsKept == HistoryInv /\ PromiseInv /\ [Next]_vars => KeepsInv'
<1>. SUFFICES ASSUME HistoryInv /\ PromiseInv, [Next]_vars PROVE KeepsInv'
  OBVIOUS
<1>1. ASSUME NEW j \in JobIds, NEW o \in Ops, Admit(j, o) PROVE KeepsInv'
  <2>1. Milder
    <3>1. TypeOK' /\ CreatedInv'
      BY TypesKept, CreatedKept DEF HistoryInv, PromiseInv
    <3>2. pc[j] = "idle" /\ j \in Ids /\ Insert(j, o) /\ promised' = promised
      BY <1>1 DEF Admit, At, ghostVars, Ids
    <3>. QED
      BY <3>1, <3>2, MilderInsert DEF HistoryInv, PromiseInv
  <2>2. \A k \in Ids : jobs'[k] = jobs[k] \/ promised'[k] = "none"
    <3>1. pc[j] = "idle" /\ j \in Ids /\ phase = "up"
      BY <1>1 DEF Admit, At, Ids
    <3>2. promised[j] = "none"
      BY <3>1 DEF PromiseInv, MarksInv
    <3>. QED
      BY <1>1, <3>2 DEF Admit, ghostVars, HistoryInv, TypeOK
  <2>3. /\ UNCHANGED <<file, snapshot, phase>> /\ phase = "up"
        /\ \A w \in Writers : persist'[w] = "write" => persist[w] = "write"
    BY <1>1
    DEF Admit, At, Insert, persistVars, diskVars, procVars, HistoryInv, TypeOK
  <2>. QED
    BY <2>1, <2>2, <2>3, LifecycleKeeps DEF PromiseInv
<1>2. ASSUME NEW j \in JobIds, Start(j) PROVE KeepsInv'
  <2>1. Milder
    BY <1>2, MilderWithout
    DEF Start, At, Calls, ghostVars, HistoryInv, PromiseInv, TypeOK
  <2>2. \A k \in Ids : jobs'[k] = jobs[k] \/ promised'[k] = "none"
    <3>1. j \in Ids /\ phase = "up" /\ pc[j] \notin {"ended", "delete", "done"}
      BY <1>2 DEF Start, At, Ids
    <3>2. jobs[j] = "Absent" \/ promised[j] = "none"
      BY <3>1, RunningUnpromised DEF PromiseInv
    <3>. QED
      BY <1>2, <3>2 DEF Start, ghostVars, HistoryInv, TypeOK
  <2>3. /\ UNCHANGED <<file, snapshot, phase>> /\ phase = "up"
        /\ \A w \in Writers : persist'[w] = "write" => persist[w] = "write"
    BY <1>2
    DEF Start, At, Calls, persistVars, diskVars, procVars, HistoryInv, TypeOK
  <2>. QED
    BY <2>1, <2>2, <2>3, LifecycleKeeps DEF PromiseInv
<1>3. ASSUME NEW j \in JobIds, MutationExits(j) PROVE KeepsInv'
  <2>1. Milder
    BY <1>3, MilderWithout
    DEF MutationExits, At, ghostVars, HistoryInv, PromiseInv, TypeOK
  <2>2. \A k \in Ids : jobs'[k] = jobs[k] \/ promised'[k] = "none"
    <3>1. j \in Ids /\ phase = "up" /\ pc[j] \notin {"ended", "delete", "done"}
      BY <1>3 DEF MutationExits, At, Ids
    <3>2. jobs[j] = "Absent" \/ promised[j] = "none"
      BY <3>1, RunningUnpromised DEF PromiseInv
    <3>. QED
      BY <1>3, <3>2 DEF MutationExits, ghostVars, HistoryInv, TypeOK
  <2>3. /\ UNCHANGED <<file, snapshot, phase>> /\ phase = "up"
        /\ \A w \in Writers : persist'[w] = "write" => persist[w] = "write"
    BY <1>3
    DEF MutationExits, At, persistVars, diskVars, procVars, HistoryInv, TypeOK
  <2>. QED
    BY <2>1, <2>2, <2>3, LifecycleKeeps DEF PromiseInv
<1>4. ASSUME NEW j \in JobIds, NEW s \in {"Completed", "Failed"}, Finish(j, s)
      PROVE  KeepsInv'
  <2>1. Milder
    BY <1>4, MilderWithout
    DEF Finish, At, Calls, ghostVars, HistoryInv, PromiseInv, TypeOK
  <2>2. \A k \in Ids : jobs'[k] = jobs[k] \/ promised'[k] = "none"
    <3>1. j \in Ids /\ phase = "up" /\ pc[j] \notin {"ended", "delete", "done"}
      BY <1>4 DEF Finish, At, Ids
    <3>2. jobs[j] = "Absent" \/ promised[j] = "none"
      BY <3>1, RunningUnpromised DEF PromiseInv
    <3>. QED
      BY <1>4, <3>2 DEF Finish, ghostVars, HistoryInv, TypeOK
  <2>3. /\ UNCHANGED <<file, snapshot, phase>> /\ phase = "up"
        /\ \A w \in Writers : persist'[w] = "write" => persist[w] = "write"
    BY <1>4
    DEF Finish, At, Calls, persistVars, diskVars, procVars, HistoryInv, TypeOK
  <2>. QED
    BY <2>1, <2>2, <2>3, LifecycleKeeps DEF PromiseInv
<1>5. ASSUME NEW j \in JobIds, DeleteTrackingJob(j) PROVE KeepsInv'
  <2>1. Milder
    BY <1>5, MilderWithout
    DEF DeleteTrackingJob, At, Calls, ghostVars, HistoryInv, PromiseInv, TypeOK
  <2>2. \A k \in Ids : jobs'[k] = jobs[k] \/ promised'[k] = "none"
    BY <1>5 DEF DeleteTrackingJob, HistoryInv, TypeOK, Ids
  <2>3. /\ UNCHANGED <<file, snapshot, phase>> /\ phase = "up"
        /\ \A w \in Writers : persist'[w] = "write" => persist[w] = "write"
    BY <1>5
    DEF DeleteTrackingJob, At, Calls, persistVars, diskVars, procVars, HistoryInv,
        TypeOK
  <2>. QED
    BY <2>1, <2>2, <2>3, LifecycleKeeps DEF PromiseInv
<1>6. ASSUME NEW t \in JobIds, SetJobRebooting(t) PROVE KeepsInv'
  <2>1. Milder
    BY <1>6, MilderWithout
    DEF SetJobRebooting, At, Calls, ghostVars, HistoryInv, PromiseInv, TypeOK
  <2>2. \A k \in Ids : jobs'[k] = jobs[k] \/ promised'[k] = "none"
    <3>1. t \in Ids /\ phase = "up" /\ pc[t] \notin {"ended", "delete", "done"}
      BY <1>6 DEF SetJobRebooting, At, Ids
    <3>2. jobs[t] = "Absent" \/ promised[t] = "none"
      BY <3>1, RunningUnpromised DEF PromiseInv
    <3>. QED
      BY <1>6, <3>2 DEF SetJobRebooting, ghostVars, HistoryInv, TypeOK
  <2>3. /\ UNCHANGED <<file, snapshot, phase>> /\ phase = "up"
        /\ \A w \in Writers : persist'[w] = "write" => persist[w] = "write"
    BY <1>6
    DEF SetJobRebooting, At, Calls, persistVars, diskVars, procVars, HistoryInv,
        TypeOK
  <2>. QED
    BY <2>1, <2>2, <2>3, LifecycleKeeps DEF PromiseInv
<1>7. ASSUME NEW r \in RebootIds, NEW t \in JobIds \cup {r}, ReserveReboot(t, r)
      PROVE  KeepsInv'
  <2>1. Milder
    <3>1. TypeOK' /\ CreatedInv'
      BY TypesKept, CreatedKept DEF HistoryInv, PromiseInv
    <3>2. pc[r] = "idle" /\ r \in Ids /\ Insert(r, "Reboot") /\ promised' = promised
      BY <1>7 DEF ReserveReboot, At, ghostVars, Ids
    <3>. QED
      BY <3>1, <3>2, MilderInsert DEF HistoryInv, PromiseInv
  <2>2. \A k \in Ids : jobs'[k] = jobs[k] \/ promised'[k] = "none"
    <3>1. pc[r] = "idle" /\ r \in Ids /\ phase = "up" /\ promised' = promised
      BY <1>7 DEF ReserveReboot, At, Ids, ghostVars
    <3>2. promised[r] = "none"
      BY <3>1 DEF PromiseInv, MarksInv
    <3>3. ASSUME NEW k \in Ids, jobs[k] = "Pending" PROVE promised[k] = "none"
      BY <3>1, <3>3, ActiveUnpromised DEF PromiseInv, Active
    <3>. QED
      BY <1>7, <3>1, <3>2, <3>3 DEF ReserveReboot
  <2>3. /\ UNCHANGED <<file, snapshot, phase>> /\ phase = "up"
        /\ \A w \in Writers : persist'[w] = "write" => persist[w] = "write"
    BY <1>7
    DEF ReserveReboot, At, Calls, Insert, persistVars, diskVars, procVars,
        HistoryInv, TypeOK
  <2>. QED
    BY <2>1, <2>2, <2>3, LifecycleKeeps DEF PromiseInv
<1>8. ASSUME NEW t \in JobIds \cup RebootIds, BeginRebootExecution(t)
      PROVE  KeepsInv'
  <2>1. Milder
    BY <1>8, MilderWithout
    DEF BeginRebootExecution, At, Calls, ghostVars, HistoryInv, PromiseInv, TypeOK
  <2>2. \A k \in Ids : jobs'[k] = jobs[k] \/ promised'[k] = "none"
    <3>1. Owner(t) /\ phase = "up" /\ promised' = promised
      BY <1>8 DEF BeginRebootExecution, At, Owner, ghostVars
    <3>2. rebootJob[t] \in Ids /\ jobs[rebootJob[t]] \in Active
      BY <3>1 DEF HistoryInv, OwnerInv, Ids
    <3>3. promised[rebootJob[t]] = "none"
      BY <3>1, <3>2, ActiveUnpromised DEF PromiseInv
    <3>. QED
      BY <1>8, <3>1, <3>3 DEF BeginRebootExecution, HistoryInv, TypeOK
  <2>3. /\ UNCHANGED <<file, snapshot, phase>> /\ phase = "up"
        /\ \A w \in Writers : persist'[w] = "write" => persist[w] = "write"
    BY <1>8
    DEF BeginRebootExecution, At, Calls, persistVars, diskVars, procVars,
        HistoryInv, TypeOK
  <2>. QED
    BY <2>1, <2>2, <2>3, LifecycleKeeps DEF PromiseInv
<1>9. ASSUME NEW t \in JobIds \cup RebootIds, RebootCommandOk(t) PROVE KeepsInv'
  <2>1. Milder
    BY <1>9, MilderWithout
    DEF RebootCommandOk, At, Calls, ghostVars, HistoryInv, PromiseInv, TypeOK
  <2>2. \A k \in Ids : jobs'[k] = jobs[k] \/ promised'[k] = "none"
    BY <1>9 DEF RebootCommandOk
  <2>3. /\ UNCHANGED <<file, snapshot, phase>> /\ phase = "up"
        /\ \A w \in Writers : persist'[w] = "write" => persist[w] = "write"
    BY <1>9
    DEF RebootCommandOk, At, Calls, persistVars, diskVars, procVars, HistoryInv,
        TypeOK
  <2>. QED
    BY <2>1, <2>2, <2>3, LifecycleKeeps DEF PromiseInv
<1>10. ASSUME NEW t \in JobIds \cup RebootIds, RebootCommandErr(t) PROVE KeepsInv'
  <2>1. Milder
    BY <1>10, MilderWithout
    DEF RebootCommandErr, At, Calls, ghostVars, HistoryInv, PromiseInv, TypeOK
  <2>2. \A k \in Ids : jobs'[k] = jobs[k] \/ promised'[k] = "none"
    <3>1. Owner(t) /\ phase = "up" /\ promised' = promised
      BY <1>10 DEF RebootCommandErr, At, Owner, ghostVars
    <3>2. rebootJob[t] \in Ids /\ jobs[rebootJob[t]] \in Active
      BY <3>1 DEF HistoryInv, OwnerInv, Ids
    <3>3. promised[rebootJob[t]] = "none"
      BY <3>1, <3>2, ActiveUnpromised DEF PromiseInv
    <3>. QED
      BY <1>10, <3>1, <3>3 DEF RebootCommandErr, HistoryInv, TypeOK
  <2>3. /\ UNCHANGED <<file, snapshot, phase>> /\ phase = "up"
        /\ \A w \in Writers : persist'[w] = "write" => persist[w] = "write"
    BY <1>10
    DEF RebootCommandErr, At, Calls, persistVars, diskVars, procVars, HistoryInv,
        TypeOK
  <2>. QED
    BY <2>1, <2>2, <2>3, LifecycleKeeps DEF PromiseInv
<1>11. ASSUME NEW j \in Ids, DeleteJob(j) PROVE KeepsInv'
  <2>1. Milder
    BY <1>11, MilderWithout
    DEF DeleteJob, Calls, ghostVars, HistoryInv, PromiseInv, TypeOK
  <2>2. \A k \in Ids : jobs'[k] = jobs[k] \/ promised'[k] = "none"
    BY <1>11 DEF DeleteJob, HistoryInv, TypeOK
  <2>3. /\ UNCHANGED <<file, snapshot, phase>> /\ phase = "up"
        /\ \A w \in Writers : persist'[w] = "write" => persist[w] = "write"
    BY <1>11
    DEF DeleteJob, Calls, persistVars, diskVars, procVars, HistoryInv, TypeOK
  <2>. QED
    BY <2>1, <2>2, <2>3, LifecycleKeeps DEF PromiseInv
<1>12. ASSUME NEW w \in Writers, Snapshot(w) PROVE KeepsInv'
  <2>1. Milder
    BY <1>12, MilderWithout
    DEF Snapshot, ghostVars, HistoryInv, PromiseInv, TypeOK
  <2>2. phase' = phase /\ phase \in {"up", "flush"} /\ file' = file /\ jobs' = jobs
        /\ snapshot'[w] = jobs
        /\ \A x \in Writers \ {w} : persist'[x] = persist[x] /\ snapshot'[x] = snapshot[x]
    BY <1>12
    DEF Snapshot, procVars, diskVars, HistoryInv, TypeOK, PromiseInv, WritersInv
  <2>3. Keeps(jobs)' /\ (file' # None => Keeps(file)')
    BY <2>1, <2>2, KeepsMilder DEF PromiseInv, KeepsInv, Keeps
  <2>4. ASSUME NEW x \in Writers, persist'[x] = "write" PROVE Keeps(snapshot[x])'
    <3>1. CASE x = w
      BY <2>2, <2>3, <3>1 DEF Keeps
    <3>2. CASE x # w
      <4>1. Keeps(snapshot[x]) /\ snapshot'[x] = snapshot[x]
        BY <2>2, <2>4, <3>2 DEF PromiseInv, KeepsInv
      <4>. QED
        BY <2>1, <4>1, KeepsMilder DEF Keeps
    <3>. QED
      BY <3>1, <3>2
  <2>. QED
    BY <2>3, <2>4 DEF KeepsInv
<1>13. ASSUME NEW w \in Writers, Rename(w) PROVE KeepsInv'
  <2>. DEFINE s == snapshot[w]
  <2>1. /\ s \in [Ids -> Status] /\ file' = Kept(s) /\ created' = created /\ jobs' = jobs
        /\ promised' = Promise(w) /\ persist[w] = "write" /\ phase \in {"up", "flush"}
    BY <1>13 DEF Rename, Returns, HistoryInv, Held, TypeOK, PromiseInv, WritersInv
  <2>2. Keeps(s) /\ Keeps(jobs)
    BY <2>1 DEF PromiseInv, KeepsInv
  <2>3. \A x \in Writers : persist'[x] # "write"
    BY <1>13, <2>1 DEF Rename, Returns, HistoryInv, TypeOK, PromiseInv, WritersInv
  <2>4. \A j \in Ids : Newer(j)' = Newer(j)
    BY <2>1 DEF Newer
  <2>5. ASSUME NEW j \in Ids
        PROVE  /\ promised'[j] \in Terminal =>
                    /\ jobs[j] = promised'[j] \/ (jobs[j] = "Absent" /\ Newer(j) >= Retention)
                    /\ s[j] = promised'[j] \/ (s[j] = "Absent" /\ Newer(j) >= Retention)
               /\ promised'[j] = "Deleted" => jobs[j] = "Absent" /\ s[j] = "Absent"
    <3>1. promised'[j] =
             IF \/ w = j /\ pc[j] \in {"ended", "delete"} /\ jobs[j] \in Terminal
                \/ w = "main" /\ jobs[j] \in Terminal
             THEN jobs[j]
             ELSE IF w = "client" /\ deleting = j THEN "Deleted" ELSE promised[j]
      BY <2>1 DEF Promise
    <3>2. CASE w = j /\ pc[j] \in {"ended", "delete"} /\ jobs[j] \in Terminal
      <4>1. promised'[j] = jobs[j] /\ s[j] = jobs[j]
        BY <2>1, <3>1, <3>2 DEF PromiseInv, CoveredInv
      <4>. QED
        BY <3>2, <4>1 DEF Terminal, Interrupted
    <3>3. CASE w = "main" /\ jobs[j] \in Terminal
      <4>1. promised'[j] = jobs[j] /\ s[j] = jobs[j]
        BY <2>1, <3>1, <3>3 DEF PromiseInv, CoveredInv
      <4>. QED
        BY <3>3, <4>1 DEF Terminal, Interrupted
    <3>4. CASE w = "client" /\ deleting = j
      <4>1. deleting # None
        BY <3>4, HistoryAssumption
      <4>2. jobs[j] = "Absent" /\ s[j] = "Absent"
        BY <2>1, <3>4, <4>1 DEF PromiseInv, MarksInv, CoveredInv
      <4>3. promised'[j] = "Deleted"
        BY <3>1, <3>4, <4>2, HistoryAssumption DEF Terminal, Interrupted
      <4>. QED
        BY <4>2, <4>3 DEF Terminal, Interrupted
    <3>5. CASE promised'[j] = promised[j]
      BY <2>2, <3>5 DEF Keeps
    <3>. HIDE DEF s
    <3>. QED
      BY <3>1, <3>2, <3>3, <3>4, <3>5
  <2>. HIDE DEF s
  <2>6. Keeps(jobs)'
    BY <2>1, <2>4, <2>5 DEF Keeps
  <2>7. Keeps(file)'
    <3>. SUFFICES ASSUME NEW j \in Ids
                  PROVE  /\ promised'[j] \in Terminal =>
                              \/ Kept(s)[j] = promised'[j]
                              \/ Kept(s)[j] = "Absent" /\ Newer(j) >= Retention
                         /\ promised'[j] = "Deleted" => Kept(s)[j] = "Absent"
      BY <2>1, <2>4 DEF Keeps
    <3>1. Kept(s)[j] = s[j] \/ Kept(s)[j] = "Absent"
      BY <2>1, KeptType
    <3>2. s[j] \in Terminal => Kept(s)[j] = s[j] \/ (Kept(s)[j] = "Absent" /\ Newer(j) >= Retention)
      BY <2>1, KeptTerminal DEF HistoryInv, PromiseInv
    <3>. QED
      BY <2>5, <3>1, <3>2
  <2>. QED
    BY <2>3, <2>6, <2>7 DEF KeepsInv
<1>14. ASSUME NEW w \in Writers, WriteFails(w) PROVE KeepsInv'
  <2>1. Milder
    BY <1>14, MilderWithout
    DEF WriteFails, Returns, HistoryInv, PromiseInv, TypeOK
  <2>2. phase \in {"up", "flush"} /\ file' = file /\ jobs' = jobs
        /\ \A x \in Writers : persist'[x] = "write" => persist[x] = "write" /\ snapshot'[x] = snapshot[x]
    BY <1>14 DEF WriteFails, Returns, HistoryInv, TypeOK, PromiseInv, WritersInv
  <2>3. Keeps(jobs)' /\ (file' # None => Keeps(file)')
    BY <2>1, <2>2, KeepsMilder DEF PromiseInv, KeepsInv, Keeps
  <2>4. ASSUME NEW x \in Writers, persist'[x] = "write" PROVE Keeps(snapshot[x])'
    <3>1. Keeps(snapshot[x]) /\ snapshot'[x] = snapshot[x]
      BY <2>2, <2>4 DEF PromiseInv, KeepsInv
    <3>. QED
      BY <2>1, <3>1, KeepsMilder DEF Keeps
  <2>. QED
    BY <2>3, <2>4 DEF KeepsInv
<1>15. ASSUME NEW machine \in BOOLEAN, Dies(machine) PROVE KeepsInv'
  <2>1. Milder
    BY <1>15, MilderWithout DEF Dies, ghostVars, HistoryInv, PromiseInv, TypeOK
  <2>2. file' # None => Keeps(file)'
    BY <1>15, <2>1, KeepsMilder DEF Dies, diskVars, PromiseInv, KeepsInv, Keeps
  <2>3. phase' = "down" /\ \A w \in Writers : persist'[w] = "idle"
    BY <1>15 DEF Dies
  <2>. QED
    BY <2>2, <2>3 DEF KeepsInv
<1>16. ASSUME Migrate PROVE KeepsInv'
  <2>1. \A j \in Ids : promised'[j] = "none"
    BY <1>16 DEF Migrate, ghostVars, PromiseInv, MarksInv
  <2>2. Keeps(jobs)' /\ Keeps(file)' /\ \A w \in Writers : Keeps(snapshot[w])'
    BY <2>1 DEF Keeps, Terminal, Interrupted
  <2>. QED
    BY <2>2 DEF KeepsInv
<1>17. ASSUME Migrated PROVE KeepsInv'
  <2>1. \A j \in Ids : promised'[j] = "none"
    BY <1>17 DEF Migrated, PromiseInv, MarksInv
  <2>2. Keeps(jobs)' /\ Keeps(file)' /\ \A w \in Writers : Keeps(snapshot[w])'
    BY <2>1 DEF Keeps, Terminal, Interrupted
  <2>. QED
    BY <2>2 DEF KeepsInv
<1>18. ASSUME Load PROVE KeepsInv'
  <2>1. CASE \A j \in Ids : promised'[j] = "none"
    <3>1. Keeps(jobs)' /\ Keeps(file)' /\ \A w \in Writers : Keeps(snapshot[w])'
      BY <2>1 DEF Keeps, Terminal, Interrupted
    <3>. QED
      BY <3>1 DEF KeepsInv
  <2>2. CASE ~ \A j \in Ids : promised'[j] = "none"
    <3>1. promised' = promised /\ file # None /\ StartWith(file)
      BY <1>18, <2>2 DEF Load, PromiseInv, MarksInv
    <3>2. created' = created /\ file' = file
      BY <3>1 DEF StartWith
    <3>3. Milder
      BY <3>1, <3>2, MilderWithout DEF HistoryInv, PromiseInv
    <3>4. Keeps(file) /\ Keeps(file)'
      BY <3>1, <3>2, <3>3, KeepsMilder DEF PromiseInv, KeepsInv, Keeps
    <3>5. \A j \in Ids : file[j] \notin Active => jobs'[j] = file[j]
      BY <3>1, RecoverType DEF StartWith, HistoryInv, TypeOK
    <3>6. Keeps(jobs)'
      BY <3>2, <3>4, <3>5 DEF Keeps, Terminal, Interrupted, Active
    <3>7. \A w \in Writers : persist'[w] # "write"
      BY <1>18, <3>1
      DEF Load, StartWith, Calls, persistVars, HistoryInv, TypeOK, PromiseInv,
          WritersInv
    <3>. QED
      BY <3>4, <3>6, <3>7 DEF KeepsInv
  <2>. QED
    BY <2>1, <2>2
<1>19. ASSUME UNCHANGED vars PROVE KeepsInv'
  <2>1. Milder
    BY <1>19, MilderWithout DEF vars, ghostVars, HistoryInv, PromiseInv, TypeOK
  <2>2. UNCHANGED <<jobs, file, snapshot, persist, phase>>
    BY <1>19 DEF vars, diskVars, persistVars, procVars
  <2>3. (phase' \in {"up", "flush"} => Keeps(jobs)') /\ (file' # None => Keeps(file)')
    BY <2>1, <2>2, KeepsMilder DEF PromiseInv, KeepsInv, Keeps
  <2>4. ASSUME NEW x \in Writers, persist'[x] = "write" PROVE Keeps(snapshot[x])'
    BY <2>1, <2>2, <2>4, KeepsMilder DEF PromiseInv, KeepsInv, Keeps
  <2>. QED
    BY <2>3, <2>4 DEF KeepsInv
<1>. QED
  BY <1>1, <1>2, <1>3, <1>4, <1>5, <1>6, <1>7, <1>8, <1>9, <1>10, <1>11,
     <1>12, <1>13, <1>14, <1>15, <1>16, <1>17, <1>18, <1>19 DEF Next

-----------------------------------------------------------------------------
(* The invariants *)

\* The initial states.
LEMMA HistoryInit == Init => HistoryInv
<1>. SUFFICES ASSUME Init PROVE HistoryInv
  OBVIOUS
<1>1. \A j \in Ids : jobs[j] = "Absent" /\ pc[j] \in {"idle", "done"}
  BY DEF Init, Empty
<1>2. TypeOK
  <2>1. op \in [Ids -> Ops \cup {"none", "Install", "Refresh", "Reboot"}]
    BY DEF Init
  <2>2. jobs \in [Ids -> Status] /\ legacy \in [Ids -> Status] \cup {None}
    BY DEF Init, Empty, Status, Active
  <2>. QED
    BY <2>1, <2>2, HistoryAssumption DEF Init, TypeOK
<1>3. Held
  <2>1. {k \in Ids : boot_id[k] # None} = {}
    BY DEF Init
  <2>. QED
    BY <2>1, FS_EmptySet DEF Init, Held
<1>4. OwnerInv
  BY <1>1 DEF OwnerInv, Owner
<1>5. ActiveInv /\ DownInv
  BY <1>1 DEF ActiveInv, DownInv, Active
<1>6. BootInv
  BY <1>1 DEF Init, BootInv, Live, Active
<1>7. MapInv
  BY <1>1 DEF Init, MapInv, Honest, Interrupted
<1>. QED
  BY <1>2, <1>3, <1>4, <1>5, <1>6, <1>7 DEF HistoryInv

\* Every step.
LEMMA HistoryStep == HistoryInv /\ [Next]_vars => HistoryInv'
  BY TypesKept, HeldKept, OwnerKept, ActiveKept, DownKept, BootKept, MapsKept
  DEF HistoryInv

\* HistoryInv is an invariant.
LEMMA HistoryInvariant == Spec => []HistoryInv
<1>. QED
  BY HistoryInit, HistoryStep, PTL DEF Spec

\* The initial states keep every promise: there is none.
LEMMA PromiseInit == Init => PromiseInv
<1>. SUFFICES ASSUME Init PROVE PromiseInv
  OBVIOUS
<1>1. phase = "down" /\ file = None /\ deleting = None
      /\ \A w \in Writers : persist[w] = "idle"
  BY DEF Init
<1>2. "main" \in Writers
  BY DEF Writers
<1>3. KeepsInv /\ CoveredInv /\ WritersInv
  BY <1>1, <1>2 DEF KeepsInv, CoveredInv, WritersInv
<1>4. MarksInv
  BY <1>1 DEF Init, MarksInv, Terminal, Interrupted
<1>5. CreatedInv
  <2>1. {k \in Ids : created[k] # 0} = {}
    BY DEF Init
  <2>. QED
    BY <2>1, FS_EmptySet DEF Init, CreatedInv
<1>. QED
  BY <1>3, <1>4, <1>5 DEF PromiseInv

\* Every step, if persist calls do not overlap.
LEMMA PromiseStep ==
    ASSUME MaxInFlight = 1
    PROVE  HistoryInv /\ PromiseInv /\ [Next]_vars => PromiseInv'
  BY KeepsKept, CoveredKept, WritersKept, MarksKept, CreatedKept
  DEF HistoryInv, PromiseInv

-----------------------------------------------------------------------------
(* The theorems *)

\* Every variable of the history keeps its type: created_at stays a number, a
\* writer that renames its file has a snapshot to write.
THEOREM HistoryTypes == Spec => []TypeOK
<1>1. HistoryInv => TypeOK
  BY DEF HistoryInv
<1>. QED
  BY <1>1, HistoryInvariant, PTL

\* Startup takes over no active record: whatever recover_orphaned_jobs found,
\* every job that is active has a task of this process, or has had the reboot
\* command accepted.
THEOREM ActiveAlwaysHasTask == Spec => []ActiveHasTask
<1>1. HistoryInv => ActiveHasTask
  BY DEF HistoryInv, ActiveInv, ActiveHasTask
<1>. QED
  BY <1>1, HistoryInvariant, PTL

\* recover_orphaned_jobs reports no internal cache refresh as interrupted, in
\* memory or in any file it will read later, however persist calls overlap and
\* whichever file operations fail.
THEOREM InternalIsNeverInterrupted == Spec => []InternalNeverInterrupted
<1>1. HistoryInv => InternalNeverInterrupted
  BY DEF HistoryInv, MapInv, Honest, InternalNeverInterrupted
<1>. QED
  BY <1>1, HistoryInvariant, PTL

\* A job that the machine took down is never reported as AgentRestarted, over
\* any number of later restarts, reboots and overlapping writes of the file.
THEOREM RestartIsNeverReboot == Spec => []RestartIsNoReboot
<1>1. HistoryInv => RestartIsNoReboot
  BY DEF HistoryInv, TypeOK, MapInv, Honest, RestartIsNoReboot
<1>. QED
  BY <1>1, HistoryInvariant, PTL

\* If no two persist calls are between their two steps at once, what
\* complete_job, delete_job and the startup flush have recorded is what every
\* later startup reports, over any number of deaths and failed file
\* operations.  (The run history_overlap shows that it fails otherwise.)
THEOREM PromisesAreKept ==
    ASSUME MaxInFlight = 1
    PROVE  Spec => []PromisesKept
<1>1. HistoryInv /\ PromiseInv => PromisesKept
  BY DEF PromiseInv, KeepsInv, Keeps, PromisesKept
<1>2. Spec => [](HistoryInv /\ PromiseInv)
  BY HistoryInit, HistoryStep, PromiseInit, PromiseStep, PTL DEF Spec
<1>. QED
  BY <1>1, <1>2, PTL

=============================================================================
