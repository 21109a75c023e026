----------------------------- MODULE PackageOps ------------------------------
(***************************************************************************)
(* The package-manager backends (src/src/packages/mod.rs) and the closures *)
(* that the handlers hand to dispatch_mutation, over the command runner    *)
(* and the cache state.  Two closures overlap when the watchdog gave up on *)
(* the first one; a command overlaps the next one when it outlives its     *)
(* deadline or the agent.                                                  *)
(*                                                                         *)
(* The database lock, the processes and what they do to the database are   *)
(* external: apt, rpm and apk lock a file with fcntl, which ends with the  *)
(* process; pacman holds db.lck as long as the file exists.                *)
(***************************************************************************)
EXTENDS CommandRunner, PackageCache

CONSTANTS
    Scenarios,    \* what each behaviour is about: the package manager, the
                  \* closures each worker may execute, the restarts allowed
    HasPgrep      \* whether the host has pgrep

AllBackends   == {"apt", "dnf", "yum", "apk", "pacman"}
AllOperations == {"Install", "Refresh", "SelfUpdate", "PatchSome", "PatchAll"}

VARIABLES
    backend,    \* create_backend: the first package manager found
    plan,       \* the closures each worker may execute
    mutex,      \* APT_MUTEX: the worker inside run_apt_safe
    holder,     \* the group that holds the lock at its path, or "stale"
    writers,    \* the groups in the middle of a transaction
    what,       \* the command each group executes
    db,         \* clean, or broken: some package is half-configured
    job,        \* the operation of each worker
    stage,      \* how far its closure is
    at,         \* how far the call of run_apt or run_pacman is
    err,        \* the error the closure is about to return or to handle
    retried,    \* the patch closure is in its second round
    snap,       \* the snapshot in persist_state
    late,       \* history: the last call's command ran into its deadline
    heldBack,   \* history: an upgrade was refused because of held packages
    restarts,   \* bound: restarts of the agent still allowed
    restarted   \* history: the agent was restarted

opsVars == <<backend, plan, mutex, holder, writers, what, db, job, stage, at,
             err, retried, snap, late, heldBack, restarts, restarted>>
vars == <<runnerVars, cacheVars, opsVars>>

Commands == {"refresh", "upgrade", "change", "configure", "audit"}
Stages   == {"idle", "refresh", "fix", "apply", "fix2", "apply2", "fallback",
             "change", "done"}
Ats      == {"call", "pre", "preRm", "preConf", "cmd", "post", "postRm",
             "postConf", "audit", "heal", "healRm", "healConf", "reaudit",
             "persist", "rename"}
Errors   == [kind : {"exit", "timeout", "spawn", "none"}, why : Reasons \cup {"partial"},
             ctx : {"none", "refresh", "fix"}]

ASSUME OpsAssumption ==
    /\ Scenarios \subseteq [backend : AllBackends,
                            plan : [Workers -> SUBSET AllOperations], restarts : Nat]
    /\ HasPgrep \in BOOLEAN
    /\ None \notin Errors

Init ==
    /\ RunnerInit /\ CacheInit
    /\ mutex = None
    /\ holder = None
    /\ writers = {}
    /\ what = [p \in Procs |-> "none"]
    /\ db = "clean"
    /\ job = [w \in Workers |-> "none"]
    /\ stage = [w \in Workers |-> "idle"]
    /\ at = [w \in Workers |-> "call"]
    /\ err = [w \in Workers |-> None]
    /\ retried = [w \in Workers |-> FALSE]
    /\ snap = [w \in Workers |-> "none"]
    /\ late = [w \in Workers |-> FALSE]
    /\ heldBack = [w \in Workers |-> FALSE]
    /\ \E s \in Scenarios : backend = s.backend /\ plan = s.plan /\ restarts = s.restarts
    /\ restarted = FALSE

-----------------------------------------------------------------------------
(* The package manager's processes (external) *)

\* What a failing command says that some caller reacts to.
Says(c) ==
    {"other"} \cup IF c # "upgrade" THEN {}
                  ELSE IF backend = "apt" THEN {"held", "deps"} ELSE {"fetch"}

\* Only apt can leave half-configured packages that dpkg --audit finds.
Changes(p) == backend = "apt" /\ what[p] \notin {"audit", "refresh"}

Awaited(p) == \E w \in Workers : cur[w] = p

Terminated(p) == \E w \in Workers : cur[w] = p /\ phase[w] = "term"

\* The lock is free to take: nobody holds the file that is at its path.
TakesLock(p) ==
    /\ proc[p] = "running"
    /\ what[p] # "audit"
    /\ p \notin writers
    /\ holder = None
    /\ holder' = p
    /\ writers' = writers \cup {p}
    /\ db' = IF Changes(p) THEN "broken" ELSE db
    /\ UNCHANGED <<runnerVars, cacheVars, backend, plan, mutex, what, job, stage,
                   at, err, retried, snap, late, heldBack, restarts,
                   restarted>>

\* The leader of p ends with code c, saying y; left is what lives of its group.
LeaderEnds(p, c, y, left) ==
    /\ what' = [what EXCEPT ![p] = IF left = "free" THEN "none" ELSE @]
    /\ proc' = [proc EXCEPT ![p] = left]
    /\ exit' = [exit EXCEPT ![p] = IF Awaited(p) THEN [code |-> c, why |-> y] ELSE None]
    /\ UNCHANGED <<cur, phase>>

\* The lock of p is gone.  pacman removes db.lck whoever created it.
LetsGo(p) == holder' = IF holder = p \/ (backend = "pacman" /\ p \in writers)
                       THEN None ELSE holder

\* The command is done: its transaction is over.  It may have failed, it may
\* have left packages half-configured even with exit code zero, and services
\* it started may keep the pipes open.  dpkg --audit says what it found.
Finishes(p) ==
    /\ proc[p] = "running"
    /\ p \in writers \/ what[p] = "audit"
    /\ \E c \in {"zero", "accepted", "failure"}, left \in {"free", "orphans"} :
          \E y \in IF what[p] = "audit" THEN {IF db = "clean" THEN "other" ELSE "dirty"}
                   ELSE IF c = "zero" THEN {"other"} ELSE Says(what[p]) :
             /\ c = "accepted" => what[p] = "refresh" /\ backend = "dnf"
             /\ left = "orphans" => what[p] \in {"upgrade", "change"} /\ ~Terminated(p)
             /\ LeaderEnds(p, c, y, left)
             /\ db' \in IF ~Changes(p) THEN {db}
                        ELSE IF what[p] = "configure" /\ c = "zero" THEN {"clean"}
                        ELSE {"clean", "broken"}
    /\ writers' = writers \ {p}
    /\ LetsGo(p)
    /\ UNCHANGED <<cacheVars, backend, plan, mutex, job, stage, at, err, retried,
                   snap, late, heldBack, restarts,
                   restarted>>

\* The command cannot take the lock and gives up.
Refused(p) ==
    /\ proc[p] = "running"
    /\ p \notin writers
    /\ holder \notin {None, p}
    /\ what[p] # "audit"
    /\ LeaderEnds(p, "failure", "other", "free")
    /\ UNCHANGED <<cacheVars, backend, plan, mutex, holder, writers, db, job, stage, at,
                   err, retried, snap, late, heldBack, restarts,
                   restarted>>

\* The leader dies of SIGTERM; its children finish the transaction.
LeavesChildren(p) ==
    /\ proc[p] = "running"
    /\ Terminated(p)
    /\ p \in writers
    /\ LeaderEnds(p, "signal", "other", "orphans")
    /\ UNCHANGED <<cacheVars, backend, plan, mutex, holder, writers, db, job, stage, at,
                   err, retried, snap, late, heldBack, restarts,
                   restarted>>

\* The whole group dies of a signal.  A lock that is a file stays behind.
Dies(p) ==
    /\ proc[p] = "doomed" \/ (proc[p] = "running" /\ Terminated(p))
    /\ LeaderEnds(p, "signal", "other", "free")
    /\ writers' = writers \ {p}
    /\ holder' \in IF holder # p THEN {holder}
                   ELSE IF backend = "pacman" THEN {None, "stale"} ELSE {None}
    /\ UNCHANGED <<cacheVars, backend, plan, mutex, db, job, stage, at, err, retried,
                   snap, late, heldBack, restarts,
                   restarted>>

\* The children that outlived their leader end.
OrphansEnd(p) ==
    /\ proc[p] = "orphans"
    /\ proc' = [proc EXCEPT ![p] = "free"]
    /\ what' = [what EXCEPT ![p] = "none"]
    /\ writers' = writers \ {p}
    /\ LetsGo(p)
    /\ db' \in IF p \in writers /\ Changes(p) THEN {"clean", "broken"} ELSE {db}
    /\ UNCHANGED <<exit, cur, phase, cacheVars, backend, plan, mutex, job,
                   stage, at, err, retried, snap, late, heldBack, restarts,
                   restarted>>

Process(p) ==
    \/ TakesLock(p) \/ Finishes(p) \/ Refused(p)
    \/ LeavesChildren(p) \/ Dies(p) \/ OrphansEnd(p)

-----------------------------------------------------------------------------
(* The closures *)

\* The stage a patch closure enters once the lists are refreshed.
\* AptBackend::apply_patches(None) fixes broken dependencies first.
ApplyStage(w) == IF backend = "apt" /\ job[w] = "PatchAll" THEN "fix" ELSE "apply"

FirstStage(o) == IF o = "Install" THEN "change" ELSE "refresh"

\* A closure starts on a blocking thread.
Start(w, o) ==
    /\ stage[w] = "idle"
    /\ job' = [job EXCEPT ![w] = o]
    /\ stage' = [stage EXCEPT ![w] = FirstStage(o)]
    /\ UNCHANGED <<runnerVars, cacheVars, backend, plan, mutex, holder, writers,
                   what, db, at, err, retried, snap, late, heldBack, restarts,
                   restarted>>

\* is_fetch_error reads the outermost message only: AptBackend and the
\* runner's timeout and spawn errors put a context in front of it.
IsFetchError(e) == backend # "apt" /\ e.kind = "exit" /\ e.why = "fetch"

HeldBlock(w, e) ==
    /\ job[w] = "PatchAll"
    /\ e.kind # "spawn"
    /\ e.why = "held"

\* classify_error: the flags of the CommandError come first, then the texts
\* of the whole chain, the contexts included.
Classify(e) ==
    IF e.kind = "timeout" THEN "TIMEOUT"
    ELSE IF e.kind = "spawn" THEN "COMMAND_NOT_FOUND"
    ELSE IF e.why = "fetch" THEN "NETWORK_ERROR"
    ELSE IF e.why \in {"deps", "partial"} \/ e.ctx = "fix" THEN "DEPENDENCY_CONFLICT"
    ELSE IF e.ctx = "refresh" THEN "CACHE_REFRESH_ERROR"
    ELSE IF e.kind = "none" THEN "UNKNOWN_ERROR"
    ELSE "PKG_MANAGER_ERROR"

\* The closure goes on with stage s, or ends with error e (None is Ok).
GoesOn(w, s) ==
    /\ stage' = [stage EXCEPT ![w] = s]
    /\ err' = [err EXCEPT ![w] = None]
    /\ UNCHANGED retried

Ends(w, e) ==
    /\ stage' = [stage EXCEPT ![w] = "done"]
    /\ err' = [err EXCEPT ![w] = e]
    /\ UNCHANGED retried

\* The patch closure ends, or refreshes and applies once more after a fetch
\* error.
ApplyFails(w, e) ==
    IF IsFetchError(e) /\ ~retried[w]
    THEN /\ stage' = [stage EXCEPT ![w] = "refresh"]
         /\ err' = [err EXCEPT ![w] = None]
         /\ retried' = [retried EXCEPT ![w] = TRUE]
    ELSE Ends(w, e)

HeldPackagePartialFailure == [kind |-> "none", why |-> "partial", ctx |-> "none"]

\* Mutant: the fallback upgrade counts as the success of the job.
FallbackSucceeds(w) == Ends(w, None)

\* held_package_partial_failure: the safe subset is upgraded, the job fails.
FallbackDone(w) == ApplyFails(w, HeldPackagePartialFailure)

\* What the closure does with the Ok of a backend command.
AfterOk(w) ==
    CASE stage[w] = "change"   -> Ends(w, None)
      [] stage[w] = "fix"      -> GoesOn(w, "apply")
      [] stage[w] = "fix2"     -> GoesOn(w, "apply2")
      [] stage[w] \in {"apply", "apply2"} -> Ends(w, None)
      [] stage[w] = "fallback" -> FallbackDone(w)

\* What it does with an Err.
AfterErr(w, e) ==
    CASE stage[w] = "change" -> Ends(w, e)
      [] stage[w] \in {"fix", "fix2"} -> ApplyFails(w, [e EXCEPT !.ctx = "fix"])
      [] stage[w] = "fallback" -> ApplyFails(w, e)
      [] stage[w] \in {"apply", "apply2"} ->
            IF backend = "apt" /\ HeldBlock(w, e) THEN GoesOn(w, "fallback")
            ELSE IF backend = "apt" /\ stage[w] = "apply" /\ e.kind # "spawn" /\ e.why = "deps"
                 THEN GoesOn(w, "fix2")
            ELSE ApplyFails(w, e)

\* The call of run_apt, run_dnf, run_yum, run_apk or run_pacman returns e.
\* refresh_package_cache records the outcome before anything else.
CallReturns(w, e) ==
    IF stage[w] = "refresh"
    THEN /\ IF e = None THEN UpdateSuccess ELSE UpdateFailure
         /\ at' = [at EXCEPT ![w] = "persist"]
         /\ err' = [err EXCEPT ![w] = e]
         /\ UNCHANGED <<stage, retried>>
    ELSE /\ at' = [at EXCEPT ![w] = "call"]
         /\ IF e = None THEN AfterOk(w) ELSE AfterErr(w, e)
         /\ UNCHANGED cacheVars

\* persist_state takes its snapshot ...
TakesSnapshot(w) ==
    /\ at[w] = "persist"
    /\ snap' = [snap EXCEPT ![w] = last_update]
    /\ at' = [at EXCEPT ![w] = "rename"]
    /\ UNCHANGED <<runnerVars, cacheVars, backend, plan, mutex, holder, writers,
                   what, db, job, stage, err, retried, late, heldBack, restarts,
                   restarted>>

\* ... and renames it into place; refresh_package_cache returns, and a failed
\* refresh ends every closure but the self-update.
RefreshReturns(w) ==
    /\ at[w] = "rename"
    /\ Persisted(snap[w], \E v \in Workers \ {w} : at[v] = "rename")
    /\ at' = [at EXCEPT ![w] = "call"]
    /\ snap' = [snap EXCEPT ![w] = "none"]
    /\ IF err[w] # None /\ job[w] # "SelfUpdate"
       THEN Ends(w, [err[w] EXCEPT !.ctx = IF job[w] = "Refresh" THEN "none" ELSE "refresh"])
       ELSE CASE job[w] = "Refresh"    -> Ends(w, None)
              [] job[w] = "SelfUpdate" -> GoesOn(w, "change")
              [] OTHER                 -> GoesOn(w, ApplyStage(w))
    /\ UNCHANGED <<runnerVars, backend, plan, mutex, holder, writers, what, db,
                   job, late, heldBack, restarts,
                   restarted>>

-----------------------------------------------------------------------------
(* run_apt_safe, run_pacman and the plain callers of the runner *)

Busy(w) == stage[w] \notin {"idle", "done"}

\* run_apt_safe takes the process-wide mutex.
LockMutex(w) ==
    /\ Busy(w) /\ at[w] = "call" /\ backend = "apt"
    /\ mutex = None
    /\ mutex' = w
    /\ at' = [at EXCEPT ![w] = "pre"]
    /\ late' = [late EXCEPT ![w] = FALSE]
    /\ UNCHANGED <<runnerVars, cacheVars, backend, plan, holder, writers, what, db,
                   job, stage, err, retried, snap, heldBack, restarts,
                   restarted>>

\* The other backends call the runner directly.  run_pacman waits until the
\* lock file is gone, and after sixty seconds removes it.
PlainCall(w) ==
    /\ Busy(w) /\ at[w] = "call" /\ backend # "apt"
    /\ holder' = IF backend = "pacman" THEN None ELSE holder
    /\ at' = [at EXCEPT ![w] = "cmd"]
    /\ late' = [late EXCEPT ![w] = FALSE]
    /\ UNCHANGED <<runnerVars, cacheVars, backend, plan, mutex, writers, what, db,
                   job, stage, err, retried, snap, heldBack, restarts,
                   restarted>>

\* Mutant: no look at the processes, a lock file is always taken for stale.
NoAptProcess == FALSE

\* pgrep -f finds a living apt or dpkg; without pgrep nothing is found.
HasAptProcess == HasPgrep /\ \E p \in Procs : proc[p] \in {"running", "doomed"} \/ p \in writers

\* cleanup_stale_apt_locks: look ...
CheckLocks(w) ==
    /\ at[w] \in {"pre", "post", "heal"}
    /\ at' = [at EXCEPT ![w] = CASE at[w] = "pre"  -> IF HasAptProcess THEN "preConf" ELSE "preRm"
                                 [] at[w] = "post" -> IF HasAptProcess THEN "postConf" ELSE "postRm"
                                 [] at[w] = "heal" -> IF HasAptProcess THEN "healConf" ELSE "healRm"]
    /\ UNCHANGED <<runnerVars, cacheVars, backend, plan, mutex, holder, writers, what,
                   db, job, stage, err, retried, snap, late, heldBack, restarts,
                   restarted>>

\* ... then remove the lock files: the next process locks a new file.
RemoveLocks(w) ==
    /\ at[w] \in {"preRm", "postRm", "healRm"}
    /\ holder' = None
    /\ at' = [at EXCEPT ![w] = CASE at[w] = "preRm"  -> "preConf"
                                 [] at[w] = "postRm" -> "postConf"
                                 [] at[w] = "healRm" -> "healConf"]
    /\ UNCHANGED <<runnerVars, cacheVars, backend, plan, mutex, writers, what, db,
                   job, stage, err, retried, snap, late, heldBack, restarts,
                   restarted>>

CommandAt(w) ==
    IF at[w] \in {"preConf", "postConf", "healConf"} THEN "configure"
    ELSE IF at[w] \in {"audit", "reaudit"} THEN "audit"
    ELSE IF stage[w] = "refresh" THEN "refresh"
    ELSE IF stage[w] \in {"apply", "apply2", "fallback"} THEN "upgrade"
    ELSE "change"

Launching == {"preConf", "cmd", "postConf", "audit", "healConf", "reaudit"}

RunCommand(w) ==
    /\ at[w] \in Launching
    /\ \E p \in Procs :
          /\ Spawn(w, p)
          /\ what' = [what EXCEPT ![p] = CommandAt(w)]
    /\ UNCHANGED <<cacheVars, backend, plan, mutex, holder, writers, db, job, stage,
                   at, err, retried, snap, late, heldBack, restarts,
                   restarted>>

\* The command of w returned r, or was never started.
Got(w, r) == Returns(w, r) \/ (at[w] \in Launching /\ SpawnFails(w, r))

AsError(r) == [kind |-> r.kind, why |-> r.why, ctx |-> "none"]

AuditDirty == [kind |-> "none", why |-> "dirty", ctx |-> "none"]

\* run_apt_safe goes on inside its critical section, or leaves it.
Continue(w, a, e) ==
    /\ at' = [at EXCEPT ![w] = a]
    /\ err' = [err EXCEPT ![w] = e]
    /\ UNCHANGED <<cacheVars, mutex, stage, retried>>

Leave(w, e) ==
    /\ mutex' = IF mutex = w THEN None ELSE mutex
    /\ CallReturns(w, e)

\* Mutant: exit code zero of apt-get is enough, without dpkg --audit.
NoAudit(w, r) == Leave(w, IF Ok(r) THEN None ELSE AsError(r))

\* The command itself: an Err is kept while dpkg --configure -a cleans up.
AptCommand(w, r) == IF Ok(r) THEN Continue(w, "audit", None) ELSE Continue(w, "post", AsError(r))

\* ensure_dpkg_clean before and after, verify_dpkg_clean with its one repair.
AptStep(w, r) ==
    CASE at[w] = "preConf"  -> IF Ok(r) THEN Continue(w, "cmd", None) ELSE Leave(w, AsError(r))
      [] at[w] = "cmd"      -> AptCommand(w, r)
      [] at[w] = "postConf" -> Leave(w, err[w])
      [] at[w] = "audit"    -> IF ~Ok(r) THEN Leave(w, AsError(r))
                               ELSE IF r.why = "dirty" THEN Continue(w, "heal", None)
                               ELSE Leave(w, None)
      [] at[w] = "healConf" -> IF Ok(r) THEN Continue(w, "reaudit", None) ELSE Leave(w, AsError(r))
      [] at[w] = "reaudit"  -> IF ~Ok(r) THEN Leave(w, AsError(r))
                               ELSE Leave(w, IF r.why = "dirty" THEN AuditDirty ELSE None)

\* The exit codes each backend accepts for this call.
Acceptable(w) ==
    CASE backend = "pacman" -> {"zero"}
      [] backend = "dnf" /\ stage[w] = "refresh" -> {"zero", "accepted"}
      [] OTHER -> {}

\* A command of a worker ends, for every backend.  run_pacman removes db.lck
\* after a timeout.
CommandDone(w) ==
    \E r \in Results :
        /\ Got(w, r)
        /\ late' = [late EXCEPT ![w] = @ \/ (at[w] = "cmd" /\ phase[w] \in {"term", "reap"})]
        /\ heldBack' = [heldBack EXCEPT ![w] = @ \/
               (at[w] = "cmd" /\ cur[w] # None /\ job[w] = "PatchAll" /\ stage[w] # "fallback"
                 /\ exit[cur[w]] # None /\ exit[cur[w]].why = "held")]
        /\ IF backend = "apt"
           THEN AptStep(w, r) /\ UNCHANGED holder
           ELSE LET good == OkAccepting(r, Acceptable(w)) IN
                /\ Leave(w, IF good THEN None ELSE AsError(r))
                /\ holder' = IF backend = "pacman" /\ ~good /\ r.kind = "timeout"
                             THEN None ELSE holder
        /\ UNCHANGED <<backend, plan, writers, what, db, job, snap, restarts,
                       restarted>>

-----------------------------------------------------------------------------
\* The agent is restarted; the process groups of its commands live on.
AgentRestarts ==
    /\ restarts > 0
    /\ restarts' = restarts - 1
    /\ restarted' = TRUE
    /\ LoadStateFile
    /\ cur' = [w \in Workers |-> None]
    /\ phase' = [w \in Workers |-> "idle"]
    /\ exit' = [p \in Procs |-> None]
    /\ mutex' = None
    /\ job' = [w \in Workers |-> "none"]
    /\ stage' = [w \in Workers |-> "idle"]
    /\ at' = [w \in Workers |-> "call"]
    /\ err' = [w \in Workers |-> None]
    /\ retried' = [w \in Workers |-> FALSE]
    /\ snap' = [w \in Workers |-> "none"]
    /\ late' = [w \in Workers |-> FALSE]
    /\ heldBack' = [w \in Workers |-> FALSE]
    /\ UNCHANGED <<proc, backend, plan, holder, writers, what, db>>

\* Time passes the threshold, for the times in memory, on disk and in flight.
CacheExpires ==
    /\ Expire
    /\ snap' = [w \in Workers |-> Older(snap[w])]
    /\ UNCHANGED <<runnerVars, backend, plan, mutex, holder, writers, what, db, job, stage,
                   at, err, retried, late, heldBack, restarts,
                   restarted>>

RunnerMoves(w) == RunnerStep(w) /\ UNCHANGED <<cacheVars, opsVars>>

Worker(w) ==
    \/ TakesSnapshot(w) \/ RefreshReturns(w)
    \/ LockMutex(w) \/ PlainCall(w)
    \/ CheckLocks(w) \/ RemoveLocks(w)
    \/ RunCommand(w) \/ CommandDone(w)
    \/ RunnerMoves(w)

\* Every closure is over and no process is left.
Finished ==
    /\ \A w \in Workers : ~Busy(w)
    /\ \A p \in Procs : proc[p] = "free"
    /\ UNCHANGED vars

Next ==
    \/ \E w \in Workers : \E o \in plan[w] : Start(w, o)
    \/ \E w \in Workers : Worker(w)
    \/ \E p \in Procs : Process(p)
    \/ CacheExpires
    \/ AgentRestarts
    \/ Finished

Spec == Init /\ [][Next]_vars

-----------------------------------------------------------------------------
(* Properties *)

\* Every variable has its type.
TypeOK ==
    /\ RunnerTypeOK /\ CacheTypeOK
    /\ mutex \in Workers \cup {None}
    /\ holder \in Procs \cup {None, "stale"}
    /\ writers \subseteq Procs
    /\ what \in [Procs -> Commands \cup {"none"}]
    /\ stage \in [Workers -> Stages]
    /\ at \in [Workers -> Ats]
    /\ err \in [Workers -> Errors \cup {None}]

\* Two commands of the agent never write the package database at once, over
\* timeouts, restarts and detached closures.  Exempt are pacman, whose lock is
\* removed while its owner may live (run_pacman_with_acceptable_exit), and a
\* Debian host without pgrep, where a living dpkg is not found
\* (cleanup_stale_apt_locks).
OneWriter ==
    (HasPgrep /\ backend # "pacman") => Cardinality(writers) <= 1

\* A closure of the APT backend that ends with Ok leaves no half-configured
\* package, whatever commands that were given up left running (run_apt_safe
\* with verify_dpkg_clean).  Exempt is a command of an earlier agent process
\* that is still under way.
OkLeavesDbClean ==
    [][\A w \in Workers :
          (Busy(w) /\ job[w] # "Refresh" /\ stage'[w] = "done" /\ err'[w] = None
             /\ backend = "apt" /\ HasPgrep /\ ~restarted) => db' = "clean"]_vars

\* A patch job that met held packages is never reported as completed, whether
\* the block comes at once or after fix-broken (apply_patches).
HeldBackIsReported ==
    \A w \in Workers : stage[w] = "done" /\ heldBack[w] => err[w] # None

\* A job that fails because its command ran into the deadline is classified
\* TIMEOUT, through every retry and context of the backends (classify_error).
TimeoutIsReported ==
    \A w \in Workers :
        (stage[w] = "done" /\ late[w] /\ err[w] # None) => Classify(err[w]) = "TIMEOUT"

\* The package lists count as fresh only if a refresh succeeded within the
\* threshold or the first attempt without any record failed within it, with
\* overlapping writers of cache.json and restarts (is_stale).
FreshIsEarned ==
    ~IsStale => "fresh" \in {refreshed, firstFailure}

\* No closure ever waits for the package manager, which may hang for ever and
\* ignore SIGTERM: a busy worker can take a step of its own, or waits for the
\* APT mutex of a worker that is busy (run_async with its bounds).
AlwaysAdvances ==
    \A w \in Workers : Busy(w) =>
        ENABLED Worker(w) \/ (mutex \notin {None, w} /\ Busy(mutex))

=============================================================================
