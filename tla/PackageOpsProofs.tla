--------------------------- MODULE PackageOpsProofs ---------------------------
(***************************************************************************)
(* Proofs about PackageOps: for any number of workers and process groups,  *)
(* every package manager and every plan of closures.                       *)
(***************************************************************************)
EXTENDS PackageOps, FiniteSetTheorems, TLAPS

-----------------------------------------------------------------------------
(* The invariants *)

Outside == {"call", "persist", "rename"}
Post    == {"post", "postRm", "postConf"}

\* The variables have their types, those TypeOK does not mention included.
Shapes ==
    /\ TypeOK
    /\ backend \in AllBackends
    /\ plan \in [Workers -> SUBSET AllOperations]
    /\ job \in [Workers -> AllOperations \cup {"none"}]
    /\ retried \in [Workers -> BOOLEAN] /\ snap \in [Workers -> Ages]
    /\ late \in [Workers -> BOOLEAN] /\ heldBack \in [Workers -> BOOLEAN]

\* The runner: a worker waits for one group, which is its own, and learns how
\* the leader ended; a group that was killed does not run.
RunnerInv ==
    /\ \A w \in Workers :
          /\ phase[w] = "idle" <=> cur[w] = None
          /\ cur[w] # None =>
                /\ at[w] \in Launching
                /\ Dead(cur[w]) <=> exit[cur[w]] # None
                /\ phase[w] = "reap" => proc[cur[w]] # "running"
    /\ \A w, v \in Workers : cur[w] = cur[v] /\ cur[w] # None => w = v
    /\ \A p \in writers : proc[p] # "free"

\* Where a closure can be: only the APT backend has the steps of run_apt_safe,
\* and it takes them inside the mutex.
ControlInv ==
    \A w \in Workers :
        /\ at[w] # "call" => Busy(w)
        /\ at[w] \in {"persist", "rename"} => stage[w] = "refresh"
        /\ backend # "apt" => at[w] \in Outside \cup {"cmd"}
        /\ backend = "apt" /\ at[w] \notin Outside => mutex = w
        /\ stage[w] \in {"fix", "fix2", "fallback"} => backend = "apt"
        /\ at[w] \in Post => err[w] # None

\* What a leader says is what its command can say.
SaysInv ==
    \A p \in Procs : exit[p] # None /\ exit[p].why = "held" =>
        backend = "apt" /\ exit[p].code # "zero"

\* Whoever writes the database holds the lock; nobody writes, and nothing that
\* could begin to, while lock files are removed.
LockInv ==
    HasPgrep /\ backend # "pacman" =>
        /\ writers \subseteq {holder}
        /\ \A w \in Workers : at[w] \in {"preRm", "postRm", "healRm"} =>
              writers = {} /\ \A p \in Procs : proc[p] \notin {"running", "doomed"}

\* A fresh time, wherever it is kept, was earned.
Earned == "fresh" \in {refreshed, firstFailure}

FreshInv ==
    "fresh" \in {last_update, disk} \cup {snap[w] : w \in Workers} => Earned

\* Once held packages blocked the upgrade of w, its closure is in the fallback,
\* which fails, or on its way there or to its end with the error of the block.
HeldInv ==
    \A w \in Workers : heldBack[w] =>
        /\ backend = "apt" /\ job[w] = "PatchAll"
        /\ \/ stage[w] \in {"fallback", "done"}
           \/ at[w] \in Post /\ (stage[w] \in {"apply", "apply2"} => err[w].why # "deps")
           \/ at[w] \in {"persist", "rename"}
        /\ at[w] \in {"persist", "rename"} \/ stage[w] = "done" => err[w] # None

\* Once the command of a call ran into its deadline, the call reports it, or is
\* taken for a success.
LateInv ==
    \A w \in Workers : late[w] =>
        /\ at[w] \in Outside \cup Post
        /\ (at[w] # "call" \/ stage[w] = "done") /\ err[w] # None => err[w].kind = "timeout"

\* Without a restart of the agent, a group runs only while a worker waits for it.
AwaitedInv ==
    ~ restarted => \A p \in Procs : proc[p] = "running" => Awaited(p)

\* Inside the mutex, once dpkg --configure -a succeeded, no group but the one
\* waited for writes the database, and the audit tells what is there.
Said(w, c) == cur[w] # None /\ exit[cur[w]] # None /\ exit[cur[w]].code = c

Sure == backend = "apt" /\ HasPgrep /\ ~ restarted

QuietAt(w) ==
    /\ cur[w] # None /\ proc[cur[w]] # "free" => what[cur[w]] = CommandAt(w)
    /\ at[w] \in {"preConf", "cmd", "healConf"} /\ Said(w, "zero") => writers = {}
    /\ at[w] \in {"cmd", "healConf"} => writers \subseteq {cur[w]}
    /\ at[w] \in {"audit", "heal", "healRm", "reaudit"} => writers = {}
    /\ at[w] \in {"audit", "reaudit"} /\ Said(w, "zero") =>
          /\ proc[cur[w]] = "free"
          /\ exit[cur[w]].why # "dirty" => db = "clean"

QuietInv == Sure => \A w \in Workers : QuietAt(w)

OpsInv ==
    /\ Shapes /\ RunnerInv /\ ControlInv /\ SaysInv /\ LockInv /\ FreshInv
    /\ HeldInv /\ LateInv /\ AwaitedInv /\ QuietInv

-----------------------------------------------------------------------------
(* What the operators of the runner and of the closures do *)

\* None is no worker, no group, no exit and no error.
LEMMA NoneIsNothing ==
    None \notin Workers /\ None \notin Procs /\ None \notin Exits /\ None \notin Errors
BY RunnerAssumption, OpsAssumption

\* run_with_timeout returns r to w, or could not start the command.
Answered(w, r) ==
    /\ at[w] \in Launching /\ r \in Results
    /\ proc' = proc /\ phase' = [phase EXCEPT ![w] = "idle"] /\ cur' = [cur EXCEPT ![w] = None]
    /\ exit' \in [Procs -> Exits \cup {None}]
    /\ \A p \in Procs : exit'[p] = exit[p] \/ exit'[p] = None
    /\ \A p \in Procs : p # cur[w] => exit'[p] = exit[p]
    /\ Ok(r) => phase[w] = "wait" /\ Said(w, "zero")
    /\ phase[w] \in {"term", "reap"} => r.kind = "timeout"
    /\ cur[w] # None /\ exit[cur[w]] # None =>
          /\ r.kind # "spawn"
          /\ r.why = exit[cur[w]].why \/ (r.why = "other" /\ proc[cur[w]] # "free")

\* What a worker learns of its command.
LEMMA GotEffect ==
    ASSUME Shapes, RunnerInv, NEW w \in Workers, NEW r, Got(w, r)
    PROVE  Answered(w, r)
<1>. USE NoneIsNothing
<1>0. /\ proc \in [Procs -> {"free", "running", "orphans", "doomed"}]
      /\ exit \in [Procs -> Exits \cup {None}] /\ cur \in [Workers -> Procs \cup {None}]
      /\ phase \in [Workers -> Phases]
  BY DEF Shapes, TypeOK, RunnerTypeOK
<1>1. CASE at[w] \in Launching /\ SpawnFails(w, r)
  <2>1. phase[w] = "idle" /\ cur[w] = None /\ UNCHANGED runnerVars
    BY <1>1 DEF SpawnFails, RunnerInv
  <2>2. r \in Results /\ r.kind = "spawn"
    BY <1>1 DEF SpawnFails, SpawnError, Results, Codes, Reasons
  <2>. QED BY <1>0, <1>1, <2>1, <2>2 DEF Answered, runnerVars, Ok
<1>2. CASE Returns(w, r)
  <2>. DEFINE p == cur[w]
  <2>1. /\ phase[w] \in {"wait", "term", "reap"} /\ p \in Procs /\ at[w] \in Launching
        /\ Dead(p) => exit[p] # None
    BY <1>0, <1>2 DEF Returns, RunnerInv, Phases
  <2>2. /\ proc' = proc /\ phase' = [phase EXCEPT ![w] = "idle"]
        /\ cur' = [cur EXCEPT ![w] = None] /\ exit' = [exit EXCEPT ![p] = None]
    BY <1>2 DEF Returns
  <2>3. /\ exit' \in [Procs -> Exits \cup {None}]
        /\ \A q \in Procs : exit'[q] = exit[q] \/ exit'[q] = None
        /\ \A q \in Procs : q # p => exit'[q] = exit[q]
    BY <1>0, <2>1, <2>2
  <2>4. phase[w] = "wait" => exit[p] # None
    BY <1>2, <2>1 DEF Returns
  <2>5. ASSUME exit[p] = None
        PROVE  r = [kind |-> "timeout", code |-> "signal", why |-> "other"]
    BY <1>2, <2>1, <2>4, <2>5 DEF Returns, ResultsOf
  <2>6. ASSUME exit[p] # None
        PROVE  /\ exit[p] \in Exits /\ r \in Results /\ r.kind # "spawn"
               /\ Ok(r) => phase[w] = "wait" /\ exit[p].code = "zero"
               /\ phase[w] # "wait" => r.kind = "timeout"
               /\ r.why = exit[p].why \/ (r.why = "other" /\ proc[p] # "free")
    <3>1. exit[p] \in Exits
      BY <1>0, <2>1, <2>6
    <3>2. Drained(w) \subseteq {exit[p].why, "other"}
          /\ (proc[p] = "free" => Drained(w) = {exit[p].why})
      BY DEF Drained
    <3>3. CASE phase[w] = "wait"
      <4>1. r \in [kind : {IF exit[p].code = "zero" THEN "ok" ELSE "exit"},
                   code : {exit[p].code}, why : Drained(w)]
        BY <1>2, <3>3 DEF Returns, ResultsOf
      <4>. QED BY <3>1, <3>2, <3>3, <4>1 DEF Exits, Results, Reasons, Ok
    <3>4. CASE phase[w] # "wait"
      <4>1. r \in [kind : {"timeout"}, code : {exit[p].code}, why : Drained(w)]
        BY <1>2, <2>6, <3>4 DEF Returns, ResultsOf
      <4>. QED BY <3>1, <3>2, <3>4, <4>1 DEF Exits, Results, Reasons, Ok
    <3>. QED BY <3>3, <3>4
  <2>7. CASE exit[p] = None
    <3>1. r \in Results /\ r.kind = "timeout"
      BY <2>5, <2>7 DEF Results, Codes, Reasons
    <3>. QED BY <2>1, <2>2, <2>3, <2>7, <3>1 DEF Answered, Ok
  <2>8. CASE exit[p] # None
    <3>1. Ok(r) => Said(w, "zero")
      BY <2>1, <2>6, <2>8 DEF Said
    <3>. QED BY <2>1, <2>2, <2>3, <2>6, <2>8, <3>1 DEF Answered
  <2>. QED BY <2>7, <2>8
<1>. QED BY <1>1, <1>2 DEF Got

\* How a closure goes on after an Err or Ok, e, of one of its commands: with
\* stage s, or, s being done, with the result x.
Follows(w, e, s, x) ==
    /\ s \in Stages \ {"idle"} /\ x \in Errors \cup {None}
    /\ s \in {"fix", "fix2", "fallback"} => backend = "apt"
    /\ s = "done" /\ x = None => e = None /\ stage[w] # "fallback"
    /\ s = "done" /\ e = None /\ x # None => stage[w] = "fallback"
    /\ s = "done" /\ e # None /\ x # None => x.kind = e.kind
    /\ backend = "apt" /\ stage[w] \in {"fix", "fix2", "fallback"} /\ e # None => s = "done"
    /\ backend = "apt" /\ stage[w] = "fallback" => s = "done"
    /\ stage[w] = "change" => s = "done"
    /\ backend = "apt" /\ stage[w] \in {"apply", "apply2"} /\ e # None =>
          s \in {"fallback", "done"} \/ e.why = "deps"

\* The closure takes stage s with error x.
Takes(w, s, x) ==
    /\ stage' = [stage EXCEPT ![w] = s] /\ err' = [err EXCEPT ![w] = x]
    /\ retried' \in [Workers -> BOOLEAN]

\* An error that ends a closure keeps its kind, whatever context is added.
LEMMA ContextKept ==
    ASSUME NEW e \in Errors, NEW c \in {"none", "refresh", "fix"}
    PROVE  /\ [e EXCEPT !.ctx = c] \in Errors
           /\ [e EXCEPT !.ctx = c].kind = e.kind /\ [e EXCEPT !.ctx = c].why = e.why
BY DEF Errors

\* The patch closure ends, or is in its second round.
LEMMA ApplyFailsEffect ==
    ASSUME Shapes, NEW w \in Workers, NEW e \in Errors, ApplyFails(w, e)
    PROVE  \/ Takes(w, "done", e)
           \/ Takes(w, "refresh", None) /\ backend # "apt"
<1>. retried \in [Workers -> BOOLEAN]
  BY DEF Shapes
<1>1. CASE IsFetchError(e) /\ ~retried[w]
  BY <1>1 DEF ApplyFails, IsFetchError, Takes
<1>2. CASE ~ (IsFetchError(e) /\ ~retried[w])
  BY <1>2 DEF ApplyFails, Ends, Takes
<1>. QED BY <1>1, <1>2

\* What a closure that is busy does with the outcome of a command.
LEMMA OutcomeEffect ==
    ASSUME Shapes, NEW w \in Workers, Busy(w), stage[w] # "refresh",
           stage[w] = "fallback" => backend = "apt",
           NEW e \in Errors \cup {None}, IF e = None THEN AfterOk(w) ELSE AfterErr(w, e)
    PROVE  \E s, x : Takes(w, s, x) /\ Follows(w, e, s, x)
<1>. USE NoneIsNothing
<1>0. /\ retried \in [Workers -> BOOLEAN]
      /\ stage[w] \in {"change", "fix", "fix2", "apply", "apply2", "fallback"}
  BY DEF Shapes, TypeOK, Stages, Busy
<1>1. CASE e = None
  <2>1. CASE stage[w] \in {"change", "apply", "apply2"}
    <3>1. Takes(w, "done", None)
      BY <1>0, <1>1, <2>1 DEF AfterOk, Ends, Takes
    <3>. QED BY <1>1, <2>1, <3>1 DEF Follows, Stages
  <2>2. CASE stage[w] = "fix"
    <3>1. Takes(w, "apply", None)
      BY <1>0, <1>1, <2>2 DEF AfterOk, GoesOn, Takes
    <3>. QED BY <1>1, <2>2, <3>1 DEF Follows, Stages
  <2>3. CASE stage[w] = "fix2"
    <3>1. Takes(w, "apply2", None)
      BY <1>0, <1>1, <2>3 DEF AfterOk, GoesOn, Takes
    <3>. QED BY <1>1, <2>3, <3>1 DEF Follows, Stages
  <2>4. CASE stage[w] = "fallback"
    <3>1. HeldPackagePartialFailure \in Errors
      BY DEF HeldPackagePartialFailure, Errors
    <3>2. ApplyFails(w, HeldPackagePartialFailure)
      BY <1>1, <2>4 DEF AfterOk, FallbackDone
    <3>3. Takes(w, "done", HeldPackagePartialFailure)
      BY <2>4, <3>1, <3>2, ApplyFailsEffect
    <3>. QED BY <1>1, <2>4, <3>1, <3>3 DEF Follows, Stages
  <2>. QED BY <1>0, <2>1, <2>2, <2>3, <2>4
<1>2. CASE e # None
  <2>0. e \in Errors
    BY <1>2
  <2>1. CASE stage[w] = "change"
    <3>1. Takes(w, "done", e)
      BY <1>0, <1>2, <2>1 DEF AfterErr, Ends, Takes
    <3>. QED BY <1>2, <2>0, <2>1, <3>1 DEF Follows, Stages
  <2>2. ASSUME stage[w] # "change", NEW f \in Errors, f.kind = e.kind, ApplyFails(w, f)
        PROVE  \E s, x : Takes(w, s, x) /\ Follows(w, e, s, x)
    <3>1. CASE Takes(w, "done", f)
      <4>1. Follows(w, e, "done", f)
        BY <1>2, <2>2 DEF Follows, Stages
      <4>. QED BY <3>1, <4>1
    <3>2. CASE Takes(w, "refresh", None) /\ backend # "apt"
      <4>1. Follows(w, e, "refresh", None)
        BY <1>2, <2>2, <3>2 DEF Follows, Stages
      <4>. QED BY <3>2, <4>1
    <3>. QED BY <2>2, <3>1, <3>2, ApplyFailsEffect
  <2>3. CASE stage[w] \in {"fix", "fix2"}
    <3>1. ApplyFails(w, [e EXCEPT !.ctx = "fix"])
      BY <1>2, <2>3 DEF AfterErr
    <3>2. [e EXCEPT !.ctx = "fix"] \in Errors /\ [e EXCEPT !.ctx = "fix"].kind = e.kind
      BY <2>0, ContextKept
    <3>. QED BY <2>2, <2>3, <3>1, <3>2
  <2>4. CASE stage[w] = "fallback"
    <3>1. ApplyFails(w, e)
      BY <1>2, <2>4 DEF AfterErr
    <3>. QED BY <2>0, <2>2, <2>4, <3>1
  <2>5. CASE stage[w] \in {"apply", "apply2"}
    <3>1. CASE backend = "apt" /\ HeldBlock(w, e)
      <4>1. Takes(w, "fallback", None)
        BY <1>0, <1>2, <2>5, <3>1 DEF AfterErr, GoesOn, Takes
      <4>2. Follows(w, e, "fallback", None)
        BY <1>2, <2>5, <3>1 DEF Follows, Stages
      <4>. QED BY <4>1, <4>2
    <3>2. CASE /\ ~ (backend = "apt" /\ HeldBlock(w, e))
               /\ backend = "apt" /\ stage[w] = "apply" /\ e.kind # "spawn" /\ e.why = "deps"
      <4>1. Takes(w, "fix2", None)
        BY <1>0, <1>2, <2>5, <3>2 DEF AfterErr, GoesOn, Takes
      <4>2. Follows(w, e, "fix2", None)
        BY <1>2, <2>5, <3>2 DEF Follows, Stages
      <4>. QED BY <4>1, <4>2
    <3>3. CASE /\ ~ (backend = "apt" /\ HeldBlock(w, e))
               /\ ~ (backend = "apt" /\ stage[w] = "apply" /\ e.kind # "spawn" /\ e.why = "deps")
      <4>1. ApplyFails(w, e)
        BY <1>2, <2>5, <3>3 DEF AfterErr
      <4>. QED BY <2>0, <2>2, <2>5, <4>1
    <3>. QED BY <3>1, <3>2, <3>3
  <2>. QED BY <1>0, <2>1, <2>3, <2>4, <2>5
<1>. QED BY <1>1, <1>2

\* The call of the worker returns e: refresh_package_cache records it, any other
\* closure goes on.
Back(w, e) ==
    /\ mutex' = IF mutex = w THEN None ELSE mutex
    /\ \/ /\ stage[w] = "refresh"
          /\ IF e = None THEN UpdateSuccess ELSE UpdateFailure
          /\ at' = [at EXCEPT ![w] = "persist"] /\ err' = [err EXCEPT ![w] = e]
          /\ UNCHANGED <<stage, retried>>
       \/ /\ stage[w] # "refresh"
          /\ at' = [at EXCEPT ![w] = "call"] /\ UNCHANGED cacheVars
          /\ \E s, x : Takes(w, s, x) /\ Follows(w, e, s, x)

\* Leave is that.
LEMMA LeaveEffect ==
    ASSUME Shapes, NEW w \in Workers, Busy(w), stage[w] = "fallback" => backend = "apt",
           NEW e \in Errors \cup {None}, Leave(w, e)
    PROVE  Back(w, e)
<1>1. CASE stage[w] = "refresh"
  BY <1>1 DEF Leave, CallReturns, Back
<1>2. CASE stage[w] # "refresh"
  <2>1. /\ mutex' = (IF mutex = w THEN None ELSE mutex)
        /\ at' = [at EXCEPT ![w] = "call"] /\ UNCHANGED cacheVars
        /\ IF e = None THEN AfterOk(w) ELSE AfterErr(w, e)
    BY <1>2 DEF Leave, CallReturns
  <2>. QED BY <1>2, <2>1, OutcomeEffect DEF Back
<1>. QED BY <1>1, <1>2

\* run_apt_safe goes on inside its critical section.
Inside(w, r, a, x) ==
    /\ backend = "apt" /\ UNCHANGED <<cacheVars, mutex, stage, retried, holder>>
    /\ at' = [at EXCEPT ![w] = a] /\ err' = [err EXCEPT ![w] = x]
    /\ \/ at[w] = "preConf" /\ Ok(r) /\ a = "cmd" /\ x = None
       \/ at[w] = "cmd" /\ Ok(r) /\ a = "audit" /\ x = None
       \/ at[w] = "cmd" /\ ~ Ok(r) /\ a = "post" /\ x = AsError(r)
       \/ at[w] = "audit" /\ Ok(r) /\ a = "heal" /\ x = None
       \/ at[w] = "healConf" /\ Ok(r) /\ a = "reaudit" /\ x = None

\* The call returns e.
Outcome(w, r, e) ==
    /\ Back(w, e) /\ e \in Errors \cup {None}
    /\ holder' = holder \/ backend = "pacman"
    /\ \/ backend = "apt" /\ at[w] = "postConf" /\ e = err[w]
       \/ backend = "apt" /\ at[w] \in {"audit", "reaudit"} /\ Ok(r) /\ r.why # "dirty" /\ e = None
       \/ backend = "apt" /\ at[w] = "reaudit" /\ e = AuditDirty
       \/ backend = "apt" /\ at[w] \notin {"cmd", "postConf"} /\ e # None
       \/ backend # "apt" /\ e = None
       \/ backend # "apt" /\ e = AsError(r) /\ e # None

\* What CommandDone leaves alone, and the histories it keeps.
Records(w, r) ==
    /\ late' = [late EXCEPT ![w] = @ \/ (at[w] = "cmd" /\ phase[w] \in {"term", "reap"})]
    /\ heldBack' = [heldBack EXCEPT ![w] = @ \/
           (at[w] = "cmd" /\ cur[w] # None /\ job[w] = "PatchAll" /\ stage[w] # "fallback"
             /\ exit[cur[w]] # None /\ exit[cur[w]].why = "held")]
    /\ UNCHANGED <<backend, plan, writers, what, db, job, snap, restarts, restarted>>

\* An error of the runner is an error of the closure.
LEMMA RunnerError ==
    ASSUME NEW r \in Results, ~ Ok(r)
    PROVE  AsError(r) \in Errors /\ AsError(r).kind = r.kind /\ AsError(r).why = r.why
BY DEF Results, Ok, AsError, Errors

\* CommandDone, whichever command it is about.
LEMMA DoneEffect ==
    ASSUME Shapes, RunnerInv, ControlInv, NEW w \in Workers, CommandDone(w)
    PROVE  \E r \in Results :
              /\ Answered(w, r) /\ Records(w, r) /\ Busy(w)
              /\ (\E a, x : Inside(w, r, a, x)) \/ (\E e : Outcome(w, r, e))
<1>. USE NoneIsNothing
<1>1. PICK r \in Results :
        /\ Got(w, r) /\ Records(w, r)
        /\ IF backend = "apt"
           THEN AptStep(w, r) /\ UNCHANGED holder
           ELSE LET good == OkAccepting(r, Acceptable(w)) IN
                /\ Leave(w, IF good THEN None ELSE AsError(r))
                /\ holder' = IF backend = "pacman" /\ ~good /\ r.kind = "timeout"
                             THEN None ELSE holder
  BY Zenon DEF CommandDone, Records
<1>2. Answered(w, r)
  BY <1>1, GotEffect
<1>3. at[w] \in Launching /\ Busy(w) /\ (stage[w] = "fallback" => backend = "apt")
  BY <1>2 DEF Answered, ControlInv, Launching
<1>4. err[w] \in Errors \cup {None}
  BY DEF Shapes, TypeOK
<1>5. ASSUME NEW e \in Errors \cup {None}, Leave(w, e) PROVE Back(w, e)
  BY <1>3, <1>5, LeaveEffect
<1>6. ~ Ok(r) => AsError(r) \in Errors /\ AsError(r) # None
  BY <1>1, RunnerError
<1>7. AuditDirty \in Errors
  BY DEF AuditDirty, Errors, Reasons
<1>8. CASE backend = "apt"
  <2>0. AptStep(w, r) /\ UNCHANGED holder
    BY <1>1, <1>8
  <2>1. CASE at[w] = "preConf"
    <3>1. CASE Ok(r)
      <4>1. Inside(w, r, "cmd", None)
        BY <1>8, <2>0, <2>1, <3>1 DEF AptStep, Continue, Inside
      <4>. QED BY <1>1, <1>2, <1>3, <4>1
    <3>2. CASE ~ Ok(r)
      <4>1. Leave(w, AsError(r))
        BY <2>0, <2>1, <3>2 DEF AptStep
      <4>2. Outcome(w, r, AsError(r))
        BY <1>5, <1>6, <1>8, <2>0, <2>1, <3>2, <4>1 DEF Outcome
      <4>. QED BY <1>1, <1>2, <1>3, <4>2
    <3>. QED BY <3>1, <3>2
  <2>2. CASE at[w] = "cmd"
    <3>0. AptCommand(w, r)
      BY <2>0, <2>2 DEF AptStep
    <3>1. CASE Ok(r)
      <4>1. Inside(w, r, "audit", None)
        BY <1>8, <2>0, <2>2, <3>0, <3>1 DEF AptCommand, Continue, Inside
      <4>. QED BY <1>1, <1>2, <1>3, <4>1
    <3>2. CASE ~ Ok(r)
      <4>1. Inside(w, r, "post", AsError(r))
        BY <1>8, <2>0, <2>2, <3>0, <3>2 DEF AptCommand, Continue, Inside
      <4>. QED BY <1>1, <1>2, <1>3, <4>1
    <3>. QED BY <3>1, <3>2
  <2>3. CASE at[w] = "postConf"
    <3>1. Leave(w, err[w])
      BY <2>0, <2>3 DEF AptStep
    <3>2. Outcome(w, r, err[w])
      BY <1>4, <1>5, <1>8, <2>0, <2>3, <3>1 DEF Outcome
    <3>. QED BY <1>1, <1>2, <1>3, <3>2
  <2>4. CASE at[w] = "audit"
    <3>1. CASE ~ Ok(r)
      <4>1. Leave(w, AsError(r))
        BY <2>0, <2>4, <3>1 DEF AptStep
      <4>2. Outcome(w, r, AsError(r))
        BY <1>5, <1>6, <1>8, <2>0, <2>4, <3>1, <4>1 DEF Outcome
      <4>. QED BY <1>1, <1>2, <1>3, <4>2
    <3>2. CASE Ok(r) /\ r.why = "dirty"
      <4>1. Inside(w, r, "heal", None)
        BY <1>8, <2>0, <2>4, <3>2 DEF AptStep, Continue, Inside
      <4>. QED BY <1>1, <1>2, <1>3, <4>1
    <3>3. CASE Ok(r) /\ r.why # "dirty"
      <4>1. Leave(w, None)
        BY <2>0, <2>4, <3>3 DEF AptStep
      <4>2. Outcome(w, r, None)
        BY <1>5, <1>8, <2>0, <2>4, <3>3, <4>1 DEF Outcome
      <4>. QED BY <1>1, <1>2, <1>3, <4>2
    <3>. QED BY <3>1, <3>2, <3>3
  <2>5. CASE at[w] = "healConf"
    <3>1. CASE Ok(r)
      <4>1. Inside(w, r, "reaudit", None)
        BY <1>8, <2>0, <2>5, <3>1 DEF AptStep, Continue, Inside
      <4>. QED BY <1>1, <1>2, <1>3, <4>1
    <3>2. CASE ~ Ok(r)
      <4>1. Leave(w, AsError(r))
        BY <2>0, <2>5, <3>2 DEF AptStep
      <4>2. Outcome(w, r, AsError(r))
        BY <1>5, <1>6, <1>8, <2>0, <2>5, <3>2, <4>1 DEF Outcome
      <4>. QED BY <1>1, <1>2, <1>3, <4>2
    <3>. QED BY <3>1, <3>2
  <2>6. CASE at[w] = "reaudit"
    <3>1. CASE ~ Ok(r)
      <4>1. Leave(w, AsError(r))
        BY <2>0, <2>6, <3>1 DEF AptStep
      <4>2. Outcome(w, r, AsError(r))
        BY <1>5, <1>6, <1>8, <2>0, <2>6, <3>1, <4>1 DEF Outcome
      <4>. QED BY <1>1, <1>2, <1>3, <4>2
    <3>2. CASE Ok(r) /\ r.why = "dirty"
      <4>1. Leave(w, AuditDirty)
        BY <2>0, <2>6, <3>2 DEF AptStep
      <4>2. Outcome(w, r, AuditDirty)
        BY <1>5, <1>7, <1>8, <2>0, <2>6, <4>1 DEF Outcome
      <4>. QED BY <1>1, <1>2, <1>3, <4>2
    <3>3. CASE Ok(r) /\ r.why # "dirty"
      <4>1. Leave(w, None)
        BY <2>0, <2>6, <3>3 DEF AptStep
      <4>2. Outcome(w, r, None)
        BY <1>5, <1>8, <2>0, <2>6, <3>3, <4>1 DEF Outcome
      <4>. QED BY <1>1, <1>2, <1>3, <4>2
    <3>. QED BY <3>1, <3>2, <3>3
  <2>. QED BY <1>3, <2>1, <2>2, <2>3, <2>4, <2>5, <2>6 DEF Launching
<1>9. CASE backend # "apt"
  <2>. DEFINE good == OkAccepting(r, Acceptable(w))
  <2>1. /\ Leave(w, IF good THEN None ELSE AsError(r))
        /\ holder' = holder \/ backend = "pacman"
    BY <1>1, <1>9
  <2>2. CASE good
    <3>1. Outcome(w, r, None)
      BY <1>5, <1>9, <2>1, <2>2 DEF Outcome
    <3>. QED BY <1>1, <1>2, <1>3, <3>1
  <2>3. CASE ~ good
    <3>1. ~ Ok(r)
      BY <2>3 DEF OkAccepting, Ok
    <3>2. Outcome(w, r, AsError(r))
      BY <1>5, <1>6, <1>9, <2>1, <2>3, <3>1 DEF Outcome
    <3>. QED BY <1>1, <1>2, <1>3, <3>2
  <2>. QED BY <2>2, <2>3
<1>. QED BY <1>8, <1>9

\* refresh_package_cache returns and the closure goes on with stage s, or ends
\* with the result x.
Refreshed(w, s, x) ==
    /\ at[w] = "rename" /\ at' = [at EXCEPT ![w] = "call"] /\ snap' = [snap EXCEPT ![w] = "none"]
    /\ disk' \in {snap[w], disk, "none"}
    /\ UNCHANGED <<last_update, refreshed, firstFailure>>
    /\ UNCHANGED <<runnerVars, backend, plan, mutex, holder, writers, what, db, job, late,
                   heldBack, restarts, restarted>>
    /\ Takes(w, s, x)
    /\ s \in {"done", "change", "fix", "apply"} /\ x \in Errors \cup {None}
    /\ s = "fix" => backend = "apt"
    /\ s = "done" /\ x = None => job[w] = "Refresh" /\ err[w] = None
    /\ x # None => s = "done" /\ err[w] # None /\ x.kind = err[w].kind
    /\ err[w] # None /\ job[w] # "SelfUpdate" => s = "done" /\ x # None

\* RefreshReturns is that.
LEMMA RefreshEffect ==
    ASSUME Shapes, NEW w \in Workers, RefreshReturns(w)
    PROVE  \E s, x : Refreshed(w, s, x)
<1>. USE NoneIsNothing
<1>0. err[w] \in Errors \cup {None} /\ retried \in [Workers -> BOOLEAN]
  BY DEF Shapes, TypeOK
<1>1. disk' \in {snap[w], disk, "none"} /\ UNCHANGED <<last_update, refreshed, firstFailure>>
  BY DEF RefreshReturns, Persisted
<1>2. /\ at[w] = "rename" /\ at' = [at EXCEPT ![w] = "call"]
      /\ snap' = [snap EXCEPT ![w] = "none"]
      /\ UNCHANGED <<runnerVars, backend, plan, mutex, holder, writers, what, db, job, late,
                     heldBack, restarts, restarted>>
  BY DEF RefreshReturns
<1>3. CASE err[w] # None /\ job[w] # "SelfUpdate"
  <2>. DEFINE c == IF job[w] = "Refresh" THEN "none" ELSE "refresh"
              x == [err[w] EXCEPT !.ctx = c]
  <2>1. Ends(w, x)
    BY <1>3 DEF RefreshReturns
  <2>2. x \in Errors /\ x.kind = err[w].kind
    BY <1>0, <1>3, ContextKept
  <2>. HIDE DEF x
  <2>3. Takes(w, "done", x)
    BY <1>0, <2>1 DEF Ends, Takes
  <2>. QED BY <1>1, <1>2, <1>3, <2>2, <2>3 DEF Refreshed
<1>4. CASE ~ (err[w] # None /\ job[w] # "SelfUpdate") /\ job[w] = "Refresh"
  <2>1. Takes(w, "done", None)
    BY <1>0, <1>4 DEF RefreshReturns, Ends, Takes
  <2>. QED BY <1>1, <1>2, <1>4, <2>1 DEF Refreshed
<1>5. CASE ~ (err[w] # None /\ job[w] # "SelfUpdate") /\ job[w] = "SelfUpdate"
  <2>1. Takes(w, "change", None)
    BY <1>0, <1>5 DEF RefreshReturns, GoesOn, Takes
  <2>. QED BY <1>1, <1>2, <1>5, <2>1 DEF Refreshed
<1>6. CASE /\ ~ (err[w] # None /\ job[w] # "SelfUpdate")
           /\ job[w] \notin {"Refresh", "SelfUpdate"}
  <2>1. Takes(w, ApplyStage(w), None)
    BY <1>0, <1>6 DEF RefreshReturns, GoesOn, Takes
  <2>2. ApplyStage(w) \in {"fix", "apply"} /\ (ApplyStage(w) = "fix" => backend = "apt")
    BY DEF ApplyStage
  <2>. QED BY <1>1, <1>2, <1>6, <2>1, <2>2 DEF Refreshed
<1>. QED BY <1>3, <1>4, <1>5, <1>6

-----------------------------------------------------------------------------
(* Every part of the invariant is kept by every step *)

\* The types hold after every step.
LEMMA ShapesStep ==
    ASSUME Shapes, RunnerInv, ControlInv, [Next]_vars
    PROVE  Shapes'
<1>1. ASSUME NEW w \in Workers, NEW o \in plan[w], Start(w, o) PROVE Shapes'
  BY <1>1, OpsAssumption
    DEF Start, runnerVars, cacheVars, Shapes, TypeOK, RunnerTypeOK,
        CacheTypeOK, AllOperations, FirstStage, Stages
<1>2. ASSUME NEW w \in Workers, TakesSnapshot(w) PROVE Shapes'
  BY <1>2
    DEF TakesSnapshot, runnerVars, cacheVars, Shapes, TypeOK, RunnerTypeOK,
        CacheTypeOK, Ats, Ages
<1>3. ASSUME NEW w \in Workers, RefreshReturns(w) PROVE Shapes'
  <2>1. PICK s, x : Refreshed(w, s, x)
    BY <1>3, RefreshEffect
  <2>. QED
    BY <2>1
      DEF Refreshed, Takes, runnerVars, Stages, Ats, Ages, Shapes, TypeOK,
          RunnerTypeOK, CacheTypeOK
<1>4. ASSUME NEW w \in Workers, LockMutex(w) PROVE Shapes'
  BY <1>4
    DEF LockMutex, runnerVars, cacheVars, Shapes, TypeOK, RunnerTypeOK,
        CacheTypeOK, Ats
<1>5. ASSUME NEW w \in Workers, PlainCall(w) PROVE Shapes'
  BY <1>5
    DEF PlainCall, runnerVars, cacheVars, Shapes, TypeOK, RunnerTypeOK,
        CacheTypeOK, Ats
<1>6. ASSUME NEW w \in Workers, CheckLocks(w) PROVE Shapes'
  <2>1. at'[w] \in Ats /\ at' = [at EXCEPT ![w] = at'[w]]
    BY <1>6 DEF CheckLocks, Ats, Shapes, TypeOK, RunnerTypeOK, CacheTypeOK
  <2>. QED
    BY <1>6, <2>1
      DEF CheckLocks, runnerVars, cacheVars, Shapes, TypeOK, RunnerTypeOK,
          CacheTypeOK
<1>7. ASSUME NEW w \in Workers, RemoveLocks(w) PROVE Shapes'
  <2>1. at'[w] \in Ats /\ at' = [at EXCEPT ![w] = at'[w]]
    BY <1>7 DEF RemoveLocks, Ats, Shapes, TypeOK, RunnerTypeOK, CacheTypeOK
  <2>. QED
    BY <1>7, <2>1
      DEF RemoveLocks, runnerVars, cacheVars, Shapes, TypeOK, RunnerTypeOK,
          CacheTypeOK
<1>8. ASSUME NEW w \in Workers, RunCommand(w) PROVE Shapes'
  BY <1>8
    DEF RunCommand, Spawn, cacheVars, Shapes, TypeOK, RunnerTypeOK,
        CacheTypeOK, CommandAt, Commands, Phases
<1>9. ASSUME NEW w \in Workers, CommandDone(w) PROVE Shapes'
  <2>. USE NoneIsNothing
  <2>1. PICK r \in Results :
          /\ Answered(w, r) /\ Records(w, r)
          /\ (\E a, x : Inside(w, r, a, x)) \/ (\E e : Outcome(w, r, e))
    BY <1>9, DoneEffect
  <2>2. RunnerTypeOK'
    BY <2>1 DEF Answered, Phases, Shapes, TypeOK, RunnerTypeOK, CacheTypeOK
  <2>3. /\ backend' \in AllBackends /\ plan' \in [Workers -> SUBSET AllOperations]
        /\ job' \in [Workers -> AllOperations \cup {"none"}] /\ snap' \in [Workers -> Ages]
        /\ late' \in [Workers -> BOOLEAN] /\ heldBack' \in [Workers -> BOOLEAN]
        /\ writers' \subseteq Procs /\ what' \in [Procs -> Commands \cup {"none"}]
    <3>1. late' \in [Workers -> BOOLEAN] /\ heldBack' \in [Workers -> BOOLEAN]
      BY <2>1 DEF Records, Shapes
    <3>. QED BY <2>1, <3>1 DEF Records, Shapes, TypeOK
  <2>4. holder' \in Procs \cup {None, "stale"}
    BY <1>9, <2>1
      DEF CommandDone, Inside, Outcome, Shapes, TypeOK, RunnerTypeOK,
          CacheTypeOK
  <2>5. ASSUME NEW a, NEW x, Inside(w, r, a, x) PROVE Shapes'
    <3>1. a \in Ats /\ x \in Errors \cup {None}
      BY <2>5, RunnerError DEF Inside, Ats
    <3>. QED
      BY <2>2, <2>3, <2>4, <2>5, <3>1
        DEF Inside, cacheVars, Shapes, TypeOK, RunnerTypeOK, CacheTypeOK
  <2>6. ASSUME NEW e, Outcome(w, r, e) PROVE Shapes'
    <3>1. Back(w, e) /\ e \in Errors \cup {None}
      BY <2>6 DEF Outcome
    <3>2. /\ at' \in [Workers -> Ats] /\ stage' \in [Workers -> Stages]
          /\ err' \in [Workers -> Errors \cup {None}] /\ retried' \in [Workers -> BOOLEAN]
          /\ mutex' \in Workers \cup {None}
      BY <3>1 DEF Back, Takes, Follows, Ats, Shapes, TypeOK, RunnerTypeOK, CacheTypeOK
    <3>3. CacheTypeOK'
      BY <3>1
        DEF Back, UpdateSuccess, UpdateFailure, cacheVars, Ages, Shapes, TypeOK,
            RunnerTypeOK, CacheTypeOK
    <3>. QED BY <2>2, <2>3, <2>4, <3>2, <3>3 DEF Shapes, TypeOK, RunnerTypeOK, CacheTypeOK
  <2>. QED BY <2>1, <2>5, <2>6
<1>10. ASSUME NEW w \in Workers, Deadline(w), UNCHANGED <<cacheVars, opsVars>>
      PROVE  Shapes'
  BY <1>10
    DEF Deadline, cacheVars, opsVars, Shapes, TypeOK, RunnerTypeOK,
        CacheTypeOK, runnerVars, Phases
<1>11. ASSUME NEW w \in Workers, Escalate(w), UNCHANGED <<cacheVars, opsVars>>
      PROVE  Shapes'
  BY <1>11
    DEF Escalate, cacheVars, opsVars, Shapes, TypeOK, RunnerTypeOK,
        CacheTypeOK, Phases
<1>12. ASSUME NEW p \in Procs, TakesLock(p) PROVE Shapes'
  BY <1>12
    DEF TakesLock, runnerVars, cacheVars, Shapes, TypeOK, RunnerTypeOK,
        CacheTypeOK
<1>13. ASSUME NEW p \in Procs, Finishes(p) PROVE Shapes'
  <2>1. PICK c \in {"zero", "accepted", "failure"}, left \in {"free", "orphans"}, y \in Reasons :
          LeaderEnds(p, c, y, left)
    BY <1>13 DEF Finishes, Says, Reasons
  <2>2. RunnerTypeOK' /\ what' \in [Procs -> Commands \cup {"none"}]
    BY <1>13, <2>1 DEF LeaderEnds, Exits, Codes, Shapes, TypeOK, RunnerTypeOK, CacheTypeOK
  <2>. QED
    BY <1>13, <2>2
      DEF Finishes, LetsGo, cacheVars, Shapes, TypeOK, RunnerTypeOK, CacheTypeOK
<1>14. ASSUME NEW p \in Procs, Refused(p) PROVE Shapes'
  <2>1. LeaderEnds(p, "failure", "other", "free")
    BY <1>14 DEF Refused
  <2>2. RunnerTypeOK' /\ what' \in [Procs -> Commands \cup {"none"}]
    BY <2>1 DEF LeaderEnds, Exits, Codes, Reasons, Shapes, TypeOK, RunnerTypeOK, CacheTypeOK
  <2>. QED BY <1>14, <2>2 DEF Refused, cacheVars, Shapes, TypeOK, RunnerTypeOK, CacheTypeOK
<1>15. ASSUME NEW p \in Procs, LeavesChildren(p) PROVE Shapes'
  <2>1. LeaderEnds(p, "signal", "other", "orphans")
    BY <1>15 DEF LeavesChildren
  <2>2. RunnerTypeOK' /\ what' \in [Procs -> Commands \cup {"none"}]
    BY <2>1 DEF LeaderEnds, Exits, Codes, Reasons, Shapes, TypeOK, RunnerTypeOK, CacheTypeOK
  <2>. QED
    BY <1>15, <2>2
      DEF LeavesChildren, cacheVars, Shapes, TypeOK, RunnerTypeOK, CacheTypeOK
<1>16. ASSUME NEW p \in Procs, Dies(p) PROVE Shapes'
  <2>1. LeaderEnds(p, "signal", "other", "free")
    BY <1>16 DEF Dies
  <2>2. RunnerTypeOK' /\ what' \in [Procs -> Commands \cup {"none"}]
    BY <2>1 DEF LeaderEnds, Exits, Codes, Reasons, Shapes, TypeOK, RunnerTypeOK, CacheTypeOK
  <2>. QED BY <1>16, <2>2 DEF Dies, cacheVars, Shapes, TypeOK, RunnerTypeOK, CacheTypeOK
<1>17. ASSUME NEW p \in Procs, OrphansEnd(p) PROVE Shapes'
  BY <1>17
    DEF OrphansEnd, LetsGo, cacheVars, Shapes, TypeOK, RunnerTypeOK,
        CacheTypeOK
<1>18. ASSUME CacheExpires PROVE Shapes'
  BY <1>18
    DEF CacheExpires, Expire, runnerVars, Shapes, TypeOK, RunnerTypeOK,
        CacheTypeOK, Older, Ages
<1>19. ASSUME AgentRestarts PROVE Shapes'
  BY <1>19
    DEF AgentRestarts, LoadStateFile, Shapes, TypeOK, RunnerTypeOK,
        CacheTypeOK, Phases, Stages, Ats, Ages
<1>20. ASSUME UNCHANGED vars PROVE Shapes'
  BY <1>20
    DEF vars, runnerVars, cacheVars, opsVars, Shapes, TypeOK, RunnerTypeOK,
        CacheTypeOK
<1>. QED
  BY <1>1, <1>2, <1>3, <1>4, <1>5, <1>6, <1>7, <1>8, <1>9, <1>10, <1>11,
     <1>12, <1>13, <1>14, <1>15, <1>16, <1>17, <1>18, <1>19, <1>20
    DEF Next, Worker, Process, RunnerMoves, RunnerStep, Finished

\* CommandDone is about its own worker only.
LEMMA DoneFrame ==
    ASSUME Shapes, RunnerInv, ControlInv, NEW w \in Workers, CommandDone(w)
    PROVE  /\ \A v \in Workers : v # w =>
                 /\ at'[v] = at[v] /\ stage'[v] = stage[v] /\ err'[v] = err[v]
                 /\ late'[v] = late[v] /\ heldBack'[v] = heldBack[v]
                 /\ cur'[v] = cur[v] /\ phase'[v] = phase[v]
           /\ cur'[w] = None /\ phase'[w] = "idle" /\ proc' = proc
           /\ \A p \in Procs : p # cur[w] => exit'[p] = exit[p]
           /\ \A p \in Procs : exit'[p] = exit[p] \/ exit'[p] = None
           /\ UNCHANGED <<backend, plan, writers, what, db, job, snap, restarted>>
           /\ holder' = holder \/ backend = "pacman"
<1>1. PICK r \in Results :
        /\ Answered(w, r) /\ Records(w, r)
        /\ (\E a, x : Inside(w, r, a, x)) \/ (\E e : Outcome(w, r, e))
  BY DoneEffect
<1>2. \A v \in Workers : v # w => at'[v] = at[v] /\ stage'[v] = stage[v] /\ err'[v] = err[v]
  <2>1. ASSUME NEW a, NEW x, Inside(w, r, a, x)
        PROVE  \A v \in Workers : v # w =>
                  at'[v] = at[v] /\ stage'[v] = stage[v] /\ err'[v] = err[v]
    BY <2>1 DEF Inside, Shapes, TypeOK
  <2>2. ASSUME NEW e, Outcome(w, r, e)
        PROVE  \A v \in Workers : v # w =>
                  at'[v] = at[v] /\ stage'[v] = stage[v] /\ err'[v] = err[v]
    BY <2>2 DEF Outcome, Back, Takes, Shapes, TypeOK
  <2>. QED BY <1>1, <2>1, <2>2
<1>3. \A v \in Workers : v # w => late'[v] = late[v] /\ heldBack'[v] = heldBack[v]
  BY <1>1 DEF Records, Shapes
<1>4. /\ \A v \in Workers : v # w => cur'[v] = cur[v] /\ phase'[v] = phase[v]
      /\ cur'[w] = None /\ phase'[w] = "idle" /\ proc' = proc
      /\ \A p \in Procs : p # cur[w] => exit'[p] = exit[p]
      /\ \A p \in Procs : exit'[p] = exit[p] \/ exit'[p] = None
  BY <1>1 DEF Answered, Shapes, TypeOK, RunnerTypeOK
<1>. QED BY <1>1, <1>2, <1>3, <1>4 DEF Records, Inside, Outcome

\* How a leader ended is on record.
LEMMA RecordOfExit ==
    ASSUME NEW c \in {"zero", "accepted", "failure", "signal"}, NEW y \in Reasons
    PROVE  [code |-> c, why |-> y] # None
<1>1. [code |-> c, why |-> y] \in Exits
  BY DEF Exits, Codes
<1>. QED BY <1>1, NoneIsNothing

\* The runner keeps its books.
LEMMA RunnerStepKeeps ==
    ASSUME Shapes, RunnerInv, ControlInv, [Next]_vars
    PROVE  RunnerInv'
<1>1. ASSUME NEW w \in Workers, NEW o \in plan[w], Start(w, o) PROVE RunnerInv'
  BY <1>1, NoneIsNothing
    DEF Start, runnerVars, cacheVars, RunnerInv, Dead, Launching, Shapes,
        TypeOK, RunnerTypeOK
<1>2. ASSUME NEW w \in Workers, TakesSnapshot(w) PROVE RunnerInv'
  BY <1>2, NoneIsNothing
    DEF TakesSnapshot, runnerVars, cacheVars, RunnerInv, Dead, Launching,
        Shapes, TypeOK, RunnerTypeOK
<1>3. ASSUME NEW w \in Workers, RefreshReturns(w) PROVE RunnerInv'
  <2>1. PICK s, x : Refreshed(w, s, x)
    BY <1>3, RefreshEffect
  <2>. QED
    BY <2>1
      DEF Refreshed, runnerVars, RunnerInv, Dead, Launching, Shapes, TypeOK,
          RunnerTypeOK
<1>4. ASSUME NEW w \in Workers, LockMutex(w) PROVE RunnerInv'
  BY <1>4, NoneIsNothing
    DEF LockMutex, runnerVars, cacheVars, RunnerInv, Dead, Launching, Shapes,
        TypeOK, RunnerTypeOK
<1>5. ASSUME NEW w \in Workers, PlainCall(w) PROVE RunnerInv'
  BY <1>5, NoneIsNothing
    DEF PlainCall, runnerVars, cacheVars, RunnerInv, Dead, Launching, Shapes,
        TypeOK, RunnerTypeOK
<1>6. ASSUME NEW w \in Workers, CheckLocks(w) PROVE RunnerInv'
  BY <1>6, NoneIsNothing
    DEF CheckLocks, runnerVars, cacheVars, RunnerInv, Dead, Launching, Shapes,
        TypeOK, RunnerTypeOK
<1>7. ASSUME NEW w \in Workers, RemoveLocks(w) PROVE RunnerInv'
  BY <1>7, NoneIsNothing
    DEF RemoveLocks, runnerVars, cacheVars, RunnerInv, Dead, Launching,
        Shapes, TypeOK, RunnerTypeOK
<1>8. ASSUME NEW w \in Workers, RunCommand(w) PROVE RunnerInv'
  <2>. USE NoneIsNothing
  <2>1. PICK p \in Procs : Spawn(w, p)
    BY <1>8 DEF RunCommand
  <2>2. \A v \in Workers : cur[v] # p
    BY <2>1 DEF Spawn, Unused
  <2>. QED
    BY <1>8, <2>1, <2>2
      DEF RunCommand, Spawn, Unused, RunnerInv, Dead, Shapes, TypeOK,
          RunnerTypeOK
<1>9. ASSUME NEW w \in Workers, CommandDone(w) PROVE RunnerInv'
  <2>. USE NoneIsNothing
  <2>1. /\ \A v \in Workers : v # w => at'[v] = at[v] /\ cur'[v] = cur[v] /\ phase'[v] = phase[v]
        /\ cur'[w] = None /\ phase'[w] = "idle" /\ proc' = proc /\ writers' = writers
        /\ \A p \in Procs : p # cur[w] => exit'[p] = exit[p]
    BY <1>9, DoneFrame
  <2>. QED BY <2>1 DEF RunnerInv, Dead, Shapes, TypeOK, RunnerTypeOK
<1>10. ASSUME NEW w \in Workers, Deadline(w), UNCHANGED <<cacheVars, opsVars>>
      PROVE  RunnerInv'
  BY <1>10, NoneIsNothing
    DEF Deadline, cacheVars, opsVars, RunnerInv, Dead, Launching, Shapes,
        TypeOK, RunnerTypeOK
<1>11. ASSUME NEW w \in Workers, Escalate(w), UNCHANGED <<cacheVars, opsVars>>
      PROVE  RunnerInv'
  BY <1>11, NoneIsNothing
    DEF Escalate, cacheVars, opsVars, RunnerInv, Dead, Launching, Shapes,
        TypeOK, RunnerTypeOK
<1>12. ASSUME NEW p \in Procs, TakesLock(p) PROVE RunnerInv'
  BY <1>12, NoneIsNothing
    DEF TakesLock, runnerVars, cacheVars, RunnerInv, Dead, Launching, Shapes,
        TypeOK, RunnerTypeOK
<1>13. ASSUME NEW p \in Procs, Finishes(p) PROVE RunnerInv'
  <2>. USE NoneIsNothing
  <2>1. PICK c \in {"zero", "accepted", "failure"}, left \in {"free", "orphans"}, y \in Reasons :
          LeaderEnds(p, c, y, left)
    BY <1>13 DEF Finishes, Says, Reasons
  <2>. QED
    BY <1>13, <2>1, RecordOfExit
      DEF Finishes, LeaderEnds, Awaited, RunnerInv, Dead, Shapes, TypeOK,
          RunnerTypeOK
<1>14. ASSUME NEW p \in Procs, Refused(p) PROVE RunnerInv'
  <2>. USE NoneIsNothing
  <2>1. LeaderEnds(p, "failure", "other", "free")
    BY <1>14 DEF Refused
  <2>2. "other" \in Reasons
    BY DEF Reasons
  <2>. QED
    BY <1>14, <2>1, <2>2, RecordOfExit
      DEF Refused, LeaderEnds, Awaited, RunnerInv, Dead, Shapes, TypeOK,
          RunnerTypeOK
<1>15. ASSUME NEW p \in Procs, LeavesChildren(p) PROVE RunnerInv'
  <2>. USE NoneIsNothing
  <2>1. LeaderEnds(p, "signal", "other", "orphans")
    BY <1>15 DEF LeavesChildren
  <2>2. "other" \in Reasons
    BY DEF Reasons
  <2>. QED
    BY <1>15, <2>1, <2>2, RecordOfExit
      DEF LeavesChildren, LeaderEnds, Awaited, RunnerInv, Dead, Shapes, TypeOK,
          RunnerTypeOK
<1>16. ASSUME NEW p \in Procs, Dies(p) PROVE RunnerInv'
  <2>. USE NoneIsNothing
  <2>1. LeaderEnds(p, "signal", "other", "free")
    BY <1>16 DEF Dies
  <2>2. "other" \in Reasons
    BY DEF Reasons
  <2>. QED
    BY <1>16, <2>1, <2>2, RecordOfExit
      DEF Dies, LeaderEnds, Awaited, RunnerInv, Dead, Shapes, TypeOK,
          RunnerTypeOK
<1>17. ASSUME NEW p \in Procs, OrphansEnd(p) PROVE RunnerInv'
  BY <1>17, NoneIsNothing
    DEF OrphansEnd, LetsGo, cacheVars, RunnerInv, Dead, Launching, Shapes,
        TypeOK, RunnerTypeOK
<1>18. ASSUME CacheExpires PROVE RunnerInv'
  BY <1>18, NoneIsNothing
    DEF CacheExpires, Expire, runnerVars, RunnerInv, Dead, Launching, Shapes,
        TypeOK, RunnerTypeOK
<1>19. ASSUME AgentRestarts PROVE RunnerInv'
  BY <1>19, NoneIsNothing
    DEF AgentRestarts, LoadStateFile, RunnerInv, Dead, Launching, Shapes,
        TypeOK, RunnerTypeOK
<1>20. ASSUME UNCHANGED vars PROVE RunnerInv'
  BY <1>20
    DEF vars, runnerVars, cacheVars, opsVars, RunnerInv, Dead, Launching,
        Shapes, TypeOK, RunnerTypeOK
<1>. QED
  BY <1>1, <1>2, <1>3, <1>4, <1>5, <1>6, <1>7, <1>8, <1>9, <1>10, <1>11,
     <1>12, <1>13, <1>14, <1>15, <1>16, <1>17, <1>18, <1>19, <1>20
    DEF Next, Worker, Process, RunnerMoves, RunnerStep, Finished

\* A closure is where its backend lets it be.
LEMMA ControlStep ==
    ASSUME Shapes, RunnerInv, ControlInv, [Next]_vars
    PROVE  ControlInv'
<1>1. ASSUME NEW w \in Workers, NEW o \in plan[w], Start(w, o) PROVE ControlInv'
  BY <1>1
    DEF Start, runnerVars, cacheVars, ControlInv, Busy, Outside, Post, Shapes,
        TypeOK, RunnerTypeOK, FirstStage
<1>2. ASSUME NEW w \in Workers, TakesSnapshot(w) PROVE ControlInv'
  BY <1>2, NoneIsNothing
    DEF TakesSnapshot, runnerVars, cacheVars, ControlInv, Busy, Outside, Post,
        Shapes, TypeOK, RunnerTypeOK
<1>3. ASSUME NEW w \in Workers, RefreshReturns(w) PROVE ControlInv'
  <2>1. PICK s, x : Refreshed(w, s, x)
    BY <1>3, RefreshEffect
  <2>. QED
    BY <2>1
      DEF Refreshed, Takes, Outside, Post, ControlInv, Busy, Shapes, TypeOK,
          RunnerTypeOK
<1>4. ASSUME NEW w \in Workers, LockMutex(w) PROVE ControlInv'
  BY <1>4, NoneIsNothing
    DEF LockMutex, runnerVars, cacheVars, ControlInv, Busy, Outside, Post,
        Shapes, TypeOK, RunnerTypeOK
<1>5. ASSUME NEW w \in Workers, PlainCall(w) PROVE ControlInv'
  BY <1>5, NoneIsNothing
    DEF PlainCall, runnerVars, cacheVars, ControlInv, Busy, Outside, Post,
        Shapes, TypeOK, RunnerTypeOK
<1>6. ASSUME NEW w \in Workers, CheckLocks(w) PROVE ControlInv'
  <2>1. /\ \/ at[w] = "pre" /\ at'[w] \in {"preConf", "preRm"}
           \/ at[w] = "post" /\ at'[w] \in {"postConf", "postRm"}
           \/ at[w] = "heal" /\ at'[w] \in {"healConf", "healRm"}
        /\ \A v \in Workers : v # w => at'[v] = at[v]
    BY <1>6 DEF CheckLocks, Shapes, TypeOK, RunnerTypeOK
  <2>. QED BY <1>6, <2>1 DEF CheckLocks, ControlInv, Busy, Outside, Post
<1>7. ASSUME NEW w \in Workers, RemoveLocks(w) PROVE ControlInv'
  <2>1. /\ \/ at[w] = "preRm" /\ at'[w] = "preConf"
           \/ at[w] = "postRm" /\ at'[w] = "postConf"
           \/ at[w] = "healRm" /\ at'[w] = "healConf"
        /\ \A v \in Workers : v # w => at'[v] = at[v]
    BY <1>7 DEF RemoveLocks, Shapes, TypeOK, RunnerTypeOK
  <2>. QED BY <1>7, <2>1 DEF RemoveLocks, ControlInv, Busy, Outside, Post
<1>8. ASSUME NEW w \in Workers, RunCommand(w) PROVE ControlInv'
  BY <1>8, NoneIsNothing
    DEF RunCommand, Spawn, cacheVars, ControlInv, Busy, Outside, Post, Shapes,
        TypeOK, RunnerTypeOK
<1>9. ASSUME NEW w \in Workers, CommandDone(w) PROVE ControlInv'
  <2>. USE NoneIsNothing
  <2>1. PICK r \in Results :
          /\ Answered(w, r) /\ Records(w, r) /\ Busy(w)
          /\ (\E a, x : Inside(w, r, a, x)) \/ (\E e : Outcome(w, r, e))
    BY <1>9, DoneEffect
  <2>2. /\ \A v \in Workers : v # w =>
              at'[v] = at[v] /\ stage'[v] = stage[v] /\ err'[v] = err[v]
        /\ backend' = backend
    BY <1>9, DoneFrame
  <2>0. at[w] \in Launching
    BY <2>1 DEF Answered
  <2>3. ASSUME NEW a, NEW x, Inside(w, r, a, x) PROVE ControlInv'
    <3>1. /\ at'[w] = a /\ err'[w] = x /\ stage' = stage /\ mutex' = mutex
          /\ a \in {"cmd", "audit", "heal", "reaudit"} \/ (a = "post" /\ x # None)
          /\ backend = "apt" /\ at[w] \notin Outside
      BY <2>1, <2>3, RunnerError DEF Inside, Outside, Shapes, TypeOK, RunnerTypeOK
    <3>. QED BY <2>1, <2>2, <3>1 DEF ControlInv, Busy, Outside, Post
  <2>4. ASSUME NEW e, Outcome(w, r, e) PROVE ControlInv'
    <3>0. /\ backend = "apt" => mutex = w
          /\ \A v \in Workers : v # w /\ backend = "apt" => at[v] \in Outside
      BY <2>0 DEF ControlInv, Launching, Outside
    <3>1. mutex' = None \/ mutex' = mutex
      BY <2>4 DEF Outcome, Back
    <3>2. \/ /\ stage[w] = "refresh" /\ at'[w] = "persist" /\ stage'[w] = stage[w]
        \/ /\ at'[w] = "call"
           /\ stage'[w] \in {"fix", "fix2", "fallback"} => backend = "apt"
      BY <2>4 DEF Outcome, Back, Takes, Follows, Shapes, TypeOK, RunnerTypeOK
    <3>. QED BY <2>2, <3>0, <3>1, <3>2 DEF ControlInv, Busy, Outside, Post
  <2>. QED BY <2>1, <2>3, <2>4
<1>10. ASSUME NEW w \in Workers, Deadline(w), UNCHANGED <<cacheVars, opsVars>>
      PROVE  ControlInv'
  BY <1>10, NoneIsNothing
    DEF Deadline, cacheVars, opsVars, ControlInv, Busy, Outside, Post, Shapes,
        TypeOK, RunnerTypeOK
<1>11. ASSUME NEW w \in Workers, Escalate(w), UNCHANGED <<cacheVars, opsVars>>
      PROVE  ControlInv'
  BY <1>11, NoneIsNothing
    DEF Escalate, cacheVars, opsVars, ControlInv, Busy, Outside, Post, Shapes,
        TypeOK, RunnerTypeOK
<1>12. ASSUME NEW p \in Procs, TakesLock(p) PROVE ControlInv'
  BY <1>12, NoneIsNothing
    DEF TakesLock, runnerVars, cacheVars, ControlInv, Busy, Outside, Post,
        Shapes, TypeOK, RunnerTypeOK
<1>13. ASSUME NEW p \in Procs, Finishes(p) PROVE ControlInv'
  BY <1>13, NoneIsNothing
    DEF Finishes, LeaderEnds, LetsGo, cacheVars, ControlInv, Busy, Outside,
        Post, Shapes, TypeOK, RunnerTypeOK
<1>14. ASSUME NEW p \in Procs, Refused(p) PROVE ControlInv'
  BY <1>14, NoneIsNothing
    DEF Refused, LeaderEnds, cacheVars, ControlInv, Busy, Outside, Post,
        Shapes, TypeOK, RunnerTypeOK
<1>15. ASSUME NEW p \in Procs, LeavesChildren(p) PROVE ControlInv'
  BY <1>15, NoneIsNothing
    DEF LeavesChildren, LeaderEnds, cacheVars, ControlInv, Busy, Outside,
        Post, Shapes, TypeOK, RunnerTypeOK
<1>16. ASSUME NEW p \in Procs, Dies(p) PROVE ControlInv'
  BY <1>16, NoneIsNothing
    DEF Dies, LeaderEnds, cacheVars, ControlInv, Busy, Outside, Post, Shapes,
        TypeOK, RunnerTypeOK
<1>17. ASSUME NEW p \in Procs, OrphansEnd(p) PROVE ControlInv'
  BY <1>17, NoneIsNothing
    DEF OrphansEnd, LetsGo, cacheVars, ControlInv, Busy, Outside, Post,
        Shapes, TypeOK, RunnerTypeOK
<1>18. ASSUME CacheExpires PROVE ControlInv'
  BY <1>18, NoneIsNothing
    DEF CacheExpires, Expire, runnerVars, ControlInv, Busy, Outside, Post,
        Shapes, TypeOK, RunnerTypeOK
<1>19. ASSUME AgentRestarts PROVE ControlInv'
  BY <1>19, NoneIsNothing
    DEF AgentRestarts, LoadStateFile, ControlInv, Busy, Outside, Post, Shapes,
        TypeOK, RunnerTypeOK
<1>20. ASSUME UNCHANGED vars PROVE ControlInv'
  BY <1>20
    DEF vars, runnerVars, cacheVars, opsVars, ControlInv, Busy, Outside, Post, Shapes, TypeOK, RunnerTypeOK
<1>. QED
  BY <1>1, <1>2, <1>3, <1>4, <1>5, <1>6, <1>7, <1>8, <1>9, <1>10, <1>11,
     <1>12, <1>13, <1>14, <1>15, <1>16, <1>17, <1>18, <1>19, <1>20
    DEF Next, Worker, Process, RunnerMoves, RunnerStep, Finished

\* Only apt speaks of held packages, and not with exit code zero.
LEMMA SaysStep ==
    ASSUME Shapes, RunnerInv, ControlInv, SaysInv, [Next]_vars
    PROVE  SaysInv'
<1>1. ASSUME NEW w \in Workers, NEW o \in plan[w], Start(w, o) PROVE SaysInv'
  BY <1>1, NoneIsNothing
    DEF Start, runnerVars, cacheVars, SaysInv, Shapes, TypeOK, RunnerTypeOK
<1>2. ASSUME NEW w \in Workers, TakesSnapshot(w) PROVE SaysInv'
  BY <1>2, NoneIsNothing
    DEF TakesSnapshot, runnerVars, cacheVars, SaysInv, Shapes, TypeOK,
        RunnerTypeOK
<1>3. ASSUME NEW w \in Workers, RefreshReturns(w) PROVE SaysInv'
  <2>1. PICK s, x : Refreshed(w, s, x)
    BY <1>3, RefreshEffect
  <2>. QED BY <2>1 DEF Refreshed, runnerVars, SaysInv
<1>4. ASSUME NEW w \in Workers, LockMutex(w) PROVE SaysInv'
  BY <1>4, NoneIsNothing
    DEF LockMutex, runnerVars, cacheVars, SaysInv, Shapes, TypeOK,
        RunnerTypeOK
<1>5. ASSUME NEW w \in Workers, PlainCall(w) PROVE SaysInv'
  BY <1>5, NoneIsNothing
    DEF PlainCall, runnerVars, cacheVars, SaysInv, Shapes, TypeOK,
        RunnerTypeOK
<1>6. ASSUME NEW w \in Workers, CheckLocks(w) PROVE SaysInv'
  BY <1>6, NoneIsNothing
    DEF CheckLocks, runnerVars, cacheVars, SaysInv, Shapes, TypeOK,
        RunnerTypeOK
<1>7. ASSUME NEW w \in Workers, RemoveLocks(w) PROVE SaysInv'
  BY <1>7, NoneIsNothing
    DEF RemoveLocks, runnerVars, cacheVars, SaysInv, Shapes, TypeOK,
        RunnerTypeOK
<1>8. ASSUME NEW w \in Workers, RunCommand(w) PROVE SaysInv'
  BY <1>8, NoneIsNothing
    DEF RunCommand, Spawn, cacheVars, SaysInv, Shapes, TypeOK, RunnerTypeOK
<1>9. ASSUME NEW w \in Workers, CommandDone(w) PROVE SaysInv'
  <2>. QED BY <1>9, DoneFrame DEF SaysInv
<1>10. ASSUME NEW w \in Workers, Deadline(w), UNCHANGED <<cacheVars, opsVars>>
      PROVE  SaysInv'
  BY <1>10, NoneIsNothing
    DEF Deadline, cacheVars, opsVars, SaysInv, Shapes, TypeOK, RunnerTypeOK
<1>11. ASSUME NEW w \in Workers, Escalate(w), UNCHANGED <<cacheVars, opsVars>>
      PROVE  SaysInv'
  BY <1>11, NoneIsNothing
    DEF Escalate, cacheVars, opsVars, SaysInv, Shapes, TypeOK, RunnerTypeOK
<1>12. ASSUME NEW p \in Procs, TakesLock(p) PROVE SaysInv'
  BY <1>12, NoneIsNothing
    DEF TakesLock, runnerVars, cacheVars, SaysInv, Shapes, TypeOK,
        RunnerTypeOK
<1>13. ASSUME NEW p \in Procs, Finishes(p) PROVE SaysInv'
  <2>1. PICK c \in {"zero", "accepted", "failure"}, left \in {"free", "orphans"}, y \in Reasons :
          /\ LeaderEnds(p, c, y, left)
          /\ y = "held" => backend = "apt" /\ c # "zero"
    BY <1>13 DEF Finishes, Says, Reasons
  <2>. QED BY <1>13, <2>1 DEF Finishes, LeaderEnds, SaysInv, Shapes, TypeOK, RunnerTypeOK
<1>14. ASSUME NEW p \in Procs, Refused(p) PROVE SaysInv'
  BY <1>14, NoneIsNothing
    DEF Refused, LeaderEnds, cacheVars, SaysInv, Shapes, TypeOK, RunnerTypeOK
<1>15. ASSUME NEW p \in Procs, LeavesChildren(p) PROVE SaysInv'
  BY <1>15, NoneIsNothing
    DEF LeavesChildren, LeaderEnds, cacheVars, SaysInv, Shapes, TypeOK,
        RunnerTypeOK
<1>16. ASSUME NEW p \in Procs, Dies(p) PROVE SaysInv'
  BY <1>16, NoneIsNothing
    DEF Dies, LeaderEnds, cacheVars, SaysInv, Shapes, TypeOK, RunnerTypeOK
<1>17. ASSUME NEW p \in Procs, OrphansEnd(p) PROVE SaysInv'
  BY <1>17, NoneIsNothing
    DEF OrphansEnd, LetsGo, cacheVars, SaysInv, Shapes, TypeOK, RunnerTypeOK
<1>18. ASSUME CacheExpires PROVE SaysInv'
  BY <1>18, NoneIsNothing
    DEF CacheExpires, Expire, runnerVars, SaysInv, Shapes, TypeOK,
        RunnerTypeOK
<1>19. ASSUME AgentRestarts PROVE SaysInv'
  BY <1>19, NoneIsNothing
    DEF AgentRestarts, LoadStateFile, SaysInv, Shapes, TypeOK, RunnerTypeOK
<1>20. ASSUME UNCHANGED vars PROVE SaysInv'
  BY <1>20 DEF vars, runnerVars, cacheVars, opsVars, SaysInv, Shapes, TypeOK, RunnerTypeOK
<1>. QED
  BY <1>1, <1>2, <1>3, <1>4, <1>5, <1>6, <1>7, <1>8, <1>9, <1>10, <1>11,
     <1>12, <1>13, <1>14, <1>15, <1>16, <1>17, <1>18, <1>19, <1>20
    DEF Next, Worker, Process, RunnerMoves, RunnerStep, Finished

\* The database lock is never taken away from a writer.
LEMMA LockStep ==
    ASSUME Shapes, RunnerInv, ControlInv, LockInv, [Next]_vars
    PROVE  LockInv'
<1>1. ASSUME NEW w \in Workers, NEW o \in plan[w], Start(w, o) PROVE LockInv'
  BY <1>1, NoneIsNothing
    DEF Start, runnerVars, cacheVars, LockInv, Shapes, TypeOK, RunnerTypeOK
<1>2. ASSUME NEW w \in Workers, TakesSnapshot(w) PROVE LockInv'
  BY <1>2, NoneIsNothing
    DEF TakesSnapshot, runnerVars, cacheVars, LockInv, Shapes, TypeOK,
        RunnerTypeOK
<1>3. ASSUME NEW w \in Workers, RefreshReturns(w) PROVE LockInv'
  <2>1. PICK s, x : Refreshed(w, s, x)
    BY <1>3, RefreshEffect
  <2>. QED BY <2>1 DEF Refreshed, runnerVars, LockInv, Shapes, TypeOK, RunnerTypeOK
<1>4. ASSUME NEW w \in Workers, LockMutex(w) PROVE LockInv'
  BY <1>4, NoneIsNothing
    DEF LockMutex, runnerVars, cacheVars, LockInv, Shapes, TypeOK,
        RunnerTypeOK
<1>5. ASSUME NEW w \in Workers, PlainCall(w) PROVE LockInv'
  BY <1>5, NoneIsNothing
    DEF PlainCall, runnerVars, cacheVars, LockInv, Shapes, TypeOK,
        RunnerTypeOK
<1>6. ASSUME NEW w \in Workers, CheckLocks(w) PROVE LockInv'
  <2>1. /\ \A v \in Workers : v # w => at'[v] = at[v]
        /\ at'[w] \in {"preRm", "postRm", "healRm"} => ~ HasAptProcess
    BY <1>6 DEF CheckLocks, Shapes, TypeOK, RunnerTypeOK
  <2>2. HasPgrep /\ ~ HasAptProcess =>
           writers = {} /\ \A p \in Procs : proc[p] \notin {"running", "doomed"}
    BY DEF HasAptProcess, Shapes, TypeOK
  <2>. QED BY <1>6, <2>1, <2>2 DEF CheckLocks, runnerVars, LockInv
<1>7. ASSUME NEW w \in Workers, RemoveLocks(w) PROVE LockInv'
  <2>1. /\ \A v \in Workers : v # w => at'[v] = at[v]
        /\ at'[w] \notin {"preRm", "postRm", "healRm"}
    BY <1>7 DEF RemoveLocks, Shapes, TypeOK, RunnerTypeOK
  <2>. QED BY <1>7, <2>1 DEF RemoveLocks, runnerVars, LockInv
<1>8. ASSUME NEW w \in Workers, RunCommand(w) PROVE LockInv'
  <2>1. PICK p \in Procs : Spawn(w, p)
    BY <1>8 DEF RunCommand
  <2>2. ASSUME NEW v \in Workers PROVE at[v] \notin {"preRm", "postRm", "healRm"}
    BY <1>8, <2>2 DEF RunCommand, Launching, ControlInv, Outside
  <2>. QED BY <1>8, <2>1, <2>2 DEF RunCommand, LockInv
<1>9. ASSUME NEW w \in Workers, CommandDone(w) PROVE LockInv'
  <2>1. PICK r \in Results :
          (\E a, x : Inside(w, r, a, x)) \/ (\E e : Outcome(w, r, e))
    BY <1>9, DoneEffect
  <2>2. at'[w] \notin {"preRm", "postRm", "healRm"}
    BY <2>1 DEF Inside, Outcome, Back, Shapes, TypeOK, RunnerTypeOK
  <2>. QED BY <1>9, <2>2, DoneFrame DEF LockInv
<1>10. ASSUME NEW w \in Workers, Deadline(w), UNCHANGED <<cacheVars, opsVars>>
      PROVE  LockInv'
  BY <1>10, NoneIsNothing
    DEF Deadline, cacheVars, opsVars, LockInv, Shapes, TypeOK, RunnerTypeOK
<1>11. ASSUME NEW w \in Workers, Escalate(w), UNCHANGED <<cacheVars, opsVars>>
      PROVE  LockInv'
  <2>1. at[w] \in Launching
    BY <1>11 DEF Escalate, RunnerInv
  <2>2. ASSUME NEW v \in Workers PROVE at[v] \notin {"preRm", "postRm", "healRm"}
    BY <2>1, <2>2 DEF Launching, ControlInv, Outside
  <2>. QED BY <1>11, <2>2 DEF opsVars, LockInv
<1>12. ASSUME NEW p \in Procs, TakesLock(p) PROVE LockInv'
  BY <1>12, NoneIsNothing
    DEF TakesLock, runnerVars, cacheVars, LockInv, Shapes, TypeOK,
        RunnerTypeOK
<1>13. ASSUME NEW p \in Procs, Finishes(p) PROVE LockInv'
  <2>1. \A q \in Procs : proc'[q] \in {"running", "doomed"} => proc[q] = proc'[q]
    BY <1>13 DEF Finishes, LeaderEnds, Shapes, TypeOK, RunnerTypeOK
  <2>. QED BY <1>13, <2>1 DEF Finishes, LetsGo, LockInv
<1>14. ASSUME NEW p \in Procs, Refused(p) PROVE LockInv'
  <2>1. \A q \in Procs : proc'[q] \in {"running", "doomed"} => proc[q] = proc'[q]
    BY <1>14 DEF Refused, LeaderEnds, Shapes, TypeOK, RunnerTypeOK
  <2>. QED BY <1>14, <2>1 DEF Refused, LetsGo, LockInv
<1>15. ASSUME NEW p \in Procs, LeavesChildren(p) PROVE LockInv'
  <2>1. \A q \in Procs : proc'[q] \in {"running", "doomed"} => proc[q] = proc'[q]
    BY <1>15 DEF LeavesChildren, LeaderEnds, Shapes, TypeOK, RunnerTypeOK
  <2>. QED BY <1>15, <2>1 DEF LeavesChildren, LetsGo, LockInv
<1>16. ASSUME NEW p \in Procs, Dies(p) PROVE LockInv'
  <2>1. \A q \in Procs : proc'[q] \in {"running", "doomed"} => proc[q] = proc'[q]
    BY <1>16 DEF Dies, LeaderEnds, Shapes, TypeOK, RunnerTypeOK
  <2>. QED BY <1>16, <2>1 DEF Dies, LetsGo, LockInv
<1>17. ASSUME NEW p \in Procs, OrphansEnd(p) PROVE LockInv'
  BY <1>17
    DEF OrphansEnd, LetsGo, cacheVars, LockInv, Shapes, TypeOK, RunnerTypeOK
<1>18. ASSUME CacheExpires PROVE LockInv'
  BY <1>18, NoneIsNothing
    DEF CacheExpires, Expire, runnerVars, LockInv, Shapes, TypeOK,
        RunnerTypeOK
<1>19. ASSUME AgentRestarts PROVE LockInv'
  BY <1>19, NoneIsNothing
    DEF AgentRestarts, LoadStateFile, LockInv, Shapes, TypeOK, RunnerTypeOK
<1>20. ASSUME UNCHANGED vars PROVE LockInv'
  BY <1>20 DEF vars, runnerVars, cacheVars, opsVars, LockInv, Shapes, TypeOK, RunnerTypeOK
<1>. QED
  BY <1>1, <1>2, <1>3, <1>4, <1>5, <1>6, <1>7, <1>8, <1>9, <1>10, <1>11,
     <1>12, <1>13, <1>14, <1>15, <1>16, <1>17, <1>18, <1>19, <1>20
    DEF Next, Worker, Process, RunnerMoves, RunnerStep, Finished

\* No step makes a time fresh that is not earned.
LEMMA FreshStep ==
    ASSUME Shapes, RunnerInv, ControlInv, FreshInv, [Next]_vars
    PROVE  FreshInv'
<1>1. ASSUME NEW w \in Workers, NEW o \in plan[w], Start(w, o) PROVE FreshInv'
  BY <1>1 DEF Start, runnerVars, cacheVars, FreshInv, Earned
<1>2. ASSUME NEW w \in Workers, TakesSnapshot(w) PROVE FreshInv'
  BY <1>2 DEF TakesSnapshot, runnerVars, cacheVars, FreshInv, Earned, Shapes
<1>3. ASSUME NEW w \in Workers, RefreshReturns(w) PROVE FreshInv'
  <2>1. PICK s, x : Refreshed(w, s, x)
    BY <1>3, RefreshEffect
  <2>. QED BY <2>1 DEF Refreshed, FreshInv, Earned, Shapes
<1>4. ASSUME NEW w \in Workers, LockMutex(w) PROVE FreshInv'
  BY <1>4 DEF LockMutex, runnerVars, cacheVars, FreshInv, Earned
<1>5. ASSUME NEW w \in Workers, PlainCall(w) PROVE FreshInv'
  BY <1>5 DEF PlainCall, runnerVars, cacheVars, FreshInv, Earned
<1>6. ASSUME NEW w \in Workers, CheckLocks(w) PROVE FreshInv'
  BY <1>6 DEF CheckLocks, runnerVars, cacheVars, FreshInv, Earned
<1>7. ASSUME NEW w \in Workers, RemoveLocks(w) PROVE FreshInv'
  BY <1>7 DEF RemoveLocks, runnerVars, cacheVars, FreshInv, Earned
<1>8. ASSUME NEW w \in Workers, RunCommand(w) PROVE FreshInv'
  BY <1>8 DEF RunCommand, Spawn, cacheVars, FreshInv, Earned
<1>9. ASSUME NEW w \in Workers, CommandDone(w) PROVE FreshInv'
  <2>1. PICK r \in Results :
          /\ Records(w, r)
          /\ (\E a, x : Inside(w, r, a, x)) \/ (\E e : Outcome(w, r, e))
    BY <1>9, DoneEffect
  <2>2. UNCHANGED cacheVars \/ UpdateSuccess \/ UpdateFailure
    BY <2>1 DEF Inside, Outcome, Back
  <2>. QED
    BY <2>1, <2>2
      DEF Records, UpdateSuccess, UpdateFailure, cacheVars, FreshInv, Earned
<1>10. ASSUME NEW w \in Workers, Deadline(w), UNCHANGED <<cacheVars, opsVars>>
      PROVE  FreshInv'
  BY <1>10 DEF Deadline, cacheVars, opsVars, FreshInv, Earned
<1>11. ASSUME NEW w \in Workers, Escalate(w), UNCHANGED <<cacheVars, opsVars>>
      PROVE  FreshInv'
  BY <1>11 DEF Escalate, cacheVars, opsVars, FreshInv, Earned
<1>12. ASSUME NEW p \in Procs, TakesLock(p) PROVE FreshInv'
  BY <1>12 DEF TakesLock, runnerVars, cacheVars, FreshInv, Earned
<1>13. ASSUME NEW p \in Procs, Finishes(p) PROVE FreshInv'
  BY <1>13 DEF Finishes, LeaderEnds, LetsGo, cacheVars, FreshInv, Earned
<1>14. ASSUME NEW p \in Procs, Refused(p) PROVE FreshInv'
  BY <1>14 DEF Refused, LeaderEnds, cacheVars, FreshInv, Earned
<1>15. ASSUME NEW p \in Procs, LeavesChildren(p) PROVE FreshInv'
  BY <1>15 DEF LeavesChildren, LeaderEnds, cacheVars, FreshInv, Earned
<1>16. ASSUME NEW p \in Procs, Dies(p) PROVE FreshInv'
  BY <1>16 DEF Dies, LeaderEnds, cacheVars, FreshInv, Earned
<1>17. ASSUME NEW p \in Procs, OrphansEnd(p) PROVE FreshInv'
  BY <1>17 DEF OrphansEnd, LetsGo, cacheVars, FreshInv, Earned
<1>18. ASSUME CacheExpires PROVE FreshInv'
  BY <1>18 DEF CacheExpires, Expire, runnerVars, FreshInv, Earned, Older, Shapes
<1>19. ASSUME AgentRestarts PROVE FreshInv'
  BY <1>19 DEF AgentRestarts, LoadStateFile, FreshInv, Earned, Shapes
<1>20. ASSUME UNCHANGED vars PROVE FreshInv'
  BY <1>20 DEF vars, runnerVars, cacheVars, opsVars, FreshInv, Earned
<1>. QED
  BY <1>1, <1>2, <1>3, <1>4, <1>5, <1>6, <1>7, <1>8, <1>9, <1>10, <1>11,
     <1>12, <1>13, <1>14, <1>15, <1>16, <1>17, <1>18, <1>19, <1>20
    DEF Next, Worker, Process, RunnerMoves, RunnerStep, Finished

\* A closure that met held packages is on its way to an error.
LEMMA HeldStep ==
    ASSUME Shapes, RunnerInv, ControlInv, SaysInv, HeldInv, [Next]_vars
    PROVE  HeldInv'
<1>1. ASSUME NEW w \in Workers, NEW o \in plan[w], Start(w, o) PROVE HeldInv'
  <2>1. ~ heldBack[w]
    BY <1>1 DEF Start, HeldInv, ControlInv, Busy, Post
  <2>. QED BY <1>1, <2>1 DEF Start, HeldInv, Shapes, TypeOK, RunnerTypeOK
<1>2. ASSUME NEW w \in Workers, TakesSnapshot(w) PROVE HeldInv'
  BY <1>2
    DEF TakesSnapshot, runnerVars, cacheVars, HeldInv, Post, Shapes, TypeOK,
        RunnerTypeOK, HeldInv, Post
<1>3. ASSUME NEW w \in Workers, RefreshReturns(w) PROVE HeldInv'
  <2>1. PICK s, x : Refreshed(w, s, x)
    BY <1>3, RefreshEffect
  <2>2. /\ \A v \in Workers : v # w =>
              at'[v] = at[v] /\ stage'[v] = stage[v] /\ err'[v] = err[v]
        /\ stage'[w] = s /\ err'[w] = x /\ at'[w] = "call" /\ at[w] = "rename"
        /\ UNCHANGED <<heldBack, backend, job>>
    BY <2>1 DEF Refreshed, Takes, Shapes, TypeOK, RunnerTypeOK
  <2>3. heldBack[w] => s = "done" /\ x # None
    BY <2>1 DEF Refreshed, HeldInv
  <2>. QED BY <2>2, <2>3 DEF HeldInv
<1>4. ASSUME NEW w \in Workers, LockMutex(w) PROVE HeldInv'
  BY <1>4
    DEF LockMutex, runnerVars, cacheVars, HeldInv, Post, Shapes, TypeOK,
        RunnerTypeOK
<1>5. ASSUME NEW w \in Workers, PlainCall(w) PROVE HeldInv'
  BY <1>5
    DEF PlainCall, runnerVars, cacheVars, HeldInv, Post, Shapes, TypeOK,
        RunnerTypeOK
<1>6. ASSUME NEW w \in Workers, CheckLocks(w) PROVE HeldInv'
  <2>1. /\ \A v \in Workers : v # w => at'[v] = at[v]
        /\ at[w] \in Post <=> at'[w] \in Post
        /\ at'[w] \notin {"persist", "rename"} /\ at[w] \notin {"persist", "rename"}
    BY <1>6 DEF CheckLocks, Post, Shapes, TypeOK, RunnerTypeOK
  <2>. QED BY <1>6, <2>1 DEF CheckLocks, HeldInv
<1>7. ASSUME NEW w \in Workers, RemoveLocks(w) PROVE HeldInv'
  <2>1. /\ \A v \in Workers : v # w => at'[v] = at[v]
        /\ at[w] \in Post <=> at'[w] \in Post
        /\ at'[w] \notin {"persist", "rename"} /\ at[w] \notin {"persist", "rename"}
    BY <1>7 DEF RemoveLocks, Post, Shapes, TypeOK, RunnerTypeOK
  <2>. QED BY <1>7, <2>1 DEF RemoveLocks, HeldInv
<1>8. ASSUME NEW w \in Workers, RunCommand(w) PROVE HeldInv'
  BY <1>8
    DEF RunCommand, Spawn, cacheVars, HeldInv, Post, Shapes, TypeOK,
        RunnerTypeOK
<1>9. ASSUME NEW w \in Workers, CommandDone(w) PROVE HeldInv'
  <2>. USE NoneIsNothing
  <2>1. PICK r \in Results :
          /\ Answered(w, r) /\ Records(w, r) /\ Busy(w)
          /\ (\E a, x : Inside(w, r, a, x)) \/ (\E e : Outcome(w, r, e))
    BY <1>9, DoneEffect
  <2>2. /\ \A v \in Workers : v # w => /\ at'[v] = at[v] /\ stage'[v] = stage[v]
                                     /\ err'[v] = err[v] /\ heldBack'[v] = heldBack[v]
        /\ UNCHANGED <<backend, job>>
    BY <1>9, DoneFrame
  <2>3. ASSUME heldBack'[w], ~ heldBack[w]
        PROVE  /\ at[w] = "cmd" /\ cur[w] # None /\ job[w] = "PatchAll"
               /\ exit[cur[w]] # None /\ exit[cur[w]].why = "held" /\ stage[w] # "fallback"
    BY <2>1, <2>3 DEF Records, Shapes
  <2>4. ASSUME heldBack'[w], ~ heldBack[w]
        PROVE  backend = "apt" /\ ~ Ok(r) /\ r.why # "deps"
    <3>1. cur[w] \in Procs
      BY <2>3, <2>4 DEF Shapes, TypeOK, RunnerTypeOK
    <3>2. backend = "apt" /\ exit[cur[w]].code # "zero"
      BY <2>3, <2>4, <3>1 DEF SaysInv
    <3>. QED BY <2>1, <2>3, <2>4, <3>2 DEF Answered, Said
  <2>5. ASSUME NEW a, NEW x, Inside(w, r, a, x) PROVE HeldInv'
    <3>1. at'[w] = a /\ err'[w] = x /\ stage'[w] = stage[w]
      BY <2>5 DEF Inside, Shapes, TypeOK, RunnerTypeOK
    <3>2. ASSUME heldBack'[w], ~ heldBack[w]
          PROVE  a = "post" /\ x # None /\ x.why # "deps"
      BY <2>1, <2>3, <2>4, <2>5, <3>2, RunnerError DEF Inside
    <3>3. ASSUME heldBack[w] PROVE stage[w] = "fallback" /\ a \notin {"persist", "rename"}
      BY <2>1, <2>5, <3>3 DEF Inside, HeldInv, Post, Busy
    <3>4. stage[w] # "done"
      BY <2>1 DEF Busy
    <3>5. ASSUME heldBack'[w]
          PROVE  /\ backend = "apt" /\ job[w] = "PatchAll"
                 /\ \/ stage[w] = "fallback"
                    \/ a \in Post /\ x.why # "deps"
                 /\ a \notin {"persist", "rename"}
      BY <2>3, <2>4, <3>2, <3>3, <3>5 DEF HeldInv, Post
    <3>. QED BY <2>2, <3>1, <3>4, <3>5 DEF HeldInv
  <2>6. ASSUME NEW e, Outcome(w, r, e) PROVE HeldInv'
    <3>1. ASSUME heldBack'[w] PROVE heldBack[w]
      BY <2>3, <2>4, <2>6, <3>1 DEF Outcome
    <3>2. ASSUME heldBack[w]
          PROVE  /\ backend = "apt" /\ job[w] = "PatchAll"
                 /\ stage[w] = "fallback" \/ (e # None /\ (stage[w] \in {"apply", "apply2"} => e.why # "deps"))
      BY <2>1, <2>6, <3>2 DEF Outcome, HeldInv, ControlInv, Post, Busy, Answered, Launching
    <3>3. CASE stage[w] = "refresh"
      <4>1. at'[w] = "persist" /\ err'[w] = e /\ stage'[w] = "refresh"
        BY <2>6, <3>3 DEF Outcome, Back, Shapes, TypeOK, RunnerTypeOK
      <4>. QED BY <2>2, <3>1, <3>2, <3>3, <4>1 DEF HeldInv
    <3>4. CASE stage[w] # "refresh"
      <4>1. PICK s, x : Takes(w, s, x) /\ Follows(w, e, s, x)
        BY <2>6, <3>4 DEF Outcome, Back
      <4>2. at'[w] = "call" /\ err'[w] = x /\ stage'[w] = s
        BY <2>6, <3>4, <4>1 DEF Outcome, Back, Takes, Shapes, TypeOK, RunnerTypeOK
      <4>3. stage[w] \in {"change", "fix", "fix2", "apply", "apply2", "fallback"}
        BY <2>1, <3>4 DEF Busy, Stages, Shapes, TypeOK
      <4>4. ASSUME heldBack[w] PROVE s \in {"fallback", "done"} /\ (s = "done" => x # None)
        BY <3>2, <4>1, <4>3, <4>4 DEF Follows
      <4>. QED BY <2>2, <3>1, <3>2, <4>2, <4>4 DEF HeldInv
    <3>. QED BY <3>3, <3>4
  <2>. QED BY <2>1, <2>5, <2>6
<1>10. ASSUME NEW w \in Workers, Deadline(w), UNCHANGED <<cacheVars, opsVars>>
      PROVE  HeldInv'
  BY <1>10
    DEF Deadline, cacheVars, opsVars, HeldInv, Post, Shapes, TypeOK,
        RunnerTypeOK
<1>11. ASSUME NEW w \in Workers, Escalate(w), UNCHANGED <<cacheVars, opsVars>>
      PROVE  HeldInv'
  BY <1>11
    DEF Escalate, cacheVars, opsVars, HeldInv, Post, Shapes, TypeOK,
        RunnerTypeOK
<1>12. ASSUME NEW p \in Procs, TakesLock(p) PROVE HeldInv'
  BY <1>12
    DEF TakesLock, runnerVars, cacheVars, HeldInv, Post, Shapes, TypeOK,
        RunnerTypeOK
<1>13. ASSUME NEW p \in Procs, Finishes(p) PROVE HeldInv'
  BY <1>13
    DEF Finishes, LeaderEnds, LetsGo, cacheVars, HeldInv, Post, Shapes,
        TypeOK, RunnerTypeOK
<1>14. ASSUME NEW p \in Procs, Refused(p) PROVE HeldInv'
  BY <1>14
    DEF Refused, LeaderEnds, cacheVars, HeldInv, Post, Shapes, TypeOK,
        RunnerTypeOK
<1>15. ASSUME NEW p \in Procs, LeavesChildren(p) PROVE HeldInv'
  BY <1>15
    DEF LeavesChildren, LeaderEnds, cacheVars, HeldInv, Post, Shapes, TypeOK,
        RunnerTypeOK
<1>16. ASSUME NEW p \in Procs, Dies(p) PROVE HeldInv'
  BY <1>16
    DEF Dies, LeaderEnds, cacheVars, HeldInv, Post, Shapes, TypeOK,
        RunnerTypeOK
<1>17. ASSUME NEW p \in Procs, OrphansEnd(p) PROVE HeldInv'
  BY <1>17
    DEF OrphansEnd, LetsGo, cacheVars, HeldInv, Post, Shapes, TypeOK,
        RunnerTypeOK
<1>18. ASSUME CacheExpires PROVE HeldInv'
  BY <1>18
    DEF CacheExpires, Expire, runnerVars, HeldInv, Post, Shapes, TypeOK,
        RunnerTypeOK
<1>19. ASSUME AgentRestarts PROVE HeldInv'
  BY <1>19
    DEF AgentRestarts, LoadStateFile, HeldInv, Post, Shapes, TypeOK,
        RunnerTypeOK
<1>20. ASSUME UNCHANGED vars PROVE HeldInv'
  BY <1>20
    DEF vars, runnerVars, cacheVars, opsVars, HeldInv, Post, Shapes, TypeOK,
        RunnerTypeOK
<1>. QED
  BY <1>1, <1>2, <1>3, <1>4, <1>5, <1>6, <1>7, <1>8, <1>9, <1>10, <1>11,
     <1>12, <1>13, <1>14, <1>15, <1>16, <1>17, <1>18, <1>19, <1>20
    DEF Next, Worker, Process, RunnerMoves, RunnerStep, Finished

\* A call whose command ran into its deadline reports that.
LEMMA LateStep ==
    ASSUME Shapes, RunnerInv, ControlInv, LateInv, [Next]_vars
    PROVE  LateInv'
<1>1. ASSUME NEW w \in Workers, NEW o \in plan[w], Start(w, o) PROVE LateInv'
  <2>1. at[w] = "call"
    BY <1>1 DEF Start, ControlInv, Busy
  <2>. QED BY <1>1, <2>1 DEF Start, FirstStage, LateInv, Shapes, TypeOK, RunnerTypeOK
<1>2. ASSUME NEW w \in Workers, TakesSnapshot(w) PROVE LateInv'
  BY <1>2
    DEF TakesSnapshot, runnerVars, cacheVars, LateInv, Outside, Post, Shapes,
        TypeOK, RunnerTypeOK
<1>3. ASSUME NEW w \in Workers, RefreshReturns(w) PROVE LateInv'
  <2>1. PICK s, x : Refreshed(w, s, x)
    BY <1>3, RefreshEffect
  <2>2. /\ \A v \in Workers : v # w =>
              at'[v] = at[v] /\ stage'[v] = stage[v] /\ err'[v] = err[v]
        /\ stage'[w] = s /\ err'[w] = x /\ at'[w] = "call" /\ at[w] = "rename" /\ late' = late
    BY <2>1 DEF Refreshed, Takes, Shapes, TypeOK, RunnerTypeOK
  <2>3. x # None => err[w] # None /\ x.kind = err[w].kind
    BY <2>1 DEF Refreshed
  <2>. QED BY <2>2, <2>3 DEF LateInv, Outside
<1>4. ASSUME NEW w \in Workers, LockMutex(w) PROVE LateInv'
  BY <1>4
    DEF LockMutex, runnerVars, cacheVars, LateInv, Outside, Post, Shapes,
        TypeOK, RunnerTypeOK
<1>5. ASSUME NEW w \in Workers, PlainCall(w) PROVE LateInv'
  BY <1>5
    DEF PlainCall, runnerVars, cacheVars, LateInv, Outside, Post, Shapes,
        TypeOK, RunnerTypeOK
<1>6. ASSUME NEW w \in Workers, CheckLocks(w) PROVE LateInv'
  <2>1. /\ \A v \in Workers : v # w => at'[v] = at[v]
        /\ at[w] \in Post => at'[w] \in Post
        /\ at[w] \notin Outside
    BY <1>6 DEF CheckLocks, Post, Outside, Shapes, TypeOK, RunnerTypeOK
  <2>. QED BY <1>6, <2>1 DEF CheckLocks, LateInv, Outside
<1>7. ASSUME NEW w \in Workers, RemoveLocks(w) PROVE LateInv'
  <2>1. /\ \A v \in Workers : v # w => at'[v] = at[v]
        /\ at[w] \in Post => at'[w] \in Post
        /\ at[w] \notin Outside
    BY <1>7 DEF RemoveLocks, Post, Outside, Shapes, TypeOK, RunnerTypeOK
  <2>. QED BY <1>7, <2>1 DEF RemoveLocks, LateInv, Outside
<1>8. ASSUME NEW w \in Workers, RunCommand(w) PROVE LateInv'
  BY <1>8
    DEF RunCommand, Spawn, cacheVars, LateInv, Outside, Post, Shapes, TypeOK,
        RunnerTypeOK
<1>9. ASSUME NEW w \in Workers, CommandDone(w) PROVE LateInv'
  <2>. USE NoneIsNothing
  <2>1. PICK r \in Results :
          /\ Answered(w, r) /\ Records(w, r) /\ Busy(w)
          /\ (\E a, x : Inside(w, r, a, x)) \/ (\E e : Outcome(w, r, e))
    BY <1>9, DoneEffect
  <2>2. \A v \in Workers : v # w => /\ at'[v] = at[v] /\ stage'[v] = stage[v]
                                  /\ err'[v] = err[v] /\ late'[v] = late[v]
    BY <1>9, DoneFrame
  <2>3. late'[w] => late[w] \/ (at[w] = "cmd" /\ r.kind = "timeout")
    BY <2>1 DEF Records, Answered, Shapes
  <2>4. late[w] => at[w] = "postConf" /\ backend = "apt" /\ (err[w] # None => err[w].kind = "timeout")
    BY <2>1 DEF LateInv, ControlInv, Outside, Post, Answered, Launching
  <2>5. ASSUME NEW a, NEW x, Inside(w, r, a, x) PROVE LateInv'
    <3>1. at'[w] = a /\ err'[w] = x
      BY <2>5 DEF Inside, Shapes, TypeOK, RunnerTypeOK
    <3>2. ASSUME late'[w] PROVE a = "post" /\ x.kind = "timeout"
      BY <2>1, <2>3, <2>4, <2>5, <3>2, RunnerError DEF Inside, Ok
    <3>. QED BY <2>2, <3>1, <3>2 DEF LateInv, Post, Outside
  <2>6. ASSUME NEW e, Outcome(w, r, e) PROVE LateInv'
    <3>1. ASSUME late'[w], e # None PROVE e.kind = "timeout"
      BY <2>1, <2>3, <2>4, <2>6, <3>1, RunnerError DEF Outcome, AsError
    <3>2. ASSUME late'[w], stage[w] = "fallback" PROVE e # None
      BY <2>1, <2>3, <2>4, <2>6, <3>2 DEF Outcome, ControlInv, Post
    <3>3. CASE stage[w] = "refresh"
      <4>1. at'[w] = "persist" /\ err'[w] = e
        BY <2>6, <3>3 DEF Outcome, Back, Shapes, TypeOK, RunnerTypeOK
      <4>. QED BY <2>2, <3>1, <4>1 DEF LateInv, Outside
    <3>4. CASE stage[w] # "refresh"
      <4>1. PICK s, x : Takes(w, s, x) /\ Follows(w, e, s, x)
        BY <2>6, <3>4 DEF Outcome, Back
      <4>2. at'[w] = "call" /\ err'[w] = x /\ stage'[w] = s
        BY <2>6, <3>4, <4>1 DEF Outcome, Back, Takes, Shapes, TypeOK, RunnerTypeOK
      <4>3. ASSUME late'[w], s = "done", x # None PROVE x.kind = "timeout"
        BY <3>1, <3>2, <4>1, <4>3 DEF Follows
      <4>. QED BY <2>2, <4>2, <4>3 DEF LateInv, Outside
    <3>. QED BY <3>3, <3>4
  <2>. QED BY <2>1, <2>5, <2>6
<1>10. ASSUME NEW w \in Workers, Deadline(w), UNCHANGED <<cacheVars, opsVars>>
      PROVE  LateInv'
  BY <1>10
    DEF Deadline, cacheVars, opsVars, LateInv, Outside, Post, Shapes, TypeOK,
        RunnerTypeOK
<1>11. ASSUME NEW w \in Workers, Escalate(w), UNCHANGED <<cacheVars, opsVars>>
      PROVE  LateInv'
  BY <1>11
    DEF Escalate, cacheVars, opsVars, LateInv, Outside, Post, Shapes, TypeOK,
        RunnerTypeOK
<1>12. ASSUME NEW p \in Procs, TakesLock(p) PROVE LateInv'
  BY <1>12
    DEF TakesLock, runnerVars, cacheVars, LateInv, Outside, Post, Shapes,
        TypeOK, RunnerTypeOK
<1>13. ASSUME NEW p \in Procs, Finishes(p) PROVE LateInv'
  BY <1>13
    DEF Finishes, LeaderEnds, LetsGo, cacheVars, LateInv, Outside, Post,
        Shapes, TypeOK, RunnerTypeOK
<1>14. ASSUME NEW p \in Procs, Refused(p) PROVE LateInv'
  BY <1>14
    DEF Refused, LeaderEnds, cacheVars, LateInv, Outside, Post, Shapes,
        TypeOK, RunnerTypeOK
<1>15. ASSUME NEW p \in Procs, LeavesChildren(p) PROVE LateInv'
  BY <1>15
    DEF LeavesChildren, LeaderEnds, cacheVars, LateInv, Outside, Post, Shapes,
        TypeOK, RunnerTypeOK
<1>16. ASSUME NEW p \in Procs, Dies(p) PROVE LateInv'
  BY <1>16
    DEF Dies, LeaderEnds, cacheVars, LateInv, Outside, Post, Shapes, TypeOK,
        RunnerTypeOK
<1>17. ASSUME NEW p \in Procs, OrphansEnd(p) PROVE LateInv'
  BY <1>17
    DEF OrphansEnd, LetsGo, cacheVars, LateInv, Outside, Post, Shapes, TypeOK,
        RunnerTypeOK
<1>18. ASSUME CacheExpires PROVE LateInv'
  BY <1>18
    DEF CacheExpires, Expire, runnerVars, LateInv, Outside, Post, Shapes,
        TypeOK, RunnerTypeOK
<1>19. ASSUME AgentRestarts PROVE LateInv'
  BY <1>19
    DEF AgentRestarts, LoadStateFile, LateInv, Outside, Post, Shapes, TypeOK,
        RunnerTypeOK
<1>20. ASSUME UNCHANGED vars PROVE LateInv'
  BY <1>20
    DEF vars, runnerVars, cacheVars, opsVars, LateInv, Outside, Post, Shapes,
        TypeOK, RunnerTypeOK
<1>. QED
  BY <1>1, <1>2, <1>3, <1>4, <1>5, <1>6, <1>7, <1>8, <1>9, <1>10, <1>11,
     <1>12, <1>13, <1>14, <1>15, <1>16, <1>17, <1>18, <1>19, <1>20
    DEF Next, Worker, Process, RunnerMoves, RunnerStep, Finished

\* A group runs only while somebody waits for it.
LEMMA AwaitedStep ==
    ASSUME Shapes, RunnerInv, ControlInv, AwaitedInv, [Next]_vars
    PROVE  AwaitedInv'
<1>1. ASSUME NEW w \in Workers, NEW o \in plan[w], Start(w, o) PROVE AwaitedInv'
  BY <1>1, NoneIsNothing
    DEF Start, runnerVars, cacheVars, AwaitedInv, Awaited, Shapes, TypeOK,
        RunnerTypeOK
<1>2. ASSUME NEW w \in Workers, TakesSnapshot(w) PROVE AwaitedInv'
  BY <1>2, NoneIsNothing
    DEF TakesSnapshot, runnerVars, cacheVars, AwaitedInv, Awaited, Shapes,
        TypeOK, RunnerTypeOK
<1>3. ASSUME NEW w \in Workers, RefreshReturns(w) PROVE AwaitedInv'
  <2>1. PICK s, x : Refreshed(w, s, x)
    BY <1>3, RefreshEffect
  <2>. QED BY <2>1 DEF Refreshed, runnerVars, AwaitedInv, Awaited
<1>4. ASSUME NEW w \in Workers, LockMutex(w) PROVE AwaitedInv'
  BY <1>4, NoneIsNothing
    DEF LockMutex, runnerVars, cacheVars, AwaitedInv, Awaited, Shapes, TypeOK,
        RunnerTypeOK
<1>5. ASSUME NEW w \in Workers, PlainCall(w) PROVE AwaitedInv'
  BY <1>5, NoneIsNothing
    DEF PlainCall, runnerVars, cacheVars, AwaitedInv, Awaited, Shapes, TypeOK,
        RunnerTypeOK
<1>6. ASSUME NEW w \in Workers, CheckLocks(w) PROVE AwaitedInv'
  BY <1>6, NoneIsNothing
    DEF CheckLocks, runnerVars, cacheVars, AwaitedInv, Awaited, Shapes,
        TypeOK, RunnerTypeOK
<1>7. ASSUME NEW w \in Workers, RemoveLocks(w) PROVE AwaitedInv'
  BY <1>7, NoneIsNothing
    DEF RemoveLocks, runnerVars, cacheVars, AwaitedInv, Awaited, Shapes,
        TypeOK, RunnerTypeOK
<1>8. ASSUME NEW w \in Workers, RunCommand(w) PROVE AwaitedInv'
  <2>. USE NoneIsNothing
  <2>1. PICK p \in Procs : Spawn(w, p)
    BY <1>8 DEF RunCommand
  <2>2. cur[w] = None
    BY <2>1 DEF Spawn, RunnerInv
  <2>. QED
    BY <1>8, <2>1, <2>2
      DEF RunCommand, Spawn, AwaitedInv, Awaited, Shapes, TypeOK, RunnerTypeOK
<1>9. ASSUME NEW w \in Workers, CommandDone(w) PROVE AwaitedInv'
  <2>. USE NoneIsNothing
  <2>1. PICK r \in Results : Answered(w, r)
    BY <1>9, DoneEffect
  <2>2. ASSUME cur[w] \in Procs, proc[cur[w]] = "running" PROVE FALSE
    BY <1>9, <2>2 DEF CommandDone, Got, Returns, SpawnFails, Dead, RunnerInv
  <2>3. /\ \A v \in Workers : v # w => cur'[v] = cur[v]
        /\ proc' = proc /\ restarted' = restarted
    BY <1>9, DoneFrame
  <2>. QED BY <2>2, <2>3 DEF AwaitedInv, Awaited
<1>10. ASSUME NEW w \in Workers, Deadline(w), UNCHANGED <<cacheVars, opsVars>>
      PROVE  AwaitedInv'
  BY <1>10, NoneIsNothing
    DEF Deadline, cacheVars, opsVars, AwaitedInv, Awaited, Shapes, TypeOK,
        RunnerTypeOK
<1>11. ASSUME NEW w \in Workers, Escalate(w), UNCHANGED <<cacheVars, opsVars>>
      PROVE  AwaitedInv'
  BY <1>11, NoneIsNothing
    DEF Escalate, cacheVars, opsVars, AwaitedInv, Awaited, Shapes, TypeOK,
        RunnerTypeOK
<1>12. ASSUME NEW p \in Procs, TakesLock(p) PROVE AwaitedInv'
  BY <1>12, NoneIsNothing
    DEF TakesLock, runnerVars, cacheVars, AwaitedInv, Awaited, Shapes, TypeOK,
        RunnerTypeOK
<1>13. ASSUME NEW p \in Procs, Finishes(p) PROVE AwaitedInv'
  <2>1. /\ \A q \in Procs : proc'[q] = "running" => proc[q] = "running"
        /\ cur' = cur /\ restarted' = restarted
    BY <1>13 DEF Finishes, LeaderEnds, Shapes, TypeOK, RunnerTypeOK
  <2>. QED BY <2>1 DEF AwaitedInv, Awaited
<1>14. ASSUME NEW p \in Procs, Refused(p) PROVE AwaitedInv'
  <2>1. /\ \A q \in Procs : proc'[q] = "running" => proc[q] = "running"
        /\ cur' = cur /\ restarted' = restarted
    BY <1>14 DEF Refused, LeaderEnds, Shapes, TypeOK, RunnerTypeOK
  <2>. QED BY <2>1 DEF AwaitedInv, Awaited
<1>15. ASSUME NEW p \in Procs, LeavesChildren(p) PROVE AwaitedInv'
  <2>1. /\ \A q \in Procs : proc'[q] = "running" => proc[q] = "running"
        /\ cur' = cur /\ restarted' = restarted
    BY <1>15 DEF LeavesChildren, LeaderEnds, Shapes, TypeOK, RunnerTypeOK
  <2>. QED BY <2>1 DEF AwaitedInv, Awaited
<1>16. ASSUME NEW p \in Procs, Dies(p) PROVE AwaitedInv'
  <2>1. /\ \A q \in Procs : proc'[q] = "running" => proc[q] = "running"
        /\ cur' = cur /\ restarted' = restarted
    BY <1>16 DEF Dies, LeaderEnds, Shapes, TypeOK, RunnerTypeOK
  <2>. QED BY <2>1 DEF AwaitedInv, Awaited
<1>17. ASSUME NEW p \in Procs, OrphansEnd(p) PROVE AwaitedInv'
  BY <1>17, NoneIsNothing
    DEF OrphansEnd, LetsGo, cacheVars, AwaitedInv, Awaited, Shapes, TypeOK,
        RunnerTypeOK
<1>18. ASSUME CacheExpires PROVE AwaitedInv'
  BY <1>18, NoneIsNothing
    DEF CacheExpires, Expire, runnerVars, AwaitedInv, Awaited, Shapes, TypeOK,
        RunnerTypeOK
<1>19. ASSUME AgentRestarts PROVE AwaitedInv'
  BY <1>19, NoneIsNothing
    DEF AgentRestarts, LoadStateFile, AwaitedInv, Awaited, Shapes, TypeOK,
        RunnerTypeOK
<1>20. ASSUME UNCHANGED vars PROVE AwaitedInv'
  BY <1>20
    DEF vars, runnerVars, cacheVars, opsVars, AwaitedInv, Awaited, Shapes,
        TypeOK, RunnerTypeOK
<1>. QED
  BY <1>1, <1>2, <1>3, <1>4, <1>5, <1>6, <1>7, <1>8, <1>9, <1>10, <1>11,
     <1>12, <1>13, <1>14, <1>15, <1>16, <1>17, <1>18, <1>19, <1>20
    DEF Next, Worker, Process, RunnerMoves, RunnerStep, Finished

\* On a Debian host with pgrep, before any restart, a group that runs is the
\* one the worker inside the mutex waits for.
LEMMA OnlyRunner ==
    ASSUME RunnerInv, ControlInv, AwaitedInv, Sure, NEW p \in Procs, proc[p] = "running",
           NEW v \in Workers, at[v] \notin Outside
    PROVE  cur[v] = p /\ exit[p] = None /\ cur[v] # None
<1>. USE NoneIsNothing
<1>1. PICK u \in Workers : cur[u] = p
  BY DEF AwaitedInv, Awaited, Sure
<1>2. at[u] \notin Outside
  BY <1>1 DEF RunnerInv, Launching, Outside
<1>3. u = v
  BY <1>2 DEF ControlInv, Sure
<1>. QED BY <1>1, <1>3 DEF RunnerInv, Dead

\* Inside the mutex the database belongs to one command.
LEMMA QuietStep ==
    ASSUME Shapes, RunnerInv, ControlInv, LockInv, AwaitedInv, QuietInv, [Next]_vars
    PROVE  QuietInv'
<1>1. ASSUME NEW w \in Workers, NEW o \in plan[w], Start(w, o) PROVE QuietInv'
  <2>1. cur[w] = None /\ at[w] = "call"
    BY <1>1 DEF Start, RunnerInv, ControlInv, Busy, Launching
  <2>. QED
    BY <1>1, <2>1
      DEF Start, runnerVars, QuietInv, QuietAt, Said, CommandAt, Launching,
          Sure, Shapes, TypeOK, RunnerTypeOK
<1>2. ASSUME NEW w \in Workers, TakesSnapshot(w) PROVE QuietInv'
  BY <1>2, NoneIsNothing
    DEF TakesSnapshot, runnerVars, cacheVars, QuietInv, QuietAt, Said,
        CommandAt, Launching, Sure, Shapes, TypeOK, RunnerTypeOK, RunnerInv
<1>3. ASSUME NEW w \in Workers, RefreshReturns(w) PROVE QuietInv'
  <2>1. PICK s, x : Refreshed(w, s, x)
    BY <1>3, RefreshEffect
  <2>2. /\ \A v \in Workers : v # w => at'[v] = at[v] /\ stage'[v] = stage[v]
        /\ at'[w] = "call" /\ cur[w] = None
    BY <2>1 DEF Refreshed, Takes, RunnerInv, Launching, Shapes, TypeOK, RunnerTypeOK
  <2>. QED
    BY <2>1, <2>2
      DEF Refreshed, runnerVars, QuietInv, QuietAt, Said, CommandAt, Launching,
          Sure
<1>4. ASSUME NEW w \in Workers, LockMutex(w) PROVE QuietInv'
  BY <1>4, NoneIsNothing
    DEF LockMutex, runnerVars, cacheVars, QuietInv, QuietAt, Said, CommandAt,
        Launching, Sure, Shapes, TypeOK, RunnerTypeOK, RunnerInv
<1>5. ASSUME NEW w \in Workers, PlainCall(w) PROVE QuietInv'
  BY <1>5, NoneIsNothing
    DEF PlainCall, runnerVars, cacheVars, QuietInv, QuietAt, Said, CommandAt,
        Launching, Sure, Shapes, TypeOK, RunnerTypeOK, RunnerInv
<1>6. ASSUME NEW w \in Workers, CheckLocks(w) PROVE QuietInv'
  <2>1. /\ \A v \in Workers : v # w => at'[v] = at[v]
        /\ at'[w] \in {"preConf", "preRm", "postConf", "postRm"}
           \/ (at[w] = "heal" /\ at'[w] \in {"healRm", "healConf"})
        /\ cur[w] = None
    BY <1>6 DEF CheckLocks, RunnerInv, Launching, Shapes, TypeOK, RunnerTypeOK
  <2>. QED
    BY <1>6, <2>1
      DEF CheckLocks, runnerVars, QuietInv, QuietAt, Said, CommandAt, Launching,
          Sure
<1>7. ASSUME NEW w \in Workers, RemoveLocks(w) PROVE QuietInv'
  <2>1. /\ \A v \in Workers : v # w => at'[v] = at[v]
        /\ at'[w] \in {"preConf", "postConf"} \/ (at[w] = "healRm" /\ at'[w] = "healConf")
        /\ cur[w] = None
    BY <1>7 DEF RemoveLocks, RunnerInv, Launching, Shapes, TypeOK, RunnerTypeOK
  <2>. QED
    BY <1>7, <2>1
      DEF RemoveLocks, runnerVars, QuietInv, QuietAt, Said, CommandAt,
          Launching, Sure
<1>8. ASSUME NEW w \in Workers, RunCommand(w) PROVE QuietInv'
  <2>. USE NoneIsNothing
  <2>1. PICK p \in Procs : Spawn(w, p) /\ what' = [what EXCEPT ![p] = CommandAt(w)]
    BY <1>8 DEF RunCommand
  <2>2. cur[w] = None /\ \A v \in Workers : cur[v] # p
    BY <2>1 DEF Spawn, Unused, RunnerInv
  <2>3. /\ \A v \in Workers : v # w => cur'[v] = cur[v]
        /\ \A q \in Procs : q # p => proc'[q] = proc[q] /\ exit'[q] = exit[q] /\ what'[q] = what[q]
        /\ cur'[w] = p /\ exit'[p] = None /\ what'[p] = CommandAt(w)
    BY <2>1 DEF Spawn, Shapes, TypeOK, RunnerTypeOK
  <2>4. UNCHANGED <<writers, db, stage, at, backend, restarted>>
    BY <1>8 DEF RunCommand
  <2>5. \A v \in Workers : CommandAt(v)' = CommandAt(v)
    BY <2>4 DEF CommandAt
  <2>6. writers \subseteq Procs /\ \A v \in Workers : cur[v] \in Procs \cup {None}
    BY DEF Shapes, TypeOK, RunnerTypeOK
  <2>. QED BY <2>2, <2>3, <2>4, <2>5, <2>6 DEF QuietInv, QuietAt, Said, Sure
<1>9. ASSUME NEW w \in Workers, CommandDone(w) PROVE QuietInv'
  <2>. USE NoneIsNothing
  <2>1. PICK r \in Results :
          /\ Answered(w, r)
          /\ (\E a, x : Inside(w, r, a, x)) \/ (\E e : Outcome(w, r, e))
    BY <1>9, DoneEffect
  <2>2. /\ \A v \in Workers : v # w => at'[v] = at[v] /\ stage'[v] = stage[v] /\ cur'[v] = cur[v]
        /\ cur'[w] = None /\ proc' = proc
        /\ \A p \in Procs : p # cur[w] => exit'[p] = exit[p]
        /\ UNCHANGED <<backend, writers, what, db, restarted>>
    BY <1>9, DoneFrame
  <2>3. \A v \in Workers : v # w => CommandAt(v)' = CommandAt(v)
    BY <2>2 DEF CommandAt
  <2>4. \A v \in Workers : v # w /\ cur[v] # None => cur[v] \in Procs /\ cur[v] # cur[w]
    BY DEF RunnerInv, Shapes, TypeOK, RunnerTypeOK
  <2>5. ASSUME Sure
        PROVE  /\ at'[w] \in {"cmd", "healConf"} => writers \subseteq {None}
               /\ at'[w] \in {"audit", "heal", "healRm", "reaudit"} => writers = {}
    <3>1. ASSUME NEW a, NEW x, Inside(w, r, a, x)
          PROVE  at'[w] = a /\ (a # "post" => writers = {}) /\ a # "healRm"
      BY <2>1, <2>5, <3>1
        DEF Inside, Answered, QuietInv, QuietAt, Shapes, TypeOK, RunnerTypeOK
    <3>2. ASSUME NEW e, Outcome(w, r, e) PROVE at'[w] \in {"call", "persist"}
      BY <3>2 DEF Outcome, Back, Shapes, TypeOK, RunnerTypeOK
    <3>3. CASE \E a, x : Inside(w, r, a, x)
      BY <3>1, <3>3
    <3>4. CASE \E e : Outcome(w, r, e)
      BY <3>2, <3>4
    <3>. QED BY <2>1, <3>3, <3>4
  <2>. QED BY <2>2, <2>3, <2>4, <2>5 DEF QuietInv, QuietAt, Said, Sure
<1>10. ASSUME NEW w \in Workers, Deadline(w), UNCHANGED <<cacheVars, opsVars>>
      PROVE  QuietInv'
  BY <1>10, NoneIsNothing
    DEF Deadline, cacheVars, opsVars, QuietInv, QuietAt, Said, CommandAt,
        Launching, Sure, Shapes, TypeOK, RunnerTypeOK
<1>11. ASSUME NEW w \in Workers, Escalate(w), UNCHANGED <<cacheVars, opsVars>>
      PROVE  QuietInv'
  BY <1>11, NoneIsNothing
    DEF Escalate, cacheVars, opsVars, QuietInv, QuietAt, Said, CommandAt,
        Launching, Sure, Shapes, TypeOK, RunnerTypeOK, RunnerInv, Dead
<1>12. ASSUME NEW p \in Procs, TakesLock(p) PROVE QuietInv'
  <2>. USE NoneIsNothing
  <2>1. SUFFICES ASSUME Sure', NEW v \in Workers
        PROVE  QuietAt(v)'
    BY DEF QuietInv
  <2>2. /\ UNCHANGED <<proc, exit, cur, phase, what, at, stage, backend, restarted>> /\ Sure
        /\ proc[p] = "running" /\ what[p] # "audit" /\ writers' = writers \cup {p}
    BY <1>12, <2>1 DEF TakesLock, runnerVars, Sure
  <2>3. at[v] \notin Outside => cur[v] = p /\ exit[p] = None
    BY <2>2, OnlyRunner
  <2>4. at[v] \in {"audit", "reaudit", "heal", "healRm"} => FALSE
    <3>1. ASSUME at[v] \in {"heal", "healRm"} PROVE FALSE
      BY <2>2, <2>3, <3>1 DEF RunnerInv, Launching, Outside
    <3>2. ASSUME at[v] \in {"audit", "reaudit"} PROVE FALSE
      <4>1. cur[v] = p /\ CommandAt(v) = "audit"
        BY <2>3, <3>2 DEF Outside, CommandAt
      <4>. QED BY <2>2, <4>1 DEF QuietInv, QuietAt
    <3>. QED BY <3>1, <3>2
  <2>5. CommandAt(v)' = CommandAt(v) /\ (Said(v, "zero")' <=> Said(v, "zero"))
    BY <2>2 DEF CommandAt, Said
  <2>. QED BY <2>2, <2>3, <2>4, <2>5 DEF QuietInv, QuietAt, Said, Outside
<1>13. ASSUME NEW p \in Procs, Finishes(p) PROVE QuietInv'
  <2>. USE NoneIsNothing
  <2>0. SUFFICES ASSUME Sure', NEW v \in Workers
        PROVE  QuietAt(v)'
    BY DEF QuietInv
  <2>1. PICK c \in {"zero", "accepted", "failure"}, left \in {"free", "orphans"}, y \in Reasons :
          /\ LeaderEnds(p, c, y, left)
          /\ left = "orphans" => what[p] \in {"upgrade", "change"}
          /\ what[p] = "audit" => y = IF db = "clean" THEN "other" ELSE "dirty"
          /\ ~ Changes(p) => db' = db
    BY <1>13 DEF Finishes, Says, Reasons
  <2>2. /\ UNCHANGED <<cur, phase, at, stage, backend, restarted>> /\ Sure
        /\ proc[p] = "running" /\ writers' = writers \ {p} /\ (p \in writers \/ what[p] = "audit")
    BY <1>13, <2>0, <2>1 DEF Finishes, LeaderEnds, Sure
  <2>3. /\ \A q \in Procs : q # p => exit'[q] = exit[q] /\ proc'[q] = proc[q] /\ what'[q] = what[q]
        /\ proc'[p] = left /\ (left # "free" => what'[p] = what[p])
        /\ exit'[p] # None => exit'[p].code = c /\ exit'[p].why = y
    BY <2>1 DEF LeaderEnds, Shapes, TypeOK, RunnerTypeOK
  <2>4. at[v] \notin Outside => cur[v] = p
    BY <2>2, OnlyRunner
  <2>5. at[v] \in Outside => cur[v] = None
    BY DEF RunnerInv, Launching, Outside
  <2>6. CommandAt(v)' = CommandAt(v)
    BY <2>2 DEF CommandAt
  <2>7. ASSUME at[v] \notin Outside
        PROVE  /\ cur[v] = p /\ what[p] = CommandAt(v)
               /\ at[v] \in {"preConf", "cmd", "healConf"} => what[p] # "audit"
               /\ at[v] \in {"audit", "reaudit"} => what[p] = "audit" /\ left = "free"
               /\ at[v] \notin {"heal", "healRm"}
    <3>1. cur[v] = p /\ what[p] = CommandAt(v)
      BY <2>2, <2>4, <2>7 DEF QuietInv, QuietAt
    <3>2. at[v] \in Launching
      BY <3>1 DEF RunnerInv
    <3>. QED BY <2>1, <3>1, <3>2 DEF CommandAt, Launching
  <2>8. p \in writers => writers' = {}
    BY <2>2 DEF LockInv, Sure
  <2>9. cur'[v] # None /\ proc'[cur'[v]] # "free" => what'[cur'[v]] = CommandAt(v)'
    BY <2>2, <2>3, <2>5, <2>6, <2>7
  <2>10. at'[v] \in {"preConf", "cmd", "healConf"} => writers' = {}
    BY <2>2, <2>7, <2>8 DEF Outside
  <2>11. at'[v] \in {"audit", "heal", "healRm", "reaudit"} => writers' = {}
    BY <2>2 DEF QuietInv, QuietAt
  <2>12. ASSUME at'[v] \in {"audit", "reaudit"}, Said(v, "zero")'
         PROVE  proc'[cur'[v]] = "free" /\ (exit'[cur'[v]].why # "dirty" => db' = "clean")
    <3>1. cur[v] = p /\ what[p] = "audit" /\ left = "free"
      BY <2>2, <2>7, <2>12 DEF Outside
    <3>2. db' = db /\ exit'[p].why = y
      BY <2>1, <2>2, <2>3, <2>12, <3>1 DEF Said, Changes
    <3>. QED BY <2>1, <2>2, <2>3, <3>1, <3>2
  <2>. QED BY <2>9, <2>10, <2>11, <2>12 DEF QuietAt
<1>14. ASSUME NEW p \in Procs, Refused(p) PROVE QuietInv'
  <2>. USE NoneIsNothing
  <2>0. SUFFICES ASSUME Sure', NEW v \in Workers
        PROVE  QuietAt(v)'
    BY DEF QuietInv
  <2>1. LeaderEnds(p, "failure", "other", "free")
    BY <1>14 DEF Refused
  <2>2. /\ UNCHANGED <<cur, phase, at, stage, backend, restarted, db>> /\ Sure
        /\ writers' \subseteq writers
    BY <1>14, <2>0, <2>1 DEF Refused, LeaderEnds, Sure
  <2>3. /\ \A q \in Procs : q # p => exit'[q] = exit[q] /\ proc'[q] = proc[q] /\ what'[q] = what[q]
        /\ proc'[p] = "free" /\ ("free" # "free" => what'[p] = what[p]) /\ proc[p] # "free"
        /\ exit'[p] # None => exit'[p].code = "failure"
    BY <1>14, <2>1 DEF Refused, LeaderEnds, Shapes, TypeOK, RunnerTypeOK
  <2>4. CommandAt(v)' = CommandAt(v) /\ cur[v] \in Procs \cup {None}
    BY <2>2 DEF CommandAt, Shapes, TypeOK, RunnerTypeOK
  <2>5. Said(v, "zero")' => Said(v, "zero") /\ cur[v] # p
    BY <2>2, <2>3, <2>4 DEF Said
  <2>. QED BY <2>2, <2>3, <2>4, <2>5 DEF QuietInv, QuietAt, Said
<1>15. ASSUME NEW p \in Procs, LeavesChildren(p) PROVE QuietInv'
  <2>. USE NoneIsNothing
  <2>0. SUFFICES ASSUME Sure', NEW v \in Workers
        PROVE  QuietAt(v)'
    BY DEF QuietInv
  <2>1. LeaderEnds(p, "signal", "other", "orphans")
    BY <1>15 DEF LeavesChildren
  <2>2. /\ UNCHANGED <<cur, phase, at, stage, backend, restarted, db>> /\ Sure
        /\ writers' \subseteq writers
    BY <1>15, <2>0, <2>1 DEF LeavesChildren, LeaderEnds, Sure
  <2>3. /\ \A q \in Procs : q # p => exit'[q] = exit[q] /\ proc'[q] = proc[q] /\ what'[q] = what[q]
        /\ proc'[p] = "orphans" /\ ("orphans" # "free" => what'[p] = what[p]) /\ proc[p] # "free"
        /\ exit'[p] # None => exit'[p].code = "signal"
    BY <1>15, <2>1 DEF LeavesChildren, LeaderEnds, Shapes, TypeOK, RunnerTypeOK
  <2>4. CommandAt(v)' = CommandAt(v) /\ cur[v] \in Procs \cup {None}
    BY <2>2 DEF CommandAt, Shapes, TypeOK, RunnerTypeOK
  <2>5. Said(v, "zero")' => Said(v, "zero") /\ cur[v] # p
    BY <2>2, <2>3, <2>4 DEF Said
  <2>. QED BY <2>2, <2>3, <2>4, <2>5 DEF QuietInv, QuietAt, Said
<1>16. ASSUME NEW p \in Procs, Dies(p) PROVE QuietInv'
  <2>. USE NoneIsNothing
  <2>0. SUFFICES ASSUME Sure', NEW v \in Workers
        PROVE  QuietAt(v)'
    BY DEF QuietInv
  <2>1. LeaderEnds(p, "signal", "other", "free")
    BY <1>16 DEF Dies
  <2>2. /\ UNCHANGED <<cur, phase, at, stage, backend, restarted, db>> /\ Sure
        /\ writers' \subseteq writers
    BY <1>16, <2>0, <2>1 DEF Dies, LeaderEnds, Sure
  <2>3. /\ \A q \in Procs : q # p => exit'[q] = exit[q] /\ proc'[q] = proc[q] /\ what'[q] = what[q]
        /\ proc'[p] = "free" /\ ("free" # "free" => what'[p] = what[p]) /\ proc[p] # "free"
        /\ exit'[p] # None => exit'[p].code = "signal"
    BY <1>16, <2>1 DEF Dies, LeaderEnds, Shapes, TypeOK, RunnerTypeOK
  <2>4. CommandAt(v)' = CommandAt(v) /\ cur[v] \in Procs \cup {None}
    BY <2>2 DEF CommandAt, Shapes, TypeOK, RunnerTypeOK
  <2>5. Said(v, "zero")' => Said(v, "zero") /\ cur[v] # p
    BY <2>2, <2>3, <2>4 DEF Said
  <2>. QED BY <2>2, <2>3, <2>4, <2>5 DEF QuietInv, QuietAt, Said
<1>17. ASSUME NEW p \in Procs, OrphansEnd(p) PROVE QuietInv'
  <2>. USE NoneIsNothing
  <2>0. SUFFICES ASSUME Sure', NEW v \in Workers
        PROVE  QuietAt(v)'
    BY DEF QuietInv
  <2>2. /\ UNCHANGED <<cur, exit, phase, at, stage, backend, restarted>> /\ Sure
        /\ writers' = writers \ {p} /\ (p \notin writers => db' = db)
    BY <1>17, <2>0 DEF OrphansEnd, Sure
  <2>3. /\ \A q \in Procs : q # p => proc'[q] = proc[q] /\ what'[q] = what[q]
        /\ proc'[p] = "free"
    BY <1>17 DEF OrphansEnd, Shapes, TypeOK, RunnerTypeOK
  <2>4. /\ CommandAt(v)' = CommandAt(v) /\ cur[v] \in Procs \cup {None}
        /\ Said(v, "zero")' <=> Said(v, "zero")
    BY <2>2 DEF CommandAt, Said, Shapes, TypeOK, RunnerTypeOK
  <2>. QED BY <2>2, <2>3, <2>4 DEF QuietInv, QuietAt, Said
<1>18. ASSUME CacheExpires PROVE QuietInv'
  BY <1>18, NoneIsNothing
    DEF CacheExpires, Expire, runnerVars, QuietInv, QuietAt, Said, CommandAt,
        Launching, Sure, Shapes, TypeOK, RunnerTypeOK
<1>19. ASSUME AgentRestarts PROVE QuietInv'
  BY <1>19, NoneIsNothing
    DEF AgentRestarts, LoadStateFile, QuietInv, QuietAt, Said, CommandAt,
        Launching, Sure, Shapes, TypeOK, RunnerTypeOK
<1>20. ASSUME UNCHANGED vars PROVE QuietInv'
  BY <1>20
    DEF vars, runnerVars, cacheVars, opsVars, QuietInv, QuietAt, Said, CommandAt, Launching, Sure, Shapes,
        TypeOK, RunnerTypeOK
<1>. QED
  BY <1>1, <1>2, <1>3, <1>4, <1>5, <1>6, <1>7, <1>8, <1>9, <1>10, <1>11,
     <1>12, <1>13, <1>14, <1>15, <1>16, <1>17, <1>18, <1>19, <1>20
    DEF Next, Worker, Process, RunnerMoves, RunnerStep, Finished

-----------------------------------------------------------------------------
(* The theorems *)

\* The invariant holds in the beginning.
LEMMA OpsStart == Init => OpsInv
<1>. SUFFICES ASSUME Init PROVE OpsInv
  OBVIOUS
<1>. USE NoneIsNothing DEF Init, RunnerInit, CacheInit
<1>1. Shapes
  <2>1. /\ backend \in AllBackends /\ plan \in [Workers -> SUBSET AllOperations]
    BY OpsAssumption
  <2>. QED
    BY <2>1
      DEF Shapes, TypeOK, RunnerTypeOK, CacheTypeOK, Phases, Stages, Ats, Ages
<1>2. RunnerInv /\ ControlInv /\ SaysInv
  BY DEF RunnerInv, ControlInv, SaysInv, Busy, Post, Outside
<1>3. LockInv /\ FreshInv /\ HeldInv /\ LateInv
  BY DEF LockInv, FreshInv, HeldInv, LateInv
<1>4. AwaitedInv /\ QuietInv
  BY DEF AwaitedInv, QuietInv, QuietAt
<1>. QED BY <1>1, <1>2, <1>3, <1>4 DEF OpsInv

\* Every step keeps the invariant.
LEMMA OpsStep == OpsInv /\ [Next]_vars => OpsInv'
BY ShapesStep, RunnerStepKeeps, ControlStep, SaysStep, LockStep, FreshStep, HeldStep,
   LateStep, AwaitedStep, QuietStep
   DEF OpsInv

\* The invariant of the specification.
LEMMA OpsAlways == Spec => []OpsInv
BY OpsStart, OpsStep, PTL DEF Spec

\* The runner, the closures and the cache state keep their types.
THEOREM OpsTypes == Spec => []TypeOK
<1>1. OpsInv => TypeOK
  BY DEF OpsInv, Shapes
<1>. QED BY <1>1, OpsAlways, PTL

\* Two commands of the agent never write the package database at once, over
\* timeouts, restarts and detached closures, for any number of them; pacman and
\* a host without pgrep are exempt (cleanup_stale_apt_locks, run_pacman).
THEOREM OneWriterAlways == Spec => []OneWriter
<1>1. OpsInv => OneWriter
  <2>. SUFFICES ASSUME OpsInv, HasPgrep, backend # "pacman"
                PROVE  Cardinality(writers) <= 1
    BY DEF OneWriter
  <2>1. writers \subseteq {holder}
    BY DEF OpsInv, LockInv
  <2>2. IsFiniteSet({holder}) /\ Cardinality({holder}) = 1
    BY FS_Singleton
  <2>3. Cardinality(writers) <= Cardinality({holder})
    BY <2>1, <2>2, FS_Subset
  <2>. QED BY <2>2, <2>3
<1>. QED BY <1>1, OpsAlways, PTL

\* A patch job that met held packages is never reported as completed
\* (apply_patches, held_package_partial_failure).
THEOREM HeldBackIsAlwaysReported == Spec => []HeldBackIsReported
<1>1. OpsInv => HeldBackIsReported
  BY DEF OpsInv, HeldInv, HeldBackIsReported
<1>. QED BY <1>1, OpsAlways, PTL

\* A job that fails because its command ran into the deadline is classified
\* TIMEOUT, through every retry and context (classify_error).
THEOREM TimeoutIsAlwaysReported == Spec => []TimeoutIsReported
<1>1. OpsInv => TimeoutIsReported
  BY DEF OpsInv, LateInv, TimeoutIsReported, Classify
<1>. QED BY <1>1, OpsAlways, PTL

\* The package lists count as fresh only if a refresh succeeded within the
\* threshold, or the first attempt of all failed within it (is_stale).
THEOREM FreshIsAlwaysEarned == Spec => []FreshIsEarned
<1>1. OpsInv => FreshIsEarned
  BY DEF OpsInv, FreshInv, Earned, FreshIsEarned, IsStale
<1>. QED BY <1>1, OpsAlways, PTL

\* Whichever step a worker takes, a closure of the APT backend that it ends with
\* Ok leaves a clean database.
LEMMA OkStep ==
    ASSUME OpsInv, [Next]_vars, NEW w \in Workers, Busy(w), job[w] # "Refresh",
           stage'[w] = "done", err'[w] = None, Sure
    PROVE  db' = "clean"
<1>. USE NoneIsNothing
<1>0. /\ Shapes /\ RunnerInv /\ ControlInv /\ QuietInv /\ stage[w] # "done"
      /\ stage \in [Workers -> Stages]
  BY DEF OpsInv, Busy, Shapes, TypeOK
<1>1. ASSUME stage'[w] = stage[w] PROVE FALSE
  BY <1>0, <1>1
<1>2. ASSUME NEW v \in Workers, NEW o \in plan[v], Start(v, o) PROVE db' = "clean"
  BY <1>0, <1>2 DEF Start, FirstStage
<1>3. ASSUME NEW v \in Workers, RefreshReturns(v) PROVE db' = "clean"
  <2>1. PICK s, x : Refreshed(v, s, x)
    BY <1>0, <1>3, RefreshEffect
  <2>2. err \in [Workers -> Errors \cup {None}]
    BY <1>0 DEF Shapes, TypeOK
  <2>. QED BY <1>0, <2>1, <2>2 DEF Refreshed, Takes
<1>4. ASSUME NEW v \in Workers, CommandDone(v) PROVE db' = "clean"
  <2>1. v = w
    BY <1>0, <1>4, DoneFrame
  <2>2. PICK r \in Results :
          /\ Answered(w, r) /\ Records(w, r)
          /\ (\E a, x : Inside(w, r, a, x)) \/ (\E e : Outcome(w, r, e))
    BY <1>0, <1>4, <2>1, DoneEffect
  <2>3. PICK e : Outcome(w, r, e)
    BY <1>1, <2>2 DEF Inside
  <2>4. PICK s, x : Takes(w, s, x) /\ Follows(w, e, s, x)
    BY <1>1, <2>3 DEF Outcome, Back
  <2>5. s = "done" /\ x = None
    BY <1>0, <2>4 DEF Takes, Shapes, TypeOK
  <2>6. e = None
    BY <2>4, <2>5 DEF Follows
  <2>7. at[w] \in {"audit", "reaudit"} /\ Ok(r) /\ r.why # "dirty"
    <3>1. AuditDirty # None
      BY DEF AuditDirty, Errors, Reasons
    <3>. QED BY <1>0, <2>3, <2>6, <3>1 DEF Outcome, ControlInv, Post, Sure
  <2>8. Said(w, "zero")
    BY <2>2, <2>7 DEF Answered
  <2>9. proc[cur[w]] = "free" /\ (exit[cur[w]].why # "dirty" => db = "clean")
    BY <1>0, <2>7, <2>8 DEF QuietInv, QuietAt
  <2>10. r.why = exit[cur[w]].why
    BY <2>2, <2>8, <2>9 DEF Answered, Said
  <2>. QED BY <2>2, <2>7, <2>9, <2>10 DEF Records
<1>5. ASSUME AgentRestarts PROVE db' = "clean"
  BY <1>5 DEF AgentRestarts
<1>6. ASSUME UNCHANGED stage PROVE FALSE
  BY <1>1, <1>6
<1>7. ASSUME NEW v \in Workers,
             \/ TakesSnapshot(v) \/ LockMutex(v) \/ PlainCall(v) \/ CheckLocks(v)
             \/ RemoveLocks(v) \/ RunCommand(v) \/ RunnerMoves(v)
      PROVE  UNCHANGED stage
  BY <1>7 DEF TakesSnapshot, LockMutex, PlainCall, CheckLocks, RemoveLocks, RunCommand,
              RunnerMoves, opsVars
<1>8. ASSUME NEW p \in Procs, Process(p) PROVE UNCHANGED stage
  BY <1>8 DEF Process, TakesLock, Finishes, Refused, LeavesChildren, Dies, OrphansEnd
<1>9. ASSUME CacheExpires \/ Finished \/ UNCHANGED vars PROVE UNCHANGED stage
  BY <1>9 DEF CacheExpires, Finished, vars, opsVars
<1>. QED
  BY <1>2, <1>3, <1>4, <1>5, <1>6, <1>7, <1>8, <1>9 DEF Next, Worker

\* run_apt_safe with verify_dpkg_clean: a closure of the APT backend that ends
\* with Ok leaves no half-configured package, whatever commands that were given
\* up left running, as long as the agent was not restarted.
THEOREM OkAlwaysLeavesDbClean == Spec => OkLeavesDbClean
<1>1. OpsInv /\ [Next]_vars =>
        [\A w \in Workers :
            (Busy(w) /\ job[w] # "Refresh" /\ stage'[w] = "done" /\ err'[w] = None
               /\ backend = "apt" /\ HasPgrep /\ ~restarted) => db' = "clean"]_vars
  BY OkStep DEF Sure
<1>. QED BY <1>1, OpsAlways, PTL DEF Spec, OkLeavesDbClean

=============================================================================
