---------------------------- MODULE CommandRunner ----------------------------
(***************************************************************************)
(* SystemCommandRunner (src/src/packages/coordinator.rs): a blocking call  *)
(* that runs one command in a process group of its own and gives up at a   *)
(* deadline.  The group is killed in steps, SIGTERM, five seconds, SIGKILL *)
(* and five seconds more, and the call returns whatever is left of it: the *)
(* processes of a group may outlive the call that started it, and they     *)
(* outlive the agent.                                                      *)
(*                                                                         *)
(* What the command does is not known here; the module that extends this   *)
(* one moves proc and exit when a process ends.                            *)
(***************************************************************************)
EXTENDS Naturals, FiniteSets

CONSTANTS
    Workers,   \* blocking threads that execute a mutation closure
    Procs,     \* process groups that can be alive at once (a bound)
    None

VARIABLES
    proc,    \* each group: free, running (its leader lives), orphans
             \* (the leader is gone, its children are not), doomed (SIGKILL
             \* was sent and an uninterruptible sleep delays it)
    exit,    \* how the leader of each group ended, None before that
    cur,     \* the group each worker waits for
    phase    \* where in run_async each worker is suspended

runnerVars == <<proc, exit, cur, phase>>

Phases == {"idle", "wait", "term", "reap"}

\* Exit of a leader: code zero, a code some callers accept (dnf 100), any
\* other code, or death by signal, with what it wrote to stderr.
Codes   == {"zero", "accepted", "failure", "signal"}
Reasons == {"fetch", "held", "deps", "dirty", "other"}
Exits   == [code : Codes, why : Reasons]

ASSUME RunnerAssumption == None \notin Workers \cup Procs \cup Exits

\* What run_with_timeout returns: Ok, or an error with its CommandError.
\* kind "timeout" has timed_out set, "spawn" has spawn_error set.
Results == [kind : {"ok", "exit", "timeout", "spawn"}, code : Codes, why : Reasons]

RunnerInit ==
    /\ proc = [p \in Procs |-> "free"]
    /\ exit = [p \in Procs |-> None]
    /\ cur = [w \in Workers |-> None]
    /\ phase = [w \in Workers |-> "idle"]

Dead(p) == proc[p] \in {"free", "orphans"}

\* A group whose leader is dead and collected, or that nobody waits for.
Unused(p) == proc[p] = "free" /\ \A w \in Workers : cur[w] # p

\* cmd.spawn(): a new process group, and the deadline starts to run.
Spawn(w, p) ==
    /\ phase[w] = "idle"
    /\ Unused(p)
    /\ proc' = [proc EXCEPT ![p] = "running"]
    /\ exit' = [exit EXCEPT ![p] = None]
    /\ cur' = [cur EXCEPT ![w] = p]
    /\ phase' = [phase EXCEPT ![w] = "wait"]

\* The deadline elapses: kill_child sends SIGTERM to the group.
Deadline(w) ==
    /\ phase[w] = "wait"
    /\ phase' = [phase EXCEPT ![w] = "term"]
    /\ UNCHANGED <<proc, exit, cur>>

\* The grace period is over: SIGKILL to the group.
Escalate(w) ==
    /\ phase[w] = "term"
    /\ ~Dead(cur[w])
    /\ phase' = [phase EXCEPT ![w] = "reap"]
    /\ proc' = [proc EXCEPT ![cur[w]] = "doomed"]
    /\ UNCHANGED <<exit, cur>>

\* collect_drain: stderr is complete, or empty when a living process of the
\* group keeps the pipe open past the bound.
Drained(w) == IF proc[cur[w]] = "free" THEN {exit[cur[w]].why} ELSE {exit[cur[w]].why, "other"}

\* Mutant: a command that was killed at its deadline looks like one that failed.
ResultsOfNoTimeout(w) ==
    IF exit[cur[w]] = None
    THEN {[kind |-> "exit", code |-> "signal", why |-> "other"]}
    ELSE [kind : {IF phase[w] = "wait" /\ exit[cur[w]].code = "zero" THEN "ok" ELSE "exit"},
          code : {exit[cur[w]].code}, why : Drained(w)]

\* The results run_async may return once the output is collected.
ResultsOf(w) ==
    LET p == cur[w] IN
    IF phase[w] = "wait"
    THEN [kind : {IF exit[p].code = "zero" THEN "ok" ELSE "exit"},
          code : {exit[p].code}, why : Drained(w)]
    ELSE IF exit[p] = None
    THEN {[kind |-> "timeout", code |-> "signal", why |-> "other"]}
    ELSE [kind : {"timeout"}, code : {exit[p].code}, why : Drained(w)]

\* Mutant: after SIGKILL the child is waited for without a bound.
ReturnsWhenReaped(w, r) ==
    /\ phase[w] # "idle"
    /\ Dead(cur[w])
    /\ r \in ResultsOf(w)
    /\ phase' = [phase EXCEPT ![w] = "idle"]
    /\ exit' = [exit EXCEPT ![cur[w]] = None]
    /\ cur' = [cur EXCEPT ![w] = None]
    /\ UNCHANGED proc

\* run_with_timeout returns r: child.wait() resolved before the deadline or in
\* the grace period (then no SIGKILL follows, whatever the children do), or
\* SIGKILL was sent and the leader was reaped or abandoned five seconds later.
Returns(w, r) ==
    /\ phase[w] # "idle"
    /\ Dead(cur[w]) \/ phase[w] = "reap"
    /\ r \in ResultsOf(w)
    /\ phase' = [phase EXCEPT ![w] = "idle"]
    /\ exit' = [exit EXCEPT ![cur[w]] = None]
    /\ cur' = [cur EXCEPT ![w] = None]
    /\ UNCHANGED proc

SpawnError == [kind |-> "spawn", code |-> "signal", why |-> "other"]

\* cmd.spawn(), the runtime or the thread of the call fails.
SpawnFails(w, r) ==
    /\ phase[w] = "idle"
    /\ r = SpawnError
    /\ UNCHANGED runnerVars

\* The timers that fire while the runner waits.
RunnerStep(w) == Deadline(w) \/ Escalate(w)

RunnerTypeOK ==
    /\ proc \in [Procs -> {"free", "running", "orphans", "doomed"}]
    /\ exit \in [Procs -> Exits \cup {None}]
    /\ cur \in [Workers -> Procs \cup {None}]
    /\ phase \in [Workers -> Phases]

\* run_command_timed: Err unless the command exited with zero in time.
Ok(r) == r.kind = "ok"

\* run_command_with_acceptable_exit_timed: the exit code alone decides, so a
\* command killed at its deadline counts as a success if it exited with one.
OkAccepting(r, codes) == r.kind = "ok" \/ (r.kind # "spawn" /\ r.code \in codes)

=============================================================================
