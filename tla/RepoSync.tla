------------------------------ MODULE RepoSync ------------------------------
(***************************************************************************)
(* The package repository of the manager on the host: the self-heal at     *)
(* startup and the periodic synchronisation (src/enroll/repo_health.rs)    *)
(* beside an enrollment run by an administrator, which provisions the same *)
(* two files (src/enroll/provision.rs): the signing key and the sources.   *)
(*                                                                         *)
(* The manager's configuration is a version number; key and sources of a   *)
(* version belong together.  A process may die between any two steps.      *)
(***************************************************************************)
EXTENDS Integers, FiniteSets

CONSTANTS
    Hosts,      \* the kinds of host of this instance
    Versions,   \* 1 .. n; the bound on changes at the manager
    Budgets     \* how often each event of the environment may happen

\* Distribution family; apt with or without gpg installed, apk with or without
\* an RSA key sent by the manager.  pacman hosts do what rpm hosts do.
HostKinds == {"apt", "aptNoGpg", "rpm", "apk", "apkNoKey", "other"}

ASSUME RepoAssumption ==
    /\ Hosts \subseteq HostKinds
    /\ 1 \in Versions /\ Versions \subseteq Nat \ {0}

VARIABLES
    host,      \* detect_distro_id, and whether gpg is there
    cur,       \* the version the manager serves
    key,       \* the keyring file: version and form; version 0 is no file
    asc,       \* the .asc file written without gpg
    lines,     \* lines of the sources file: versions, 0 an administrator's own
    tmp,       \* temporary files: contents, {} is no file
    pc, mem,   \* per process, where it is and what it holds
    synced,    \* RepoSyncState.synced
    phase,     \* self-heal at startup or the background task
    vouched,   \* history: nothing disturbed the files since the last sync began
    faults,    \* history: what went wrong so far
    budget

vars == <<host, cur, key, asc, lines, tmp, pc, mem, synced, phase, vouched, faults, budget>>

Procs  == {"svc", "cli"}
Admin  == 0
IsApk  == host \in {"apk", "apkNoKey"}
NoFile == [ver |-> 0, form |-> "none"]
Blank  == [ver |-> 0, clean |-> FALSE]

\* The temporary file of the key: provision_repo_config and the one for Alpine
\* overwrite what is there, write_pem_file insists on creating it.
CreatesNew == host \in {"rpm", "aptNoGpg"}

Init ==
    /\ host \in Hosts /\ cur = 1 /\ budget \in Budgets
    /\ key = NoFile /\ asc = 0
    /\ lines = IF IsApk THEN {Admin} ELSE {}
    /\ tmp = [key |-> {}, src |-> {}]
    /\ pc = [svc |-> "fetch", cli |-> "off"] /\ mem = [p \in Procs |-> Blank]
    /\ synced = "none" /\ phase = "startup"
    /\ vouched = FALSE /\ faults = {}

Goto(p, label) == pc' = [pc EXCEPT ![p] = label]
Spend(event) == budget[event] > 0 /\ budget' = [budget EXCEPT ![event] = @ - 1]

\* p writes a file or a temporary file; from the service's view anybody else's
\* write disturbs its sync (both use the same temporary files).
Disturb(p) ==
    /\ vouched' = (vouched /\ p = "svc")
    /\ mem' = [mem EXCEPT !["svc"].clean = @ /\ p = "svc"]

-----------------------------------------------------------------------------
(* The end of check_and_provision_repo_config, and what its caller does.    *)

\* update_sync_state; at startup the result is only logged and the background
\* task begins with a sync of its own.
Result(p, ok) ==
    \/ /\ p = "cli" /\ Goto(p, "off")
       /\ UNCHANGED <<synced, phase, vouched>>
    \/ /\ p = "svc" /\ phase = "startup"
       /\ phase' = "task" /\ Goto(p, "fetch")
       /\ UNCHANGED <<synced, vouched>>
    \/ /\ p = "svc" /\ phase = "task"
       /\ synced' = (IF ok THEN "true" ELSE "false")
       /\ vouched' = mem[p].clean
       /\ Goto(p, "sleep") /\ UNCHANGED phase

\* An error of any step.
Fails(p, why) ==
    /\ Result(p, FALSE)
    /\ faults' = faults \cup why
    /\ UNCHANGED <<host, cur, key, asc, lines, tmp, mem>>

\* The interval is over, or the delay after an error and then the interval.
Wake ==
    /\ pc["svc"] = "sleep" /\ Goto("svc", "fetch")
    /\ UNCHANGED <<host, cur, key, asc, lines, tmp, mem, synced, phase, vouched, faults, budget>>

-----------------------------------------------------------------------------
(* check_and_provision_repo_config *)

\* As Fetch, but an answer is kept for later syncs.
FetchOnce(p) ==
    /\ pc[p] = "fetch" /\ host # "other"
    /\ mem' = [mem EXCEPT ![p] = [ver |-> IF @.ver = 0 THEN cur ELSE @.ver, clean |-> TRUE]]
    /\ Goto(p, IF p = "svc" THEN "compare" ELSE "key")
    /\ UNCHANGED <<host, cur, key, asc, lines, tmp, synced, phase, vouched, faults, budget>>

\* fetch_repo_config; an enrollment has the configuration from its bundle.
Fetch(p) ==
    /\ pc[p] = "fetch" /\ host # "other"
    /\ mem' = [mem EXCEPT ![p] = [ver |-> cur, clean |-> TRUE]]
    /\ Goto(p, IF p = "svc" THEN "compare" ELSE "key")
    /\ UNCHANGED <<host, cur, key, asc, lines, tmp, synced, phase, vouched, faults, budget>>

FetchFails(p) ==
    /\ pc[p] = "fetch" /\ host # "other" /\ Fails(p, {"fetch"}) /\ UNCHANGED budget

\* detect_distro_id or expected_repo_paths: not a distribution known here.
UnknownDistro(p) ==
    /\ pc[p] = "fetch" /\ host = "other" /\ Fails(p, {}) /\ UNCHANGED budget

SourcesMatch(v) == ~ IsApk /\ lines = {v}

\* As UpToDate, but the key is not compared.
UpToDateSources(v) == SourcesMatch(v)

\* Byte for byte.  An apt keyring is binary, which the armored key never equals;
\* /etc/apk/repositories is never just the line of the manager.
UpToDate(v) == SourcesMatch(v) /\ key = [ver |-> v, form |-> "text"]

AlreadyConfigured ==
    /\ pc["svc"] = "compare" /\ UpToDate(mem["svc"].ver)
    /\ Result("svc", TRUE)
    /\ UNCHANGED <<host, cur, key, asc, lines, tmp, mem, faults, budget>>

Mismatch ==
    /\ pc["svc"] = "compare" /\ ~ UpToDate(mem["svc"].ver)
    /\ Goto("svc", "key")
    /\ UNCHANGED <<host, cur, key, asc, lines, tmp, mem, synced, phase, vouched, faults, budget>>

-----------------------------------------------------------------------------
(* provision_repo_config and provision_alpine_repo_config *)

\* Alpine without an RSA key: only a warning.
SkipKey(p) ==
    /\ pc[p] = "key" /\ host = "apkNoKey" /\ Goto(p, "src")
    /\ UNCHANGED <<host, cur, key, asc, lines, tmp, mem, synced, phase, vouched, faults, budget>>

WriteKey(p) ==
    /\ pc[p] = "key" /\ host # "apkNoKey"
    /\ CreatesNew => tmp.key = {}
    /\ tmp' = [tmp EXCEPT !.key = {mem[p].ver}]
    /\ Disturb(p) /\ Goto(p, "keyRename")
    /\ UNCHANGED <<host, cur, key, asc, lines, synced, phase, faults, budget>>

\* create_new finds a file, of another process or of one that died.
KeyClash(p) ==
    /\ pc[p] = "key" /\ CreatesNew /\ tmp.key # {}
    /\ Fails(p, {"clash"}) /\ UNCHANGED budget

AfterRename(name) == [tmp EXCEPT ![name] = {}]

\* What is renamed is what is there, whoever wrote it last.
RenameKey(p) ==
    /\ pc[p] = "keyRename" /\ tmp.key # {}
    /\ LET v == CHOOSE x \in tmp.key : TRUE
       IN  IF host = "aptNoGpg" THEN asc' = v /\ UNCHANGED key
           ELSE /\ key' = [ver |-> v, form |-> IF host = "apt" THEN "binary" ELSE "text"]
                /\ UNCHANGED asc
    /\ tmp' = AfterRename("key")
    /\ Disturb(p) /\ Goto(p, "src")
    /\ UNCHANGED <<host, cur, lines, synced, phase, faults, budget>>

\* As NewLines, but Alpine's file is replaced like the others.
NewLinesReplace(v, read) == {v}

\* Alpine: appended to what was read.
NewLines(v, read) == IF IsApk THEN read \cup {v} ELSE {v}

\* The line is there: nothing to do.
LineThere(p) ==
    /\ pc[p] = "src" /\ IsApk /\ mem[p].ver \in lines
    /\ Result(p, TRUE)
    /\ UNCHANGED <<host, cur, key, asc, lines, tmp, mem, faults, budget>>

WriteSources(p) ==
    /\ pc[p] = "src" /\ ~ (IsApk /\ mem[p].ver \in lines)
    /\ tmp' = [tmp EXCEPT !.src = NewLines(mem[p].ver, lines)]
    /\ Disturb(p) /\ Goto(p, "srcRename")
    /\ UNCHANGED <<host, cur, key, asc, lines, synced, phase, faults, budget>>

\* unwrap_or_default: a file that cannot be read counts as empty.
ReadFails(p) ==
    /\ pc[p] = "src" /\ IsApk /\ Spend("errors")
    /\ tmp' = [tmp EXCEPT !.src = NewLines(mem[p].ver, {})]
    /\ faults' = faults \cup {"read"}
    /\ Disturb(p) /\ Goto(p, "srcRename")
    /\ UNCHANGED <<host, cur, key, asc, lines, synced, phase>>

RenameSources(p) ==
    /\ pc[p] = "srcRename" /\ tmp.src # {}
    /\ lines' = tmp.src
    /\ tmp' = AfterRename("src")
    /\ \/ p = "svc" /\ Result(p, TRUE) /\ UNCHANGED mem
       \/ p = "cli" /\ Disturb(p) /\ Goto(p, "off") /\ UNCHANGED <<synced, phase>>
    /\ UNCHANGED <<host, cur, key, asc, faults, budget>>

\* Another process renamed the temporary file away.
RenameFails(p) ==
    /\ \/ pc[p] = "keyRename" /\ tmp.key = {}
       \/ pc[p] = "srcRename" /\ tmp.src = {}
    /\ Fails(p, {"clash"}) /\ UNCHANGED budget

\* No space, no permission, gpg fails.
WriteFails(p) ==
    /\ pc[p] \in {"key", "keyRename", "src", "srcRename"} /\ Spend("errors")
    /\ Fails(p, {"write"})

Provision(p) ==
    \/ SkipKey(p) \/ WriteKey(p) \/ KeyClash(p) \/ RenameKey(p)
    \/ LineThere(p) \/ WriteSources(p) \/ RenameSources(p) \/ RenameFails(p)

-----------------------------------------------------------------------------
(* The environment. *)

Rotate ==
    /\ cur + 1 \in Versions /\ cur' = cur + 1
    /\ UNCHANGED <<host, key, asc, lines, tmp, pc, mem, synced, phase, vouched, faults, budget>>

\* The administrator enrolls again.
Enroll ==
    /\ pc["cli"] = "off" /\ Spend("runs") /\ Goto("cli", "fetch")
    /\ faults' = faults \cup {"overlap"}
    /\ UNCHANGED <<host, cur, key, asc, lines, tmp, mem, synced, phase, vouched>>

\* A file of the repository gets lost.
Lost ==
    /\ Spend("losses") /\ Disturb("cli")
    /\ \/ key' = NoFile /\ UNCHANGED lines
       \/ lines' = lines \cap {Admin} /\ UNCHANGED key
    /\ UNCHANGED <<host, cur, asc, tmp, pc, synced, phase, faults>>

\* systemd starts the service again.
Dies(p) ==
    /\ pc[p] # "off" /\ Spend("deaths")
    /\ Goto(p, IF p = "svc" THEN "fetch" ELSE "off")
    /\ IF p = "svc" THEN synced' = "none" /\ phase' = "startup" /\ vouched' = FALSE
       ELSE UNCHANGED <<synced, phase, vouched>>
    /\ mem' = [mem EXCEPT ![p] = Blank]
    /\ faults' = faults \cup {"death"}
    /\ UNCHANGED <<host, cur, key, asc, lines, tmp>>

Next ==
    \/ \E p \in Procs :
          \/ Fetch(p) \/ FetchFails(p) \/ UnknownDistro(p) \/ Provision(p)
          \/ ReadFails(p) \/ WriteFails(p) \/ Dies(p)
    \/ AlreadyConfigured \/ Mismatch \/ Wake
    \/ Rotate \/ Enroll \/ Lost

\* Processes go on, timers fire, and the manager does not fail every request.
Fairness ==
    /\ \A p \in Procs : SF_vars(Fetch(p)) /\ WF_vars(Provision(p))
    /\ WF_vars(AlreadyConfigured \/ Mismatch \/ Wake)

Spec == Init /\ [][Next]_vars /\ Fairness

-----------------------------------------------------------------------------
(* Properties. *)

\* Shapes of the state; only Alpine's sources file, which is shared with the
\* administrator, ever has more than one line.
TypeOK ==
    /\ host \in HostKinds /\ cur \in Versions
    /\ key \in [ver : Versions \cup {0}, form : {"none", "binary", "text"}]
    /\ asc \in Versions \cup {0}
    /\ lines \subseteq Versions \cup {Admin} /\ (IsApk \/ Cardinality(lines) <= 1)
    /\ tmp \in [key : SUBSET Versions, src : SUBSET (Versions \cup {Admin})]
    /\ pc \in [Procs -> {"off", "fetch", "compare", "key", "keyRename", "src",
                         "srcRename", "sleep"}]
    /\ mem \in [Procs -> [ver : Versions \cup {0}, clean : BOOLEAN]]
    /\ synced \in {"none", "true", "false"} /\ phase \in {"startup", "task"}

\* The key and the sources are installed and of one version.
Installed == key.ver # 0 /\ key.ver \in lines

\* What the health endpoint reports of the repository: in sync and a key.
Healthy == synced = "true" /\ key.ver # 0

\* A host that reports itself healthy has the key that signs the repository in
\* its sources, if nobody else touched the files since its last sync began: also
\* after deaths in the middle of a sync, lost files and changes at the manager.
HealthyMeansInstalled ==
    Healthy /\ vouched /\ pc["svc"] = "sleep" => Installed

\* provision_alpine_repo_config "Append ... (don't overwrite)": the other
\* repositories of an Alpine host stay, whichever processes append at the same
\* time or die, unless the file could not be read once.
AdminLinesKept == IsApk => Admin \in lines \/ "read" \in faults

\* "Repeated calls converge to the manager's current config": once the manager
\* stops changing, the files are and stay current, except on an unknown
\* distribution and after a death or an error left behind a temporary file that
\* write_pem_file cannot replace.  Without gpg the key is in the .asc file.
Current ==
    /\ cur \in lines
    /\ CASE host = "aptNoGpg" -> asc = cur
         [] host = "apkNoKey" -> TRUE
         [] OTHER             -> key.ver = cur
Stuck ==
    \/ host = "other"
    \/ CreatesNew /\ tmp.key # {} /\ {"death", "write"} \cap faults # {}
Converges == <>[](Current \/ Stuck)

=============================================================================
