----------------------------- MODULE Enrollment -----------------------------
(***************************************************************************)
(* Enrollment of the host with a manager and the start of the service      *)
(* (src/enroll, src/config/loader.rs, src/main.rs).  The service enrolls   *)
(* by itself when its certificates are not usable; an administrator may    *)
(* run --enroll or --renew-certs meanwhile.  Both write the same files:    *)
(* the configuration with the polling token, the certificates, the list    *)
(* and the IP allow list.  A process may die between any two steps.        *)
(*                                                                         *)
(* Token t, once approved, stands for bundle t.  Files hold the number of  *)
(* the bundle they came from; 0 is no file.                                *)
(***************************************************************************)
EXTENDS Integers, Sequences, FiniteSets

CONSTANTS
    Tokens,        \* polling tokens, 1 .. n; the bound on registrations
    CaOf,          \* the CA that signed bundle t
    SubjectOf,     \* the subject name of a CA
    HasCrl,        \* bundles that come with a revocation list
    TempOf,        \* the name of each file with the extension tmp
    ManagerIps,    \* addresses the manager's name may resolve to
    MaxAttempts,   \* max_poll_attempts of the configuration
    HardLimit,     \* the limit on it (1440)
    StartBurst,    \* StartLimitBurst of the service's unit (5)
    Budgets        \* how often each event of the environment may happen

ASSUME EnrollAssumption ==
    /\ IsFiniteSet(Tokens) /\ Tokens = 1 .. Cardinality(Tokens)
    /\ HasCrl \subseteq Tokens
    /\ DOMAIN TempOf = {"ca", "cert", "key", "crl"}
    /\ \A f \in DOMAIN TempOf : TempOf[f] # "wl"  \* whitelist.tmp is elsewhere
    /\ MaxAttempts \in Nat /\ HardLimit \in Nat \ {0} /\ StartBurst \in Nat \ {0}

VARIABLES
    pc,         \* per process, where it is
    mem,        \* per process, what it holds
    cfg,        \* config.yaml: whole or cut short, and the token in it
    pem,        \* the certificate files
    temps,      \* temporary files that exist
    wl,         \* whitelist.yaml
    wlLock,     \* who holds its lock
    tokens,     \* the manager's view of each token
    expired,    \* bundles whose certificate has expired
    srv,        \* what the serving process loaded
    faults,     \* history: what went wrong so far
    promised,   \* history: addresses whose append returned Ok
    budget,
    starts      \* systemd: starts of the service in the present interval

vars == <<pc, mem, cfg, pem, temps, wl, wlLock, tokens, expired, srv, faults, promised,
          budget, starts>>

Procs == {"svc", "cli"}
Files == {"ca", "cert", "key", "crl"}
None  == "none"

Blank == [token |-> 0, attempt |-> 0, todo |-> << >>, ip |-> 0, read |-> {}]
NotServing == [ca |-> 0, cert |-> 0, key |-> 0, crl |-> 0, wl |-> {}]

\* poll_for_approval: 0, or more than the limit, means the limit.
EffectiveMax(n) == IF n = 0 \/ n > HardLimit THEN HardLimit ELSE n

-----------------------------------------------------------------------------
(* Checks of the certificates. *)

\* validate_certs; the CA is compared by name only (verify_ca_trust).
CertStatus ==
    IF 0 \in {pem["ca"], pem["cert"], pem["key"]} THEN "Missing"
    ELSE IF pem["cert"] \in expired THEN "Expired"
    ELSE IF pem["cert"] # pem["key"] THEN "KeyMismatch"
    ELSE IF SubjectOf[CaOf[pem["cert"]]] # SubjectOf[CaOf[pem["ca"]]] THEN "Untrusted"
    ELSE "Valid"

\* main, between validation and service: the list must be signed by the CA
\* (load_crl), the key must fit the certificate (build_rustls_config).
CrlFits == IF pem["crl"] = 0 THEN TRUE ELSE CaOf[pem["crl"]] = CaOf[pem["ca"]]

\* As CanServe, but the key is not tried on the certificate.
CanServeAnyKey == pem["ca"] # 0 /\ pem["cert"] # 0 /\ CrlFits

CanServe == pem["ca"] # 0 /\ pem["cert"] # 0 /\ pem["cert"] = pem["key"] /\ CrlFits

-----------------------------------------------------------------------------
Init ==
    /\ budget \in Budgets
    /\ pc = [p \in Procs |-> "idle"] /\ mem = [p \in Procs |-> Blank]
    /\ cfg = [kind |-> "ok", token |-> 0]
    /\ pem = [f \in Files |-> 0] /\ temps = {}
    /\ wl \in {[kind |-> k, entries |-> {}] : k \in {"yaml", "missing"}}
    /\ wlLock = None
    /\ tokens = [t \in Tokens |-> "unused"] /\ expired = {}
    /\ srv = NotServing /\ faults = {} /\ promised = {} /\ starts = 0

Goto(p, label) == pc' = [pc EXCEPT ![p] = label]
Spend(event) == budget[event] > 0 /\ budget' = [budget EXCEPT ![event] = @ - 1]
Other(p) == CHOOSE q \in Procs : q # p

\* What an end of p at its present step leaves behind: a bundle half written
\* ("files"), certificates complete but the manager not yet allowed
\* ("whitelist"), a token nobody has on disk ("token"), a temporary file
\* ("temp"), a configuration cut short ("config").
Harm(p, died) ==
    LET ca == mem[p].todo # << >> /\ Head(mem[p].todo) = "ca"
        writing == pc[p] \in {"open", "rename"}
    IN  (IF writing /\ ~ ca THEN {"files"} ELSE {})
          \cup (IF \/ writing /\ mem[p].todo = <<"crl">>
                   \/ pc[p] \in {"repo", "load", "lock", "read", "wlRename"}
                  THEN {"whitelist"} ELSE {})
          \cup (IF pc[p] = "save" /\ cfg.token # mem[p].token THEN {"token"} ELSE {})
          \cup (IF pc[p] \in {"rename", "wlRename"} THEN {"temp"} ELSE {})
          \cup (IF died /\ pc[p] \in {"saving", "clearing"} THEN {"config", "token"} ELSE {})

\* As Over, but the service ends with exit code 0.
OverExitsCleanly(p, died) ==
    /\ Goto(p, IF p = "svc" /\ ~ died THEN "stopped" ELSE "idle")
    /\ mem' = [mem EXCEPT ![p] = Blank]
    /\ faults' = faults \cup Harm(p, died)
    /\ wlLock' = IF wlLock = p THEN None ELSE wlLock
    /\ srv' = IF p = "svc" THEN NotServing ELSE srv

\* The process is over: an error of run_enrollment (exit code 1 or 2), or death.
\* Restart=on-failure.
Over(p, died) ==
    /\ Goto(p, "idle")
    /\ mem' = [mem EXCEPT ![p] = Blank]
    /\ faults' = faults \cup Harm(p, died)
    /\ wlLock' = IF wlLock = p THEN None ELSE wlLock
    /\ srv' = IF p = "svc" THEN NotServing ELSE srv

\* A start of the service counts against StartLimitBurst, until
\* StartLimitIntervalSec has passed and the count begins anew.
CountStart ==
    \/ starts' = 1
    \/ starts < StartBurst /\ starts' = starts + 1

\* main: load the configuration, then (the service) validate the certificates.
Start(p) ==
    /\ pc[p] = "idle" /\ cfg.kind = "ok"
    /\ mem' = [mem EXCEPT ![p].token = cfg.token]
    /\ \/ p = "svc" /\ Goto(p, IF CertStatus = "Valid" THEN "boot" ELSE "enroll")
          /\ CountStart /\ UNCHANGED budget
       \/ p = "cli" /\ Goto(p, "enroll") /\ Spend("runs") /\ UNCHANGED starts
    /\ faults' = IF pc[Other(p)] \in {"idle", "serve", "failed"}
                   THEN faults ELSE faults \cup {"overlap"}
    /\ UNCHANGED <<cfg, pem, temps, wl, wlLock, tokens, expired, srv, promised>>

\* A configuration that does not parse ends the service at once.
StartFails ==
    /\ pc["svc"] = "idle" /\ cfg.kind = "torn" /\ CountStart
    /\ UNCHANGED <<pc, mem, cfg, pem, temps, wl, wlLock, tokens, expired, srv, faults,
                   promised, budget>>

\* One start too many in the interval: systemd gives the service up.
StartLimitHit ==
    /\ pc["svc"] = "idle" /\ starts = StartBurst
    /\ Goto("svc", "failed")
    /\ UNCHANGED <<mem, cfg, pem, temps, wl, wlLock, tokens, expired, srv, faults,
                   promised, budget, starts>>

-----------------------------------------------------------------------------
(* Phase 1: registration, or a saved token. *)

\* As HasToken, but a saved token is not used.
NeverHasToken(p) == FALSE

HasToken(p) == mem[p].token # 0

Resume(p) ==
    /\ pc[p] = "enroll" /\ HasToken(p)
    /\ Goto(p, "save")
    /\ UNCHANGED <<mem, cfg, pem, temps, wl, wlLock, tokens, expired, srv, faults,
                   promised, budget, starts>>

\* The manager knows the host: by an open request, or by one it approved.
Known == \E t \in Tokens : tokens[t] \in {"pending", "approved", "purged"}

\* Tokens the manager answers not_found: it dropped the request before a
\* decision, or the record of a decision.
NotFound == {"expired", "purged"}

FirstUnused(t) == tokens[t] = "unused" /\ \A u \in 1 .. (t - 1) : tokens[u] # "unused"

\* The manager takes a registration, of a host it does not know or again.
TakesRequest(t, events) ==
    LET spent == events \cup (IF Known THEN {"again"} ELSE {})
    IN  /\ FirstUnused(t)
        /\ tokens' = [tokens EXCEPT ![t] = "pending"]
        /\ \A e \in spent : budget[e] > 0
        /\ budget' = [e \in DOMAIN budget |-> IF e \in spent THEN budget[e] - 1 ELSE budget[e]]

\* 202.
Register(p) ==
    /\ pc[p] = "enroll" /\ ~ HasToken(p)
    /\ \E t \in Tokens : TakesRequest(t, {}) /\ mem' = [mem EXCEPT ![p].token = t]
    /\ Goto(p, "save")
    /\ UNCHANGED <<cfg, pem, temps, wl, wlLock, expired, srv, faults, promised, starts>>

\* 409, "Host already exists": an error, whatever the host has on disk.
Conflict(p) ==
    /\ pc[p] = "enroll" /\ ~ HasToken(p) /\ Known
    /\ Goto(p, "idle") /\ mem' = [mem EXCEPT ![p] = Blank]
    /\ faults' = faults \cup {"conflict"}
    /\ UNCHANGED <<cfg, pem, temps, wl, wlLock, tokens, expired, srv, promised,
                   budget, starts>>

\* No connection, rate limit, server error, no identity to send.
RegisterFails(p) ==
    /\ pc[p] = "enroll" /\ ~ HasToken(p)
    /\ Over(p, FALSE)
    /\ UNCHANGED <<cfg, pem, temps, wl, tokens, expired, promised, budget, starts>>

\* The manager took the registration, but its answer is lost.
AnswerLost(p) ==
    /\ pc[p] = "enroll" /\ ~ HasToken(p)
    /\ \E t \in Tokens : TakesRequest(t, {"errors"})
    /\ Goto(p, "idle") /\ mem' = [mem EXCEPT ![p] = Blank]
    /\ faults' = faults \cup {"token"}
    /\ UNCHANGED <<cfg, pem, temps, wl, wlLock, expired, srv, promised, starts>>

-----------------------------------------------------------------------------
(* save_polling_token and clear_polling_token: the file is truncated, then  *)
(* written; an error is only logged.                                        *)

Truncate(p) ==
    /\ pc[p] \in {"save", "clear"}
    /\ cfg' = [kind |-> "torn", token |-> 0]
    /\ Goto(p, IF pc[p] = "save" THEN "saving" ELSE "clearing")
    /\ UNCHANGED <<mem, pem, temps, wl, wlLock, tokens, expired, srv, faults,
                   promised, budget, starts>>

WriteConfig(p) ==
    /\ pc[p] \in {"saving", "clearing"}
    /\ cfg' = [kind |-> "ok", token |-> IF pc[p] = "saving" THEN mem[p].token ELSE 0]
    /\ Goto(p, IF pc[p] = "saving" THEN "poll" ELSE "done")
    /\ UNCHANGED <<mem, pem, temps, wl, wlLock, tokens, expired, srv, faults,
                   promised, budget, starts>>

ConfigFails(p) ==
    /\ pc[p] \in {"save", "clear"} /\ Spend("errors")
    /\ Goto(p, IF pc[p] = "save" THEN "poll" ELSE "done")
    /\ faults' = IF pc[p] = "save" /\ cfg.token # mem[p].token
                   THEN faults \cup {"token"} ELSE faults
    /\ UNCHANGED <<mem, cfg, pem, temps, wl, wlLock, tokens, expired, srv, promised,
                   starts>>

-----------------------------------------------------------------------------
(* Phase 2: poll_for_approval. *)

FilesOf(t) == IF t \in HasCrl THEN <<"ca", "cert", "key", "crl">> ELSE <<"ca", "cert", "key">>

\* Pending, or any error of the request (also 404): sleep and ask again.
AskAgain(p) ==
    /\ pc[p] = "poll" /\ mem[p].attempt < EffectiveMax(MaxAttempts)
    /\ mem' = [mem EXCEPT ![p].attempt = @ + 1]
    /\ UNCHANGED <<pc, cfg, pem, temps, wl, wlLock, tokens, expired, srv, faults,
                   promised, budget, starts>>

Approved(p) ==
    /\ pc[p] = "poll" /\ mem[p].attempt < EffectiveMax(MaxAttempts)
    /\ tokens[mem[p].token] = "approved"
    /\ mem' = [mem EXCEPT ![p].todo = FilesOf(mem[p].token)]
    /\ Goto(p, "open")
    /\ UNCHANGED <<cfg, pem, temps, wl, wlLock, tokens, expired, srv, faults,
                   promised, budget, starts>>

\* Denied, not found, attempts used up, or a signal: the token stays saved.  The
\* service is Type=notify and is not ready before it is enrolled, so systemd ends
\* each start that polls longer than TimeoutStartSec.
PollEnds(p) ==
    /\ pc[p] = "poll"
    /\ \/ tokens[mem[p].token] \in {"denied"} \cup NotFound /\ UNCHANGED budget
       \/ mem[p].attempt >= EffectiveMax(MaxAttempts) /\ UNCHANGED budget
       \/ p = "svc" /\ UNCHANGED budget
       \/ p = "cli" /\ Spend("signals")
    /\ Over(p, FALSE)
    /\ UNCHANGED <<cfg, pem, temps, wl, tokens, expired, promised, starts>>

-----------------------------------------------------------------------------
(* Phase 3: provision_pki_bundle, one write_pem_file after the other.       *)

Clash(p, kind) ==
    /\ Goto(p, "idle") /\ mem' = [mem EXCEPT ![p] = Blank]
    /\ faults' = faults \cup Harm(p, FALSE) \cup {kind}
    /\ wlLock' = IF wlLock = p THEN None ELSE wlLock
    /\ srv' = IF p = "svc" THEN NotServing ELSE srv
    /\ UNCHANGED temps

\* create_new: a temporary file of that name, whoever left it, is an error.
OpenTemp(p) ==
    /\ pc[p] = "open"
    /\ LET t == TempOf[Head(mem[p].todo)]
       IN  \/ t \notin temps /\ temps' = temps \cup {t} /\ Goto(p, "rename")
              /\ UNCHANGED <<mem, faults, wlLock, srv>>
           \/ t \in temps /\ Clash(p, "clash")
    /\ UNCHANGED <<cfg, pem, wl, tokens, expired, promised, budget, starts>>

RenameTemp(p) ==
    /\ pc[p] = "rename"
    /\ LET f == Head(mem[p].todo)
       IN  /\ pem' = [pem EXCEPT ![f] = mem[p].token]
           /\ temps' = temps \ {TempOf[f]}
    /\ mem' = [mem EXCEPT ![p].todo = Tail(@)]
    /\ Goto(p, IF Len(mem[p].todo) = 1 THEN "repo" ELSE "open")
    /\ UNCHANGED <<cfg, wl, wlLock, tokens, expired, srv, faults, promised, budget,
                   starts>>

WriteFails(p) ==
    /\ pc[p] \in {"rename", "wlRename"} /\ Spend("errors")
    /\ Over(p, FALSE)
    /\ UNCHANGED <<cfg, pem, temps, wl, tokens, expired, promised, starts>>

\* The repository (an error counts only if the bundle brought it), then the
\* manager's address.
Repository(p) ==
    /\ pc[p] = "repo"
    /\ \E i \in ManagerIps : mem' = [mem EXCEPT ![p].ip = i]
    /\ Goto(p, "load")
    /\ UNCHANGED <<cfg, pem, temps, wl, wlLock, tokens, expired, srv, faults,
                   promised, budget, starts>>

RepositoryFails(p) ==
    /\ pc[p] = "repo" /\ Spend("errors")
    /\ Over(p, FALSE)
    /\ UNCHANGED <<cfg, pem, temps, wl, tokens, expired, promised, starts>>

-----------------------------------------------------------------------------
(* append_manager_to_whitelist and WhitelistManager::append_entry.           *)

\* As LoadList, but an error of it is only logged.
LoadListWarns(p) ==
    /\ pc[p] = "load"
    /\ \/ /\ wl.kind = "missing" \/ mem[p].ip \in wl.entries
          /\ Goto(p, "clear") /\ UNCHANGED mem
          /\ promised' = promised \cup ({mem[p].ip} \cap wl.entries)
       \/ /\ wl.kind = "yaml" /\ mem[p].ip \notin wl.entries
          /\ Goto(p, "lock") /\ UNCHANGED promised
          /\ mem' = [mem EXCEPT ![p].read = wl.entries]
    /\ UNCHANGED <<cfg, pem, temps, wl, wlLock, tokens, expired, srv, faults, budget,
                   starts>>

\* WhitelistManager::new fails without a file; a known entry is left alone.
LoadList(p) ==
    /\ pc[p] = "load"
    /\ \/ /\ wl.kind = "missing" /\ Over(p, FALSE) /\ UNCHANGED promised
       \/ /\ wl.kind = "yaml" /\ mem[p].ip \in wl.entries
          /\ Goto(p, "clear") /\ promised' = promised \cup {mem[p].ip}
          /\ UNCHANGED <<mem, faults, wlLock, srv>>
       \/ /\ wl.kind = "yaml" /\ mem[p].ip \notin wl.entries
          /\ Goto(p, "lock")
          /\ mem' = [mem EXCEPT ![p].read = wl.entries]
          /\ UNCHANGED <<promised, faults, wlLock, srv>>
    /\ UNCHANGED <<cfg, pem, temps, wl, tokens, expired, budget, starts>>

LockList(p) ==
    /\ pc[p] = "lock" /\ wlLock = None
    /\ wlLock' = p
    /\ Goto(p, "read")
    /\ UNCHANGED <<mem, cfg, pem, temps, wl, tokens, expired, srv, faults, promised,
                   budget, starts>>

\* As ReadList, but with the entries read before the lock was held.
ReadBeforeLock(p) ==
    /\ pc[p] = "read"
    /\ \/ "wl" \in temps /\ Clash(p, "listClash")
       \/ "wl" \notin temps /\ temps' = temps \cup {"wl"}
          /\ Goto(p, "wlRename") /\ UNCHANGED <<mem, faults, wlLock, srv>>
    /\ UNCHANGED <<cfg, pem, wl, tokens, expired, promised, budget, starts>>

\* Under the lock the file is read again and a temporary file is created.
ReadList(p) ==
    /\ pc[p] = "read"
    /\ \/ "wl" \in temps /\ Clash(p, "listClash")
       \/ "wl" \notin temps /\ temps' = temps \cup {"wl"}
          /\ mem' = [mem EXCEPT ![p].read = wl.entries]
          /\ Goto(p, "wlRename") /\ UNCHANGED <<faults, wlLock, srv>>
    /\ UNCHANGED <<cfg, pem, wl, tokens, expired, promised, budget, starts>>

RenameList(p) ==
    /\ pc[p] = "wlRename"
    /\ wl' = [wl EXCEPT !.entries = mem[p].read \cup {mem[p].ip}]
    /\ temps' = temps \ {"wl"} /\ wlLock' = None
    /\ promised' = promised \cup {mem[p].ip}
    /\ Goto(p, "clear")
    /\ UNCHANGED <<mem, cfg, pem, tokens, expired, srv, faults, budget, starts>>

-----------------------------------------------------------------------------
(* The service starts to serve. *)

\* The administrator's run ends; the service loads its configuration again.
Done(p) ==
    /\ pc[p] = "done"
    /\ Goto(p, IF p = "svc" /\ cfg.kind = "ok" THEN "boot" ELSE "idle")
    /\ mem' = [mem EXCEPT ![p] = Blank]
    /\ UNCHANGED <<cfg, pem, temps, wl, wlLock, tokens, expired, srv, faults,
                   promised, budget, starts>>

Serve ==
    /\ pc["svc"] = "boot" /\ CanServe
    /\ srv' = [ca |-> pem["ca"], cert |-> pem["cert"], key |-> pem["key"],
               crl |-> pem["crl"], wl |-> IF wl.kind = "yaml" THEN wl.entries ELSE {}]
    /\ Goto("svc", "serve")
    /\ UNCHANGED <<mem, cfg, pem, temps, wl, wlLock, tokens, expired, faults,
                   promised, budget, starts>>

ServeRefused ==
    /\ pc["svc"] = "boot" /\ ~ CanServe
    /\ Over("svc", FALSE)
    /\ UNCHANGED <<cfg, pem, temps, wl, tokens, expired, promised, budget, starts>>

-----------------------------------------------------------------------------
(* The environment. *)

Decide(t, d) ==
    /\ tokens[t] = "pending"
    /\ tokens' = [tokens EXCEPT ![t] = d]
    /\ \/ d = "approved" /\ UNCHANGED budget
       \/ d = "denied" /\ Spend("denials")
    /\ UNCHANGED <<pc, mem, cfg, pem, temps, wl, wlLock, expired, srv, faults,
                   promised, starts>>

\* The manager forgets a request nobody decided, or a decided one.
Purge(t) ==
    /\ tokens[t] \in {"pending", "approved"} /\ Spend("purges")
    /\ tokens' = [tokens EXCEPT ![t] = IF @ = "pending" THEN "expired" ELSE "purged"]
    /\ UNCHANGED <<pc, mem, cfg, pem, temps, wl, wlLock, expired, srv, faults,
                   promised, starts>>

CertExpires ==
    /\ pem["cert"] # 0 /\ pem["cert"] \notin expired /\ Spend("expiries")
    /\ expired' = expired \cup {pem["cert"]}
    /\ UNCHANGED <<pc, mem, cfg, pem, temps, wl, wlLock, tokens, srv, faults,
                   promised, starts>>

Dies(p) ==
    /\ pc[p] \notin {"idle", "failed"} /\ Spend("deaths")
    /\ Over(p, TRUE)
    /\ UNCHANGED <<cfg, pem, temps, wl, tokens, expired, promised, starts>>

Steps(p) ==
    \/ Start(p) \/ Resume(p) \/ Register(p) \/ Conflict(p)
    \/ Truncate(p) \/ WriteConfig(p) \/ Approved(p) \/ PollEnds(p)
    \/ OpenTemp(p) \/ RenameTemp(p) \/ Repository(p)
    \/ LoadList(p) \/ LockList(p) \/ ReadList(p) \/ RenameList(p) \/ Done(p)

Next ==
    \/ \E p \in Procs :
          \/ Steps(p) \/ RegisterFails(p) \/ AnswerLost(p) \/ ConfigFails(p) \/ AskAgain(p)
          \/ WriteFails(p) \/ RepositoryFails(p) \/ Dies(p)
    \/ StartFails \/ StartLimitHit \/ Serve \/ ServeRefused
    \/ \E t \in Tokens : Purge(t) \/ \E d \in {"approved", "denied"} : Decide(t, d)
    \/ CertExpires

\* Processes go on; the service is started again whenever it has ended and
\* systemd has not given it up; the manager decides, does not fail every request
\* for ever, and takes a host it does not know.
Fairness ==
    /\ \A p \in Procs :
          /\ WF_vars(Steps(p)) /\ WF_vars(AskAgain(p) \/ Approved(p) \/ PollEnds(p))
          /\ SF_vars(~ Known /\ Register(p)) /\ SF_vars(Approved(p))
    /\ WF_vars(Serve \/ ServeRefused)
    /\ WF_vars(\E t \in Tokens, d \in {"approved", "denied"} : Decide(t, d))

Spec == Init /\ [][Next]_vars /\ Fairness

-----------------------------------------------------------------------------
(* Properties. *)

Labels == {"idle", "enroll", "save", "saving", "poll", "open", "rename", "repo", "load",
           "lock", "read", "wlRename", "clear", "clearing", "done", "boot", "serve", "failed"}

\* Shapes of the state; also: no process polls more often than the hard limit,
\* whatever the configuration says.
TypeOK ==
    /\ pc \in [Procs -> Labels]
    /\ \A p \in Procs :
          /\ mem[p].token \in Tokens \cup {0} /\ mem[p].attempt \in 0 .. HardLimit
          /\ mem[p].ip \in ManagerIps \cup {0} /\ mem[p].read \subseteq ManagerIps
          /\ pc[p] \in {"open", "rename"} => mem[p].todo # << >>
    /\ cfg \in [kind : {"ok", "torn"}, token : Tokens \cup {0}]
    /\ pem \in [Files -> Tokens \cup {0}]
    /\ temps \subseteq {TempOf[f] : f \in Files} \cup {"wl"}
    /\ wl \in [kind : {"yaml", "missing"}, entries : SUBSET ManagerIps]
    /\ wlLock \in Procs \cup {None}
    /\ tokens \in [Tokens -> {"unused", "pending", "approved", "denied"} \cup NotFound]
    /\ starts \in 0 .. StartBurst

\* Whichever process wrote which file last and wherever one died, the service
\* serves with a key that fits its certificate; with a certificate of the CA it
\* trusts, unless a bundle was cut short or two enrollments overlapped.
ServesWhole ==
    pc["svc"] = "serve" =>
        /\ srv.cert = srv.key
        /\ CaOf[srv.ca] = CaOf[srv.cert] \/ {"files", "overlap"} \cap faults # {}

\* A service that runs lets its manager in, unless some enrollment ended after
\* its certificates were complete and before the allow list was written: the
\* next start finds valid certificates and does not enroll again.
ManagerCanReach ==
    pc["svc"] = "serve" => srv.wl # {} \/ {"whitelist", "overlap"} \cap faults # {}

\* No append is lost, whichever two processes append at the same time (the lock
\* and the second read of append_entry), and an append finds a foreign temporary
\* file only after a process ended in the middle of a write.
AppendsAreKept ==
    /\ promised \subseteq wl.entries
    /\ "listClash" \in faults => "temp" \in faults

List == INSTANCE AllowList WITH
    Ips       <- ManagerIps,
    entries   <- wl.entries,
    confirmed <- promised

\* The lock, the second read, the temporary file and its rename make an append
\* that happens at once: whatever two processes do and wherever one dies, the
\* file changes only by one address more, and is never seen half written.
AppendIsAtomic == List!Spec

\* An enrollment without a token meets 409 only if an answer or a token was lost
\* before it was saved, another enrollment ran beside it, or an earlier one got
\* as far as the allow list and the manager does not take the host again: a
\* restart while the approval is pending, denied or forgotten resumes.
ConflictNeedsLoss ==
    "conflict" \in faults => {"token", "overlap"} \cap faults # {} \/ promised # {}

\* States no restart of the service leaves: the configuration cut short, a
\* temporary file left behind, a saved token that is denied or not found, no
\* token for a host the manager knows and may refuse, no allow-list file, a list
\* of another CA than the one on disk.
DeadEnd ==
    \/ cfg.kind = "torn" \/ temps # {} \/ wl.kind = "missing"
    \/ cfg.token # 0 /\ tokens[cfg.token] \in {"denied"} \cup NotFound
    \/ cfg.token = 0 /\ mem["svc"].token = 0 /\ CertStatus # "Valid" /\ Known
    \/ CertStatus = "Valid" /\ ~ CrlFits

\* "Auto-enrollment failed - will retry on next restart" (main.rs): with a manager
\* that answers and decides in the end, the service comes up, unless it is in a
\* dead end or failed StartLimitBurst times in one interval.
ComesUp == <>[](pc["svc"] \in {"serve", "failed"} \/ DeadEnd)

=============================================================================
