------------------------------ MODULE CrlStore ------------------------------
(***************************************************************************)
(* The certificate revocation list: the file the agent keeps, the copy in  *)
(* memory that every TLS handshake reads, the task that fetches a new list *)
(* from the manager and the task that re-reads the file every hour         *)
(* (src/auth/crl.rs, src/auth/mtls.rs, the start in src/main.rs).          *)
(*                                                                         *)
(* Both tasks run on the one thread of the main runtime, so only an await  *)
(* lets one of them act between two steps of the other; the handshakes     *)
(* run on the workers' threads and read the copy at any moment, and the    *)
(* process may die between any two steps.  Time is relative: a list holds  *)
(* the time LEFT until its nextUpdate (-1: passed), a sleeping task the    *)
(* time left until it wakes.                                               *)
(***************************************************************************)
EXTENDS Integers, Sequences, FiniteSetsExt

CONSTANTS
    Clients,         \* the client certificates
    CAs,             \* certificate authorities, in the order of renewals: 1, 2, ...
    Validity,        \* how long a signed list is valid            (24 h)
    Interval,        \* the sleep between two fetches              (12 h)
    HealthInterval,  \* the sleep between two looks at the file    (1 h)
    Backoff,         \* the extra sleep after the n-th failure in a row
    Budgets          \* scenarios: the manager (not configured, or configured and
                     \* how it may misbehave), and how often each event of the
                     \* environment may happen

ASSUME CrlAssumption ==
    /\ 1 \in CAs /\ CAs \subseteq Nat \ {0}
    /\ {Validity, Interval, HealthInterval} \subseteq Nat \ {0}
    /\ Backoff \in Seq(Nat) /\ Backoff # << >>
    /\ \A b \in Budgets : b.manager \subseteq {"url", "cached", "slow"}

VARIABLES
    phase,     \* "down", "starting" (main awaits a first fetch) or "up"
    ca,        \* the CA certificate the process read when it started
    caDisk,    \* the CA certificate on disk
    disk,      \* the list on disk
    tmp,       \* the temporary file next to it
    mem,       \* SharedCrlState
    rpc,       \* where refresh_crl and the task around it are
    initial,   \* is the fetch that of spawn_crl_refresh_task before its loop?
    rleft,     \* time left until the refresh task wakes
    retryIdx,  \* failures in a row, as the task counts them
    hleft,     \* time left until the health task wakes
    incoming,  \* the verified list that refresh_crl is writing
    issued,    \* the list the manager signed last
    revoked,   \* the certificates the manager has revoked
    known,     \* history: revoked by a list this host has taken into use
    fetched,   \* history: the list in memory was fetched by this process
    harmed,    \* history: the file was deleted or made unreadable from outside
    renewed,   \* history: another process renewed the certificates
    refused,   \* history: a start was refused because of the list
    budget

fileVars  == <<caDisk, disk, tmp>>
timers    == <<initial, rleft, retryIdx, hleft>>
taskVars  == <<rpc, timers, incoming>>
worldVars == <<issued, revoked, budget>>
histVars  == <<known, fetched, harmed, renewed, refused>>
crlVars   == <<phase, ca, fileVars, mem, taskVars, worldVars, histVars>>

-----------------------------------------------------------------------------
(* Files and lists. *)

File(kind, c, s, l) == [kind |-> kind, ca |-> c, revoked |-> s, left |-> l]
Missing    == File("missing", 1, {}, -1)
Unreadable == File("unreadable", 1, {}, -1)
Torn       == File("torn", 1, {}, -1)          \* created, not yet written
Signed(c, s, l) == File("list", c, s, l)

\* "cached": a list signed earlier may be sent; "slow": time may pass before an
\* answer, for refresh_crl sets no timeout.
HasManager  == "url" \in budget.manager
SendsCached == "cached" \in budget.manager
IsSlow      == "slow" \in budget.manager

State(status, s, l) == [status |-> status, revoked |-> s, left |-> l]
Default == State("Missing", {}, -1)

\* As LoadCrlFromBytes, but an expired list revokes nobody.
LoadCrlDropsExpired(f, c) ==
    IF f.kind # "list" \/ f.ca # c
      THEN State("Invalid", {}, -1)
      ELSE IF f.left < 0 THEN State("Expired", {}, -1) ELSE State("Valid", f.revoked, f.left)

\* load_crl_from_bytes: a list that does not parse or that another CA signed
\* revokes nobody and is Invalid.
LoadCrlFromBytes(f, c) ==
    IF f.kind # "list" \/ f.ca # c
      THEN State("Invalid", {}, -1)
      ELSE State(IF f.left < 0 THEN "Expired" ELSE "Valid", f.revoked, f.left)

LoadCrl(f, c) ==
    CASE f.kind = "missing"    -> Default
      [] f.kind = "unreadable" -> State("Degraded", {}, -1)
      [] OTHER                 -> LoadCrlFromBytes(f, c)

\* reevaluate_expiry: what the health endpoint reports.
ReevaluateExpiry(m) ==
    IF m.status = "Valid" /\ m.left < 0 THEN "Expired" ELSE m.status

\* CrlAwareVerifier::verify_client_cert, for a chain that the CA signed.
Accepts(m, c) ==
    \/ m.status \in {"Valid", "Expired"} /\ c \notin m.revoked
    \/ m.status \in {"Missing", "Degraded"}

\* Steps of refresh_crl between its last await and its return: nothing else
\* of the main thread runs between them.
Synchronous == {"create", "write", "rename", "store"}

-----------------------------------------------------------------------------
CrlInit ==
    /\ budget \in Budgets
    /\ phase = "down" /\ ca = 1 /\ caDisk = 1
    /\ disk \in {Missing} \cup {Signed(1, {}, l) : l \in {-1, Validity}}
    /\ tmp = Missing /\ mem = Default
    /\ rpc = "off" /\ initial = FALSE /\ rleft = 0 /\ retryIdx = 0 /\ hleft = 0 /\ incoming = Missing
    /\ issued = IF HasManager THEN Signed(1, {}, Validity) ELSE Missing
    /\ revoked = {}
    /\ known = {} /\ fetched = FALSE /\ harmed = FALSE /\ renewed = FALSE
    /\ refused = FALSE

\* A copy of the list comes into use: at start, after a fetch, by the health task.
Use(st) == mem' = st /\ known' = known \cup st.revoked

\* main: spawn_crl_refresh_task (which fetches at once) and spawn_crl_health_task.
Spawn ==
    /\ phase' = "up"
    /\ rpc' = IF HasManager THEN "fetch" ELSE "off"
    /\ initial' = TRUE /\ rleft' = 0 /\ retryIdx' = 0
    /\ hleft' = HealthInterval

\* main: a list with a bad signature stops the start; a Valid one is enough to
\* go on; an Expired or Missing one is fetched first; a Degraded one is left
\* out of the shared state, which stays Missing.
Start ==
    /\ phase = "down"
    /\ ca' = caDisk
    /\ LET st == LoadCrl(disk, caDisk)
       IN  \/ /\ st.status = "Invalid"
              /\ refused' = TRUE
              /\ UNCHANGED <<phase, mem, rpc, timers, known, fetched>>
           \/ /\ st.status = "Valid"
              /\ Use(st) /\ Spawn /\ fetched' = FALSE
              /\ UNCHANGED refused
           \/ /\ st.status = "Degraded"
              /\ Use(Default) /\ Spawn /\ fetched' = FALSE
              /\ UNCHANGED refused
           \/ /\ st.status \in {"Expired", "Missing"}
              /\ Use(st) /\ fetched' = FALSE
              /\ IF HasManager
                   THEN phase' = "starting" /\ rpc' = "fetch" /\ UNCHANGED timers
                   ELSE Spawn
              /\ UNCHANGED refused
    /\ UNCHANGED <<fileVars, incoming, worldVars, harmed, renewed>>

-----------------------------------------------------------------------------
(* refresh_crl *)

\* The manager answers with a list that verifies: a fresh one, or the one it
\* signed last, which may be past its nextUpdate.
Answers(l) ==
    /\ rpc = "fetch"
    /\ LoadCrlFromBytes(l, ca).status # "Invalid"
    /\ issued' = l
    /\ incoming' = l
    /\ rpc' = "create"
    /\ UNCHANGED <<phase, ca, fileVars, mem, timers, revoked, budget, histVars>>

FetchFresh  == Answers(Signed(caDisk, revoked, Validity))
FetchCached == SendsCached /\ Answers(issued)

\* After refresh_crl returned Ok or Err: main goes on to spawn the tasks; the
\* task sleeps, and after a failure (but that of its first fetch) first the
\* backoff of the failures so far and then the whole interval again.
Sleep(extra) ==
    /\ rpc' = "sleep" /\ initial' = FALSE
    /\ rleft' = Interval + extra
    /\ UNCHANGED <<phase, hleft>>

RefreshOk ==
    \/ phase = "starting" /\ Spawn
    \/ phase = "up" /\ Sleep(0) /\ retryIdx' = 0

Delay == Backoff[IF retryIdx < Len(Backoff) THEN retryIdx + 1 ELSE Len(Backoff)]

\* As RefreshErr, but the task ends once the schedule is used up.
RefreshErrGivesUp ==
    \/ phase = "up" /\ ~ initial /\ retryIdx = Len(Backoff)
       /\ rpc' = "off" /\ UNCHANGED <<phase, timers>>
    \/ phase = "starting" /\ Spawn
    \/ phase = "up" /\ initial /\ Sleep(0) /\ UNCHANGED retryIdx
    \/ /\ phase = "up" /\ ~ initial /\ retryIdx < Len(Backoff) /\ Sleep(Delay)
       /\ retryIdx' = retryIdx + 1

RefreshErr ==
    \/ phase = "starting" /\ Spawn
    \/ phase = "up" /\ initial /\ Sleep(0) /\ UNCHANGED retryIdx
    \/ /\ phase = "up" /\ ~ initial /\ Sleep(Delay)
       /\ retryIdx' = IF retryIdx < Len(Backoff) THEN retryIdx + 1 ELSE retryIdx

\* No connection, no success status, no body, or a list that does not verify:
\* nothing is written.
FetchFails ==
    /\ rpc = "fetch"
    /\ RefreshErr
    /\ UNCHANGED <<ca, fileVars, mem, incoming, worldVars, histVars>>

\* A temporary file left over is removed, then created anew and written.
CreateTmp ==
    /\ rpc = "create"
    /\ tmp' = Torn
    /\ rpc' = "write"
    /\ UNCHANGED <<phase, ca, caDisk, disk, mem, timers, incoming, worldVars, histVars>>

\* As WriteTmp, but the list itself is truncated before it is replaced.
WriteTruncates ==
    /\ rpc = "write"
    /\ tmp' = incoming /\ disk' = Torn
    /\ rpc' = "rename"
    /\ UNCHANGED <<phase, ca, caDisk, mem, timers, incoming, worldVars, histVars>>

WriteTmp ==
    /\ rpc = "write"
    /\ tmp' = incoming
    /\ rpc' = "rename"
    /\ UNCHANGED <<phase, ca, caDisk, disk, mem, timers, incoming, worldVars, histVars>>

RenameTmp ==
    /\ rpc = "rename"
    /\ disk' = tmp /\ tmp' = Missing
    /\ rpc' = "store"
    /\ UNCHANGED <<phase, ca, caDisk, mem, timers, incoming, worldVars, histVars>>

StoreList ==
    /\ rpc = "store"
    /\ Use(LoadCrlFromBytes(incoming, ca))
    /\ fetched' = TRUE
    /\ incoming' = Missing
    /\ RefreshOk
    /\ UNCHANGED <<ca, fileVars, worldVars, harmed, renewed, refused>>

\* A file operation fails: the error is returned and a temporary file stays.
IoFails ==
    /\ rpc \in {"create", "write", "rename"} /\ budget.ioErrors > 0
    /\ budget' = [budget EXCEPT !.ioErrors = @ - 1]
    /\ incoming' = Missing
    /\ RefreshErr
    /\ UNCHANGED <<ca, fileVars, mem, issued, revoked, histVars>>

-----------------------------------------------------------------------------
(* The tasks and time. *)

Wake ==
    /\ rpc = "sleep" /\ rleft = 0
    /\ rpc' = "fetch"
    /\ UNCHANGED <<phase, ca, fileVars, mem, timers, incoming, worldVars, histVars>>

\* spawn_crl_health_task: the file replaces the copy in memory only if its
\* status differs.
Reevaluate(st) == st.status # mem.status

HealthCheck ==
    /\ phase = "up" /\ hleft = 0 /\ rpc \notin Synchronous
    /\ hleft' = HealthInterval
    /\ LET st == LoadCrl(disk, ca)
       IN  IF Reevaluate(st)
             THEN Use(st) /\ fetched' = FALSE
             ELSE UNCHANGED <<mem, known, fetched>>
    /\ UNCHANGED <<phase, ca, fileVars, rpc, initial, rleft, retryIdx, incoming, worldVars, harmed, renewed, refused>>

Older(l, d) == [l EXCEPT !.left = IF @ < d THEN -1 ELSE @ - d]

\* Time passes up to the next wake-up or nextUpdate; a task that is due runs
\* first, a slow answer does not keep time from passing.
Deadlines ==
    {l.left + 1 : l \in {m \in {disk, mem, issued} : m.left >= 0}}
      \cup (IF rpc = "sleep" THEN {rleft} ELSE {})
      \cup (IF phase = "up" THEN {hleft} ELSE {})

Tick ==
    /\ rpc \notin Synchronous /\ (rpc = "fetch" => IsSlow)
    /\ Deadlines # {}
    /\ LET d == Min(Deadlines)
       IN  /\ d > 0
           /\ disk' = Older(disk, d) /\ tmp' = Older(tmp, d)
           /\ mem' = Older(mem, d) /\ issued' = Older(issued, d)
           /\ rleft' = IF rpc = "sleep" THEN rleft - d ELSE rleft
           /\ hleft' = IF phase = "up" THEN hleft - d ELSE hleft
    /\ UNCHANGED <<phase, ca, caDisk, rpc, initial, retryIdx, incoming, revoked, budget, histVars>>

-----------------------------------------------------------------------------
(* The environment. *)

Revoke(c) ==
    /\ c \notin revoked /\ budget.revokes > 0
    /\ revoked' = revoked \cup {c}
    /\ budget' = [budget EXCEPT !.revokes = @ - 1]
    /\ UNCHANGED <<phase, ca, fileVars, mem, taskVars, issued, histVars>>

\* Someone deletes the list or makes it unreadable.
Damage(f) ==
    /\ budget.damages > 0
    /\ disk' = f
    /\ harmed' = TRUE
    /\ budget' = [budget EXCEPT !.damages = @ - 1]
    /\ UNCHANGED <<phase, ca, caDisk, tmp, mem, taskVars, issued, revoked, known, fetched, renewed, refused>>

\* --renew-certs in another process: a new CA and, with it, a list it signed.
Renew ==
    /\ budget.renews > 0 /\ caDisk + 1 \in CAs
    /\ caDisk' = caDisk + 1
    /\ issued' = Signed(caDisk + 1, revoked, Validity)
    /\ disk' = issued'
    /\ renewed' = TRUE
    /\ budget' = [budget EXCEPT !.renews = @ - 1]
    /\ UNCHANGED <<phase, ca, tmp, mem, taskVars, revoked, known, fetched, harmed, refused>>

\* The process dies; what it had in memory is gone.
Dies ==
    /\ phase # "down" /\ budget.deaths > 0
    /\ phase' = "down"
    /\ mem' = Default
    /\ rpc' = "off" /\ initial' = FALSE /\ rleft' = 0 /\ retryIdx' = 0 /\ hleft' = 0 /\ incoming' = Missing
    /\ fetched' = FALSE
    /\ budget' = [budget EXCEPT !.deaths = @ - 1]
    /\ UNCHANGED <<ca, fileVars, issued, revoked, known, harmed, renewed, refused>>

RefreshStep == CreateTmp \/ WriteTmp \/ RenameTmp \/ StoreList

CrlNext ==
    \/ Start \/ FetchFresh \/ FetchCached \/ FetchFails \/ RefreshStep \/ IoFails
    \/ Wake \/ HealthCheck \/ Tick
    \/ \E c \in Clients : Revoke(c)
    \/ \E f \in {Missing, Unreadable} : Damage(f)
    \/ Renew \/ Dies

\* The list as part of any system whose other steps leave it alone: those of
\* AccessGate only spend their budgets.
listVars == <<phase, ca, fileVars, mem, taskVars, issued, revoked, histVars>>
CrlSpec  == CrlInit /\ [][CrlNext]_listVars

\* The runtime runs what is due and systemd starts the agent; time passes; the
\* manager does not fail every fetch for ever.
CrlFairness ==
    /\ WF_crlVars(Start) /\ WF_crlVars(RefreshStep) /\ WF_crlVars(Wake)
    /\ WF_crlVars(HealthCheck) /\ WF_crlVars(Tick)
    /\ WF_crlVars(FetchFresh \/ FetchCached \/ FetchFails) /\ SF_crlVars(FetchFresh)

-----------------------------------------------------------------------------
(* Properties. *)

Lists == [kind : {"list", "missing", "unreadable", "torn"}, ca : CAs,
          revoked : SUBSET Clients, left : -1 .. Validity]

\* Shapes of the state; also: the task never sleeps longer than the interval
\* and the largest backoff, and the process never verifies with a CA newer
\* than the one on disk.
CrlTypeOK ==
    /\ phase \in {"down", "starting", "up"}
    /\ ca \in CAs /\ caDisk \in CAs /\ ca <= caDisk
    /\ {disk, tmp, incoming, issued} \subseteq Lists
    /\ mem \in [status : {"Valid", "Expired", "Missing", "Degraded", "Invalid"},
                revoked : SUBSET Clients, left : -1 .. Validity]
    /\ rpc \in {"off", "fetch", "sleep"} \cup Synchronous /\ initial \in BOOLEAN
    /\ rleft \in 0 .. (Interval + Max({Backoff[i] : i \in 1 .. Len(Backoff)}))
    /\ retryIdx \in 0 .. Len(Backoff) /\ hleft \in 0 .. HealthInterval
    /\ revoked \subseteq Clients /\ known \subseteq Clients

\* Whatever the manager answers, whichever file operation fails and wherever the
\* process dies, the list on disk is never cut short: only a renewal of the CA
\* by another process makes the running agent refuse every client, or a start
\* fail for a bad signature (refresh_crl: "a failed verification never destroys a
\* good on-disk CRL").
NeverLocksOut ==
    ~ renewed => ~ refused /\ mem.status # "Invalid" /\ disk.kind # "torn"

\* Fetches, the hourly look at the file, expiry, failed writes and restarts never
\* bring a revoked client back: once a list naming it was in use, a handshake
\* accepts it only after the file was deleted or made unreadable from outside.
RevokedStaysOut ==
    \A c \in known : phase = "up" /\ Accepts(mem, c) => harmed

\* The manager's revocations reach the handshakes although fetches, a file
\* operation or the file itself may fail, once a manager is configured and
\* unless the CA was replaced under the running process
\* (spawn_crl_refresh_task).
RevocationArrives ==
    \A c \in Clients :
        (HasManager /\ c \in revoked /\ phase = "up") ~> (~ Accepts(mem, c) \/ ca # caDisk)

\* "This ensures transient failures don't cascade into CRL expiration" (crl.rs:434):
\* one failed fetch between two good ones does not let the list expire.
OneFailureIsHarmless ==
    fetched /\ rpc = "sleep" /\ retryIdx <= 1 => ReevaluateExpiry(mem) # "Expired"

=============================================================================
