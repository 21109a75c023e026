----------------------------- MODULE AccessGate -----------------------------
(***************************************************************************)
(* What stands between a client and a handler: the TLS handshake with its  *)
(* look at the revocation list (CrlStore), then for every request of the   *)
(* connection the rate limiter of the worker that serves it, the check for *)
(* repeated headers and the IP allow list (src/main.rs wraps them in the   *)
(* reverse order: the last wrap sees a request first).                     *)
(***************************************************************************)
EXTENDS CrlStore, Whitelist

CONSTANTS
    Workers,       \* the server's worker threads, each with its own limiters (4)
    LimitsEnabled, \* rate_limit.enabled of the configuration
    Burst,         \* destructive_burst and read_burst
    Peers,         \* addresses that connect
    FirstFiles,    \* allow-list files at start
    LaterFile      \* what an administrator changes the file to

ASSUME GateAssumption ==
    /\ LimitsEnabled \in BOOLEAN
    /\ Burst \in [{"destructive", "read"} -> Nat \ {0}]
    /\ Peers \subseteq Addresses
    /\ \A f \in FirstFiles \cup {LaterFile} : \A e \in f.entries : e \in Entries

VARIABLES
    conns,     \* per worker, the connection it serves
    wlFile,    \* whitelist.yaml
    wlMem,     \* WhitelistManager.entries
    wlSeen,    \* history: the file as it was when the process loaded it
    tokens,    \* per worker, tier and address: what the limiter still grants
    excess,    \* history: per worker and address, the most destructive requests
               \* handled, in a stretch of time that ends now, beyond the cells
               \* its limiter gave back in that stretch
    last       \* the last request and its outcome

gateVars == <<conns, wlFile, wlMem, wlSeen, tokens, excess, last>>
vars     == <<crlVars, gateVars>>

Exempt  == {"health"}
Paths   == {"health", "api"}
Methods == {"GET", "POST", "PUT", "DELETE"}

Closed == [open |-> FALSE, ip |-> 0]
NoRequest == [path |-> "health", ip |-> 0, outcome |-> "handled"]

\* As Tier, but a PUT counts as a read.
TierNoPut(method) == IF method \in {"POST", "DELETE"} THEN "destructive" ELSE "read"

Tier(method) == IF method \in {"POST", "PUT", "DELETE"} THEN "destructive" ELSE "read"

FullBuckets == [w \in Workers |-> [t \in DOMAIN Burst |-> [i \in Peers |-> Burst[t]]]]
NoExcess    == [w \in Workers |-> [i \in Peers |-> 0]]

Init ==
    /\ CrlInit
    /\ conns = [w \in Workers |-> Closed]
    /\ wlFile \in FirstFiles /\ wlSeen = wlFile /\ wlMem = {}
    /\ tokens = FullBuckets /\ excess = NoExcess
    /\ last = NoRequest

\* The process starts: the allow list is loaded, or denies everyone; the
\* limiters are new.
StartServer ==
    /\ Start
    /\ wlMem' \in Loaded(wlFile) /\ wlSeen' = wlFile
    /\ tokens' = FullBuckets /\ excess' = NoExcess
    /\ UNCHANGED <<conns, wlFile, last>>

ServerDies ==
    /\ Dies
    /\ conns' = [w \in Workers |-> Closed]
    /\ wlMem' = {}
    /\ last' = NoRequest
    /\ UNCHANGED <<wlFile, wlSeen, tokens, excess>>

\* One of the bounded events of the gate; the list is left alone.
Spend(event) ==
    /\ budget[event] > 0
    /\ budget' = [budget EXCEPT ![event] = @ - 1]
    /\ UNCHANGED <<phase, ca, fileVars, mem, taskVars, issued, revoked, histVars>>

\* A handshake on a worker that has no connection.
Connect(w, c, i) ==
    /\ phase = "up" /\ ~ conns[w].open
    /\ Accepts(mem, c)
    /\ conns' = [conns EXCEPT ![w] = [open |-> TRUE, ip |-> i]]
    /\ Spend("connects")
    /\ UNCHANGED <<wlFile, wlMem, wlSeen, tokens, excess, last>>

Close(w) ==
    /\ conns[w].open
    /\ conns' = [conns EXCEPT ![w] = Closed]
    /\ UNCHANGED <<crlVars, wlFile, wlMem, wlSeen, tokens, excess, last>>

Limited(path) == LimitsEnabled /\ path \notin Exempt
Allowed(path, i) == path \in Exempt \/ IsAllowed(wlMem, i)

\* What becomes of a request: the limiter, the header check, the allow list.
Outcome(w, method, path, repeated) ==
    LET i == conns[w].ip
    IN  IF Limited(path) /\ tokens[w][Tier(method)][i] = 0 THEN "too many"
        ELSE IF repeated THEN "bad request"
        ELSE IF ~ Allowed(path, i) THEN "forbidden"
        ELSE "handled"

Request(w, method, path, repeated) ==
    LET i == conns[w].ip
        t == Tier(method)
        o == Outcome(w, method, path, repeated)
    IN  /\ phase = "up" /\ conns[w].open /\ Spend("requests")
        /\ tokens' = IF Limited(path) /\ tokens[w][t][i] > 0
                       THEN [tokens EXCEPT ![w][t][i] = @ - 1] ELSE tokens
        /\ excess' = IF /\ o = "handled" /\ path \notin Exempt
                        /\ method \in {"POST", "PUT", "DELETE"}
                       THEN [excess EXCEPT ![w][i] = @ + 1] ELSE excess
        /\ last' = [path |-> path, ip |-> i, outcome |-> o]
        /\ UNCHANGED <<conns, wlFile, wlMem, wlSeen>>

\* Time passes and governor gives one cell back to one bucket: a bucket of
\* Quota::per_minute(n) is replenished cell by cell, one every 60/n seconds.
Replenish(w, t, i) ==
    /\ phase = "up" /\ tokens[w][t][i] < Burst[t]
    /\ tokens' = [tokens EXCEPT ![w][t][i] = @ + 1]
    /\ excess' = IF t = "destructive" /\ excess[w][i] > 0
                   THEN [excess EXCEPT ![w][i] = @ - 1] ELSE excess
    /\ UNCHANGED <<crlVars, conns, wlFile, wlMem, wlSeen, last>>

\* An administrator replaces the file.  The watcher only logs the event.
EditFile ==
    /\ Spend("edits")
    /\ wlFile' = LaterFile
    /\ UNCHANGED <<conns, wlMem, wlSeen, tokens, excess, last>>

CrlOther ==
    \/ FetchFresh \/ FetchCached \/ FetchFails \/ RefreshStep \/ IoFails
    \/ Wake \/ HealthCheck \/ Tick
    \/ \E c \in Clients : Revoke(c)
    \/ \E f \in {Missing, Unreadable} : Damage(f)
    \/ Renew

Next ==
    \/ StartServer \/ ServerDies
    \/ CrlOther /\ UNCHANGED gateVars
    \/ \E w \in Workers :
          \/ \E c \in Clients, i \in Peers : Connect(w, c, i)
          \/ Close(w)
          \/ \E m \in Methods, p \in Paths, r \in BOOLEAN : Request(w, m, p, r)
          \/ \E t \in DOMAIN Burst, i \in Peers : Replenish(w, t, i)
    \/ EditFile

Fairness ==
    /\ WF_vars(StartServer) /\ WF_vars(RefreshStep /\ UNCHANGED gateVars)
    /\ WF_vars(Wake /\ UNCHANGED gateVars) /\ WF_vars(HealthCheck /\ UNCHANGED gateVars)
    /\ WF_vars(Tick /\ UNCHANGED gateVars)
    /\ WF_vars((FetchFresh \/ FetchCached \/ FetchFails) /\ UNCHANGED gateVars)
    /\ SF_vars(FetchFresh /\ UNCHANGED gateVars)

Spec == Init /\ [][Next]_vars /\ Fairness

-----------------------------------------------------------------------------
(* Properties. *)

\* The shapes of CrlStore and of the gate; a limiter never grants more than its
\* burst, and only a running server has connections.
TypeOK ==
    /\ CrlTypeOK
    /\ \A w \in Workers :
          /\ conns[w] \in [open : BOOLEAN, ip : Peers \cup {0}]
          /\ conns[w].open => phase = "up"
          /\ \A t \in DOMAIN Burst, i \in Peers : tokens[w][t][i] \in 0 .. Burst[t]
    /\ wlMem \subseteq [kind : {"ip", "cidr", "host"}, addr : Addresses, prefix : 0 .. Width]

\* A request is handled, or forbidden, exactly as the ranges of addresses in the
\* file say that the process read at its start: no prefix is off by one, a file
\* that does not parse lets nobody in, and the exempt paths are open to all.
GateMatchesList ==
    last.path \notin Exempt =>
        LET listed == \E e \in wlSeen.entries : last.ip \in RangeOf(e)
        IN  /\ last.outcome = "handled" => ~ ParseFails(wlSeen) /\ listed
            /\ last.outcome = "forbidden" =>
                  \/ ParseFails(wlSeen)
                  \/ ~ \E e \in wlSeen.entries : e.kind # "host" /\ last.ip \in RangeOf(e)

\* Over every stretch of time a worker lets one address past the gate with at
\* most destructive_burst more requests that change the host than the cells its
\* limiter gave back in that stretch, whichever methods and connections the
\* address uses, steadily or in bursts.  The bound is that of one worker:
\* new_transform builds the limiters of each worker, so an address with
\* connections to several workers has as many buckets.
DestructiveBound ==
    LimitsEnabled =>
        \A w \in Workers, i \in Peers : excess[w][i] <= Burst["destructive"]

=============================================================================
