------------------------------ MODULE JobEvents ------------------------------
(***************************************************************************)
(* Job status events on their way to WebSocket clients: emit_event of the  *)
(* scheduler, the tokio broadcast channel, the listener task of each       *)
(* connection, the mailbox of its WsJobActor and the socket                *)
(* (src/src/jobs/websocket.rs, src/src/api/handlers/websocket.rs).         *)
(*                                                                         *)
(* An event is its position in the order of emission: the scheduler emits  *)
(* under its lock, in the order of the transitions.                        *)
(***************************************************************************)
EXTENDS Naturals, Sequences, FiniteSets

CONSTANTS
    Clients,
    Jobs,
    Capacity,     \* of the broadcast channel (256)
    MailboxCap,   \* of an actor's mailbox (16, the default of actix)
    MaxEvents     \* bound: events emitted

ASSUME EventsAssumption ==
    /\ Capacity \in Nat \ {0}
    /\ MailboxCap \in Nat \ {0}
    /\ MaxEvents \in Nat

VARIABLES
    log,              \* the job of each event emitted so far
    conn,             \* none, handshake, open or closed
    pos,              \* the next event of each receiver
    listener,         \* none, running or ended
    mailbox,          \* the events queued for each actor
    subscribed_jobs,
    subscribed_all,
    alive,            \* whether the client still answers
    missed,           \* heartbeat ticks since the client was heard
    sent,             \* the events written to each socket, in order
    lost,             \* history: events skipped by a receiver or refused by a
                      \* full mailbox
    from,             \* history: the first event after each subscription
    unwanted,         \* history: jobs the messages of a client leave out
    muted             \* history: events handled while their job was left out

histVars == <<from, unwanted, muted>>
vars == <<log, conn, pos, listener, mailbox, subscribed_jobs, subscribed_all,
          alive, missed, sent, lost, histVars>>

\* Ticks of HEARTBEAT_INTERVAL (5 s) without a sign of the client before the
\* tick that finds CLIENT_TIMEOUT (10 s) exceeded.
MaxMissed == 2

Init ==
    /\ log = <<>>
    /\ conn = [c \in Clients |-> "none"]
    /\ pos = [c \in Clients |-> 1]
    /\ listener = [c \in Clients |-> "none"]
    /\ mailbox = [c \in Clients |-> <<>>]
    /\ subscribed_jobs = [c \in Clients |-> {}]
    /\ subscribed_all = [c \in Clients |-> TRUE]
    /\ alive = [c \in Clients |-> TRUE]
    /\ missed = [c \in Clients |-> 0]
    /\ sent = [c \in Clients |-> <<>>]
    /\ lost = [c \in Clients |-> {}]
    /\ from = [c \in Clients |-> 1]
    /\ unwanted = [c \in Clients |-> {}]
    /\ muted = [c \in Clients |-> {}]

\* emit_event: the channel takes the event whoever listens.
Emit(j) ==
    /\ Len(log) < MaxEvents
    /\ log' = Append(log, j)
    /\ UNCHANGED <<conn, pos, listener, mailbox, subscribed_jobs, subscribed_all,
                   alive, missed, sent, lost, histVars>>

\* websocket_handler: the receiver is created before the handshake ...
Subscribe(c) ==
    /\ conn[c] = "none"
    /\ conn' = [conn EXCEPT ![c] = "handshake"]
    /\ pos' = [pos EXCEPT ![c] = Len(log) + 1]
    /\ from' = [from EXCEPT ![c] = Len(log) + 1]
    /\ UNCHANGED <<log, listener, mailbox, subscribed_jobs, subscribed_all, alive,
                   missed, sent, lost, unwanted, muted>>

\* Mutant: the receiver is only created when the actor starts.
StartedSubscribes(c) ==
    /\ conn[c] = "handshake"
    /\ conn' = [conn EXCEPT ![c] = "open"]
    /\ listener' = [listener EXCEPT ![c] = "running"]
    /\ pos' = [pos EXCEPT ![c] = Len(log) + 1]
    /\ UNCHANGED <<log, mailbox, subscribed_jobs, subscribed_all, alive, missed,
                   sent, lost, histVars>>

\* ... which may fail; otherwise the actor starts its heartbeat and listener.
Started(c) ==
    /\ conn[c] = "handshake"
    /\ \/ /\ conn' = [conn EXCEPT ![c] = "open"]
          /\ listener' = [listener EXCEPT ![c] = "running"]
       \/ /\ conn' = [conn EXCEPT ![c] = "closed"]
          /\ UNCHANGED listener
    /\ UNCHANGED <<log, pos, mailbox, subscribed_jobs, subscribed_all, alive,
                   missed, sent, lost, histVars>>

-----------------------------------------------------------------------------
(* The listener task *)

\* The oldest event the channel still holds.
Oldest == IF Len(log) > Capacity THEN Len(log) - Capacity + 1 ELSE 1

\* Mutant: a lagging receiver starts over with the events to come.
SkipToEnd(c) == Len(log) + 1

\* Where a receiver that lags goes on.
Resume(c) == Oldest

\* recv: RecvError::Lagged, the receiver skips what was overwritten.
Lagged(c) ==
    /\ listener[c] = "running"
    /\ pos[c] < Oldest
    /\ lost' = [lost EXCEPT ![c] = @ \cup (pos[c]..(Resume(c) - 1))]
    /\ pos' = [pos EXCEPT ![c] = Resume(c)]
    /\ UNCHANGED <<log, conn, listener, mailbox, subscribed_jobs, subscribed_all,
                   alive, missed, sent, histVars>>

\* try_send succeeds while the actor lives and its mailbox has room.
Accepts(c) == conn[c] = "open" /\ Len(mailbox[c]) < MailboxCap

\* try_send to the actor.
Forward(c) ==
    /\ mailbox' = [mailbox EXCEPT ![c] = Append(@, pos[c])]
    /\ UNCHANGED <<listener, lost>>

\* try_send fails: the listener takes the actor for dead and ends, also if its
\* mailbox was only full.
GiveUp(c) ==
    /\ listener' = [listener EXCEPT ![c] = "ended"]
    /\ lost' = [lost EXCEPT ![c] = @ \cup {pos[c]}]
    /\ UNCHANGED mailbox

\* recv: Ok(event).
Receive(c) ==
    /\ listener[c] = "running"
    /\ pos[c] \in Oldest..Len(log)
    /\ IF Accepts(c) THEN Forward(c) ELSE GiveUp(c)
    /\ pos' = [pos EXCEPT ![c] = @ + 1]
    /\ UNCHANGED <<log, conn, subscribed_jobs, subscribed_all, alive, missed, sent,
                   histVars>>

-----------------------------------------------------------------------------
(* The actor *)

ShouldForward(c, j) == subscribed_all[c] \/ j \in subscribed_jobs[c]

\* Handler<BroadcastEvent>
HandleEvent(c) ==
    /\ conn[c] = "open"
    /\ mailbox[c] # <<>>
    /\ mailbox' = [mailbox EXCEPT ![c] = Tail(@)]
    /\ sent' = IF ShouldForward(c, log[Head(mailbox[c])])
               THEN [sent EXCEPT ![c] = Append(@, Head(mailbox[c]))] ELSE sent
    /\ muted' = IF log[Head(mailbox[c])] \in unwanted[c]
               THEN [muted EXCEPT ![c] = @ \cup {Head(mailbox[c])}] ELSE muted
    /\ UNCHANGED <<log, conn, pos, listener, subscribed_jobs, subscribed_all,
                   alive, missed, lost, from, unwanted>>

\* ctx.stop(): the mailbox goes with the actor.
Stop(c) ==
    /\ conn' = [conn EXCEPT ![c] = "closed"]
    /\ mailbox' = [mailbox EXCEPT ![c] = <<>>]
    /\ UNCHANGED <<log, pos, listener, subscribed_jobs, subscribed_all, alive,
                   missed, sent, lost, histVars>>

\* Mutant: the tick sends its ping and never looks at the clock.
TickForEver(c) ==
    /\ conn[c] = "open"
    /\ missed' = [missed EXCEPT ![c] = IF @ < MaxMissed THEN @ + 1 ELSE @]
    /\ UNCHANGED <<log, conn, pos, listener, mailbox, subscribed_jobs,
                   subscribed_all, alive, sent, lost, histVars>>

\* The heartbeat interval: a client that was silent too long is disconnected.
Heartbeat(c) ==
    /\ conn[c] = "open"
    /\ IF missed[c] = MaxMissed
       THEN Stop(c)
       ELSE /\ missed' = [missed EXCEPT ![c] = @ + 1]
            /\ UNCHANGED <<log, conn, pos, listener, mailbox, subscribed_jobs,
                           subscribed_all, alive, sent, lost, histVars>>

\* Ping or Pong of the client.
Heard(c) ==
    /\ conn[c] = "open" /\ alive[c]
    /\ missed' = [missed EXCEPT ![c] = 0]
    /\ UNCHANGED <<log, conn, pos, listener, mailbox, subscribed_jobs,
                   subscribed_all, alive, sent, lost, histVars>>

\* Text: subscribe to a job or to all, unsubscribe from a job.  Nothing ever
\* clears subscribed_all, so no message withholds an event.  For the history a
\* client that names jobs leaves out the others, until it asks for all.
Text(c) ==
    /\ conn[c] = "open" /\ alive[c]
    /\ \/ \E j \in Jobs :
             /\ subscribed_jobs' = [subscribed_jobs EXCEPT ![c] = @ \cup {j}]
             /\ unwanted' = [unwanted EXCEPT ![c] = Jobs \ subscribed_jobs'[c]]
             /\ UNCHANGED subscribed_all
       \/ \E j \in Jobs :
             /\ subscribed_jobs' = [subscribed_jobs EXCEPT ![c] = @ \ {j}]
             /\ unwanted' = [unwanted EXCEPT ![c] = @ \cup {j}]
             /\ UNCHANGED subscribed_all
       \/ /\ subscribed_all' = [subscribed_all EXCEPT ![c] = TRUE]
          /\ unwanted' = [unwanted EXCEPT ![c] = {}]
          /\ UNCHANGED subscribed_jobs
    /\ UNCHANGED <<log, conn, pos, listener, mailbox, alive, missed, sent, lost,
                   from, muted>>

\* Close, a continuation frame or a protocol error.
Close(c) == conn[c] = "open" /\ alive[c] /\ Stop(c)

\* The client vanishes without a Close.
ClientGone(c) ==
    /\ conn[c] = "open" /\ alive[c]
    /\ alive' = [alive EXCEPT ![c] = FALSE]
    /\ UNCHANGED <<log, conn, pos, listener, mailbox, subscribed_jobs,
                   subscribed_all, missed, sent, lost, histVars>>

Listener(c) == Lagged(c) \/ Receive(c)

Next ==
    \/ \E j \in Jobs : Emit(j)
    \/ \E c \in Clients :
          \/ Subscribe(c) \/ Started(c)
          \/ Listener(c) \/ HandleEvent(c) \/ Heartbeat(c)
          \/ Heard(c) \/ Text(c) \/ Close(c) \/ ClientGone(c)

\* The listener and the actor are polled, the interval fires.  Nothing is
\* assumed of clients.
Fairness == \A c \in Clients :
    WF_vars(Listener(c)) /\ WF_vars(HandleEvent(c)) /\ WF_vars(Heartbeat(c))

Spec == Init /\ [][Next]_vars /\ Fairness

-----------------------------------------------------------------------------
(* Properties *)

\* Every variable has its type, and a mailbox keeps to its capacity.
TypeOK ==
    /\ log \in Seq(Jobs)
    /\ conn \in [Clients -> {"none", "handshake", "open", "closed"}]
    /\ pos \in [Clients -> 1..(MaxEvents + 1)]
    /\ listener \in [Clients -> {"none", "running", "ended"}]
    /\ \A c \in Clients : Len(mailbox[c]) <= MailboxCap
    /\ missed \in [Clients -> 0..MaxMissed]

Set(s) == {s[i] : i \in 1..Len(s)}

\* Between websocket_handler's subscription and the socket no event is dropped
\* in silence, reordered or repeated: every event of a job the client still
\* asks for, emitted since its receiver was created, was sent, is queued, or is
\* one that a lag or a full mailbox lost; and nothing else is sent.  Whether
\* the events of other jobs are withheld is left open.
EventsAccounted ==
    \A c \in Clients : conn[c] = "open" =>
        LET way == sent[c] \o mailbox[c]
            due == from[c]..(pos[c] - 1)
        IN  /\ \A i, k \in 1..Len(way) : i < k => way[i] < way[k]
            /\ Set(way) \cap lost[c] = {}
            /\ Set(way) \cup lost[c] \subseteq due
            /\ due \ muted[c] \subseteq Set(way) \cup lost[c]

\* An open connection misses an event of a job it asks for only if Capacity
\* later ones were emitted or its mailbox was full; a client that vanished is
\* disconnected instead.
EventsArrive ==
    \A c \in Clients, n \in 1..MaxEvents :
        (conn[c] = "open" /\ pos[c] <= n /\ n = Len(log))
            ~> \/ n \in Set(sent[c]) \cup muted[c]
               \/ conn[c] = "closed"
               \/ listener[c] = "ended"
               \/ Len(log) >= n + Capacity

\* A client that vanished without a Close is disconnected.
GoneIsClosed == \A c \in Clients : ~alive[c] ~> conn[c] = "closed"

=============================================================================
