--------------------------- MODULE JobEventsProofs ---------------------------
(***************************************************************************)
(* Proof that no job event is reordered, repeated or silently dropped on   *)
(* its way from a subscription to the socket (JobEvents), for any          *)
(* number of clients, any capacities and any number of events.             *)
(***************************************************************************)
EXTENDS JobEvents, SequenceTheorems, TLAPS

-----------------------------------------------------------------------------
(* Two sequences and a set: what is under way, and what was lost *)

\* The way of a connection and its losses are the events from the first one
\* after its subscription up to p, each event once and in order.
Covers(way, gone, first, p) ==
    /\ \A i, k \in 1..Len(way) : i < k => way[i] < way[k]
    /\ Set(way) \cap gone = {}
    /\ first \in 1..p
    /\ Set(way) \cup gone = first..(p - 1)

\* The events of an Append: try_send puts one more behind the others.
LEMMA SetOfAppend ==
    ASSUME NEW s \in Seq(Nat), NEW e \in Nat
    PROVE  Set(Append(s, e)) = Set(s) \cup {e}
<1>1. /\ Append(s, e) \in Seq(Nat)
      /\ Len(Append(s, e)) = Len(s) + 1
      /\ \A i \in 1..Len(s) : Append(s, e)[i] = s[i]
      /\ Append(s, e)[Len(s) + 1] = e
  BY AppendProperties
<1>2. 1..(Len(s) + 1) = (1..Len(s)) \cup {Len(s) + 1}
  OBVIOUS
<1>. QED
  BY <1>1, <1>2 DEF Set

\* Queueing the next event: the way grows at its end.
LEMMA WayGrows ==
    ASSUME NEW s \in Seq(Nat), NEW m \in Seq(Nat), NEW e \in Nat
    PROVE  s \o Append(m, e) = Append(s \o m, e)
<1>. DEFINE l == s \o Append(m, e)
            r == Append(s \o m, e)
<1>0. Len(s) \in Nat /\ Len(m) \in Nat
  BY LenProperties
<1>1. /\ Append(m, e) \in Seq(Nat) /\ Len(Append(m, e)) = Len(m) + 1
      /\ \A i \in 1..Len(m) : Append(m, e)[i] = m[i]
      /\ Append(m, e)[Len(m) + 1] = e
  BY AppendProperties
<1>2. /\ s \o m \in Seq(Nat) /\ Len(s \o m) = Len(s) + Len(m)
      /\ \A i \in 1..(Len(s) + Len(m)) :
            (s \o m)[i] = IF i <= Len(s) THEN s[i] ELSE m[i - Len(s)]
  BY ConcatProperties
<1>3. /\ l \in Seq(Nat) /\ Len(l) = Len(s) + Len(m) + 1
      /\ \A i \in 1..(Len(s) + Len(m) + 1) :
            l[i] = IF i <= Len(s) THEN s[i] ELSE Append(m, e)[i - Len(s)]
  BY <1>1, ConcatProperties
<1>4. /\ r \in Seq(Nat) /\ Len(r) = Len(s) + Len(m) + 1
      /\ \A i \in 1..(Len(s) + Len(m)) : r[i] = (s \o m)[i]
      /\ r[Len(s) + Len(m) + 1] = e
  BY <1>2, AppendProperties
<1>. HIDE DEF l, r
<1>5. ASSUME NEW i \in 1..(Len(s) + Len(m) + 1)
      PROVE  l[i] = r[i]
  <2>1. CASE i <= Len(s)
    <3>1. i \in 1..(Len(s) + Len(m)) /\ l[i] = s[i]
      BY <2>1, <1>0, <1>3
    <3>2. (s \o m)[i] = s[i]
      BY <2>1, <3>1, <1>2
    <3>. QED
      BY <3>1, <3>2, <1>4
  <2>2. CASE i > Len(s) /\ i <= Len(s) + Len(m)
    <3>1. i - Len(s) \in 1..Len(m) /\ i \in 1..(Len(s) + Len(m)) /\ ~(i <= Len(s))
      BY <2>2, <1>0
    <3>2. l[i] = m[i - Len(s)]
      BY <3>1, <1>1, <1>3
    <3>3. (s \o m)[i] = m[i - Len(s)]
      BY <3>1, <1>2
    <3>. QED
      BY <3>1, <3>2, <3>3, <1>4
  <2>3. CASE i = Len(s) + Len(m) + 1
    <3>1. i - Len(s) = Len(m) + 1 /\ ~(i <= Len(s))
      BY <2>3, <1>0
    <3>2. l[i] = e
      BY <3>1, <1>1, <1>3
    <3>. QED
      BY <2>3, <3>2, <1>4
  <2>. QED
    BY <1>0, <2>1, <2>2, <2>3
<1>6. l = r
  BY <1>3, <1>4, <1>5, SeqEqual
<1>. QED
  BY <1>6 DEF l, r

\* Writing the head of the mailbox to the socket leaves the way as it is.
LEMMA WayMoves ==
    ASSUME NEW s \in Seq(Nat), NEW m \in Seq(Nat), m # << >>
    PROVE  /\ Append(s, Head(m)) \o Tail(m) = s \o m
           /\ Append(s, Head(m)) \in Seq(Nat)
           /\ Tail(m) \in Seq(Nat)
           /\ Head(m) = m[1] /\ Len(m) > 0
<1>. DEFINE a == Append(s, Head(m))
            t == Tail(m)
            l == a \o t
            r == s \o m
<1>0. Len(s) \in Nat
  BY LenProperties
<1>1. /\ Head(m) = m[1] /\ Head(m) \in Nat /\ Len(m) \in Nat \ {0}
      /\ t \in Seq(Nat) /\ Len(t) = Len(m) - 1
      /\ \A i \in 1..(Len(m) - 1) : t[i] = m[i + 1]
  BY HeadTailProperties, EmptySeq, LenProperties
<1>2. /\ a \in Seq(Nat) /\ Len(a) = Len(s) + 1
      /\ \A i \in 1..Len(s) : a[i] = s[i]
      /\ a[Len(s) + 1] = m[1]
  BY <1>1, AppendProperties
<1>3. /\ r \in Seq(Nat) /\ Len(r) = Len(s) + Len(m)
      /\ \A i \in 1..(Len(s) + Len(m)) :
            r[i] = IF i <= Len(s) THEN s[i] ELSE m[i - Len(s)]
  BY ConcatProperties
<1>. HIDE DEF a, t
<1>4. /\ l \in Seq(Nat) /\ Len(l) = Len(s) + Len(m)
      /\ \A i \in 1..(Len(s) + Len(m)) :
            l[i] = IF i <= Len(s) + 1 THEN a[i] ELSE t[i - (Len(s) + 1)]
  <2>1. /\ a \o t \in Seq(Nat) /\ Len(a \o t) = Len(a) + Len(t)
        /\ \A i \in 1..(Len(a) + Len(t)) :
              (a \o t)[i] = IF i <= Len(a) THEN a[i] ELSE t[i - Len(a)]
    BY <1>1, <1>2, ConcatProperties
  <2>2. Len(a) = Len(s) + 1 /\ Len(a) + Len(t) = Len(s) + Len(m)
    BY <1>0, <1>1, <1>2
  <2>. HIDE DEF l
  <2>3. l = a \o t
    BY DEF l
  <2>. QED
    BY <2>1, <2>2, <2>3
<1>. HIDE DEF l, r
<1>5. ASSUME NEW i \in 1..(Len(s) + Len(m))
      PROVE  l[i] = r[i]
  <2>1. CASE i <= Len(s)
    <3>1. i <= Len(s) + 1 /\ i \in 1..Len(s)
      BY <2>1, <1>0
    <3>2. r[i] = s[i]
      BY <2>1, <1>3
    <3>3. l[i] = a[i]
      BY <3>1, <1>4
    <3>. QED
      BY <3>1, <3>2, <3>3, <1>2
  <2>2. CASE i = Len(s) + 1
    <3>1. i - Len(s) = 1 /\ ~(i <= Len(s)) /\ i <= Len(s) + 1
      BY <2>2, <1>0
    <3>2. r[i] = m[1]
      BY <3>1, <1>3
    <3>3. l[i] = a[i]
      BY <3>1, <1>4
    <3>. QED
      BY <2>2, <3>2, <3>3, <1>2
  <2>3. CASE i > Len(s) + 1
    <3>0. Len(m) \in Nat
      BY LenProperties
    <3>1. /\ i - (Len(s) + 1) \in 1..(Len(m) - 1)
          /\ i - (Len(s) + 1) + 1 = i - Len(s)
          /\ ~(i <= Len(s)) /\ ~(i <= Len(s) + 1)
      BY <2>3, <3>0, <1>0
    <3>2. r[i] = m[i - Len(s)]
      BY <3>1, <1>3
    <3>3. l[i] = t[i - (Len(s) + 1)]
      BY <3>1, <1>4
    <3>4. t[i - (Len(s) + 1)] = m[i - Len(s)]
      BY <3>1, <1>1
    <3>. QED
      BY <3>2, <3>3, <3>4
  <2>. QED
    BY <1>0, <2>1, <2>2, <2>3
<1>6. l = r
  BY <1>1, <1>3, <1>4, <1>5, SeqEqual
<1>. QED
  BY <1>1, <1>2, <1>6 DEF a, t, l, r

\* The elements of a sequence of numbers that covers up to p lie below p.
LEMMA CoversBelow ==
    ASSUME NEW way \in Seq(Nat), NEW gone, NEW first, NEW p \in Nat \ {0},
           Covers(way, gone, first, p)
    PROVE  /\ \A e \in Set(way) \cup gone : e \in 1..(p - 1)
           /\ \A i \in 1..Len(way) : way[i] < p
<1>1. first \in 1..p /\ Set(way) \cup gone = first..(p - 1)
  BY DEF Covers
<1>2. \A i \in 1..Len(way) : way[i] \in Set(way)
  BY DEF Set
<1>. QED
  BY <1>1, <1>2

\* The event that recv returns joins the way ...
LEMMA CoversAppend ==
    ASSUME NEW way \in Seq(Nat), NEW gone, NEW first, NEW p \in Nat \ {0},
           Covers(way, gone, first, p)
    PROVE  Covers(Append(way, p), gone, first, p + 1)
<1>. DEFINE a == Append(way, p)
<1>1. /\ Len(a) = Len(way) + 1
      /\ \A i \in 1..Len(way) : a[i] = way[i]
      /\ a[Len(way) + 1] = p
      /\ Len(way) \in Nat
  BY AppendProperties, LenProperties
<1>2. Set(a) = Set(way) \cup {p}
  BY SetOfAppend
<1>. HIDE DEF a
<1>3. ASSUME NEW i \in 1..Len(a), NEW k \in 1..Len(a), i < k
      PROVE  a[i] < a[k]
  <2>1. i \in 1..Len(way)
    BY <1>1, <1>3
  <2>2. CASE k \in 1..Len(way)
    BY <1>1, <1>3, <2>1, <2>2 DEF Covers
  <2>3. CASE k = Len(way) + 1
    BY <1>1, <2>1, <2>3, CoversBelow
  <2>. QED
    BY <1>1, <2>2, <2>3
<1>4. Set(a) \cap gone = {}
  BY <1>2, CoversBelow DEF Covers
<1>5. first \in 1..(p + 1) /\ Set(a) \cup gone = first..(p + 1 - 1)
  <2>1. first \in 1..p /\ Set(way) \cup gone = first..(p - 1)
    BY DEF Covers
  <2>2. Set(a) \cup gone = first..p
    BY <1>2, <2>1
  <2>3. first \in 1..(p + 1) /\ p + 1 - 1 = p
    BY <2>1
  <2>. QED
    BY <2>2, <2>3
<1>6. Covers(a, gone, first, p + 1)
  BY <1>3, <1>4, <1>5 DEF Covers
<1>. QED
  BY <1>6 DEF a

\* ... or the events from p on are lost, up to a later q: the overwritten
\* ones to a receiver that lags, one to a mailbox that is full.
LEMMA CoversLoss ==
    ASSUME NEW way \in Seq(Nat), NEW gone, NEW first, NEW p \in Nat \ {0},
           NEW q \in Nat, p < q, Covers(way, gone, first, p)
    PROVE  Covers(way, gone \cup (p..(q - 1)), first, q)
<1>1. first \in 1..p /\ Set(way) \cup gone = first..(p - 1)
  BY DEF Covers
<1>2. Set(way) \cap (gone \cup (p..(q - 1))) = {}
  BY CoversBelow DEF Covers
<1>3. Set(way) \cup (gone \cup (p..(q - 1))) = first..(q - 1)
  BY <1>1
<1>4. first \in 1..q
  BY <1>1
<1>. QED
  BY <1>2, <1>3, <1>4 DEF Covers

-----------------------------------------------------------------------------
(* The inductive invariant *)

\* The way of the events of one connection: written to the socket, then queued.
Way(c) == sent[c] \o mailbox[c]

\* A connection that is not open yet has received nothing and has no listener;
\* its receiver waits where it was created.
Fresh(c) ==
    /\ mailbox[c] = <<>> /\ sent[c] = <<>> /\ lost[c] = {}
    /\ listener[c] = "none" /\ from[c] = pos[c]

\* The types; with subscribed_all set no event is held back by a subscription.
DeliveryTypes ==
    /\ log \in Seq(Jobs) /\ Len(log) <= MaxEvents
    /\ conn \in [Clients -> {"none", "handshake", "open", "closed"}]
    /\ pos \in [Clients -> Nat \ {0}]
    /\ listener \in [Clients -> {"none", "running", "ended"}]
    /\ mailbox \in [Clients -> Seq(Nat)]
    /\ sent \in [Clients -> Seq(Nat)]
    /\ lost \in [Clients -> SUBSET Nat]
    /\ from \in [Clients -> Nat \ {0}]
    /\ subscribed_all = [c \in Clients |-> TRUE]
    /\ missed \in [Clients -> 0..MaxMissed]

\* What is accounted for one connection.
ClientInv(c) ==
    /\ pos[c] <= Len(log) + 1
    /\ Len(mailbox[c]) <= MailboxCap
    /\ conn[c] \in {"none", "handshake"} => Fresh(c)
    /\ conn[c] = "open" => Covers(Way(c), lost[c], from[c], pos[c])

DeliveryInv == DeliveryTypes /\ \A c \in Clients : ClientInv(c)

-----------------------------------------------------------------------------
(* The steps *)

\* Without connections nothing is owed to anybody.
LEMMA DeliveryInit == Init => DeliveryInv
<1>. SUFFICES ASSUME Init PROVE DeliveryInv
  OBVIOUS
<1>0. <<>> \in Seq(Nat) /\ <<>> \in Seq(Jobs) /\ Len(<<>>) = 0
  OBVIOUS
<1>1. DeliveryTypes
  BY <1>0, EventsAssumption DEF Init, DeliveryTypes, MaxMissed
<1>2. \A c \in Clients : ClientInv(c)
  BY <1>0, EventsAssumption DEF Init, ClientInv, Fresh
<1>. QED
  BY <1>1, <1>2 DEF DeliveryInv

\* A step leaves alone every connection whose part of the state it keeps,
\* whatever it emits.
LEMMA ClientKept ==
    ASSUME NEW d \in Clients, DeliveryTypes, ClientInv(d),
           Len(log') \in Nat, Len(log') >= Len(log),
           conn'[d] = conn[d], pos'[d] = pos[d], listener'[d] = listener[d],
           mailbox'[d] = mailbox[d], sent'[d] = sent[d], lost'[d] = lost[d],
           from'[d] = from[d]
    PROVE  ClientInv(d)'
<1>1. Len(log) \in Nat /\ pos[d] \in Nat
  BY LenProperties DEF DeliveryTypes
<1>2. Way(d)' = Way(d) /\ Fresh(d)' = Fresh(d)
  BY DEF Way, Fresh
<1>. QED
  BY <1>1, <1>2 DEF ClientInv, Covers

\* The same for a step that writes only the connection c.
LEMMA OthersKept ==
    ASSUME NEW c \in Clients, DeliveryInv, log' = log,
           \A d \in Clients \ {c} :
              /\ conn'[d] = conn[d] /\ pos'[d] = pos[d]
              /\ listener'[d] = listener[d] /\ mailbox'[d] = mailbox[d]
              /\ sent'[d] = sent[d] /\ lost'[d] = lost[d] /\ from'[d] = from[d],
           DeliveryTypes', ClientInv(c)'
    PROVE  DeliveryInv'
<1>1. Len(log) \in Nat
  BY LenProperties DEF DeliveryInv, DeliveryTypes
<1>2. ASSUME NEW d \in Clients \ {c} PROVE ClientInv(d)'
  BY <1>1, ClientKept DEF DeliveryInv
<1>. QED
  BY <1>2 DEF DeliveryInv

\* A new event is ahead of every receiver.
LEMMA EmitKeeps ==
    ASSUME NEW j \in Jobs, DeliveryInv, Emit(j) PROVE DeliveryInv'
<1>1. log' \in Seq(Jobs) /\ Len(log') = Len(log) + 1 /\ Len(log) \in Nat
  BY AppendProperties, LenProperties DEF Emit, DeliveryInv, DeliveryTypes
<1>2. DeliveryTypes'
  BY <1>1, EventsAssumption DEF Emit, histVars, DeliveryInv, DeliveryTypes
<1>3. ASSUME NEW d \in Clients PROVE ClientInv(d)'
  BY <1>1, ClientKept DEF Emit, histVars, DeliveryInv
<1>. QED
  BY <1>2, <1>3 DEF DeliveryInv

\* A new receiver starts behind the last event, so it owes none of the old ones.
LEMMA SubscribeKeeps ==
    ASSUME NEW c \in Clients, DeliveryInv, Subscribe(c) PROVE DeliveryInv'
<1>1. Len(log) \in Nat
  BY LenProperties DEF DeliveryInv, DeliveryTypes
<1>2. DeliveryTypes'
  BY <1>1 DEF Subscribe, DeliveryInv, DeliveryTypes
<1>3. ClientInv(c)'
  BY <1>1 DEF Subscribe, DeliveryInv, DeliveryTypes, ClientInv, Fresh
<1>. QED
  BY <1>2, <1>3, OthersKept DEF Subscribe, DeliveryInv, DeliveryTypes

\* The empty way of a connection that has just opened covers nothing.
LEMMA CoversNothing ==
    ASSUME NEW p \in Nat \ {0} PROVE Covers(<<>> \o <<>>, {}, p, p)
<1>1. <<>> \o <<>> = <<>>
  OBVIOUS
<1>2. Len(<<>>) = 0
  OBVIOUS
<1>3. Set(<<>>) = {}
  BY <1>2 DEF Set
<1>4. p \in 1..p /\ p..(p - 1) = {}
  OBVIOUS
<1>5. Covers(<<>>, {}, p, p)
  <2>1. \A i, k \in 1..Len(<<>>) : i < k => <<>>[i] < <<>>[k]
    BY <1>2
  <2>2. Set(<<>>) \cup {} = p..(p - 1)
    BY <1>3, <1>4
  <2>. QED
    BY <1>3, <1>4, <2>1, <2>2 DEF Covers
<1>. QED
  BY <1>1, <1>5

\* A session that starts has received nothing, and nothing is owed to it yet.
LEMMA StartedKeeps ==
    ASSUME NEW c \in Clients, DeliveryInv, Started(c) PROVE DeliveryInv'
<1>1. DeliveryTypes'
  BY DEF Started, histVars, DeliveryInv, DeliveryTypes
<1>2. /\ conn'[c] \in {"open", "closed"}
      /\ pos'[c] = pos[c] /\ pos[c] \in Nat \ {0}
      /\ mailbox'[c] = mailbox[c] /\ Len(mailbox[c]) <= MailboxCap
      /\ sent'[c] = sent[c] /\ lost'[c] = lost[c] /\ from'[c] = from[c]
      /\ log' = log /\ pos[c] <= Len(log) + 1
      /\ Fresh(c)
  BY DEF Started, histVars, DeliveryInv, DeliveryTypes, ClientInv
<1>3. Covers(Way(c), lost[c], from[c], pos[c])'
  BY <1>2, CoversNothing DEF Way, Fresh
<1>4. ClientInv(c)'
  BY <1>2, <1>3 DEF ClientInv
<1>. QED
  BY <1>1, <1>4, OthersKept DEF Started, histVars, DeliveryInv, DeliveryTypes

\* A running listener has a connection that got past its handshake.
LEMMA LaggedKeeps ==
    ASSUME NEW c \in Clients, DeliveryInv, Lagged(c) PROVE DeliveryInv'
<1>0. Len(log) \in Nat /\ pos[c] \in Nat \ {0} /\ Way(c) \in Seq(Nat)
  BY LenProperties, ConcatProperties DEF DeliveryInv, DeliveryTypes, Way
<1>1. Oldest \in Nat /\ Oldest <= Len(log) + 1 /\ pos[c] < Oldest
  BY <1>0, EventsAssumption DEF Oldest, Lagged
<1>2. DeliveryTypes'
  <2>1. pos[c]..(Oldest - 1) \subseteq Nat
    BY <1>0, <1>1
  <2>2. lost' \in [Clients -> SUBSET Nat]
    BY <2>1 DEF Lagged, Resume, DeliveryInv, DeliveryTypes
  <2>3. pos' \in [Clients -> Nat \ {0}]
    BY <1>0, <1>1 DEF Lagged, Resume, DeliveryInv, DeliveryTypes
  <2>. QED
    BY <2>2, <2>3 DEF Lagged, histVars, DeliveryInv, DeliveryTypes
<1>3. /\ lost'[c] = lost[c] \cup (pos[c]..(Oldest - 1)) /\ pos'[c] = Oldest
      /\ conn' = conn /\ Way(c)' = Way(c) /\ mailbox' = mailbox /\ log' = log
      /\ from' = from
  BY DEF Lagged, histVars, Resume, DeliveryInv, DeliveryTypes, Way
<1>4. conn[c] \notin {"none", "handshake"}
  BY DEF Lagged, DeliveryInv, ClientInv, Fresh
<1>5. ASSUME conn[c] = "open"
      PROVE  Covers(Way(c), lost'[c], from'[c], pos'[c])
  <2>1. Covers(Way(c), lost[c], from[c], pos[c])
    BY <1>5 DEF DeliveryInv, ClientInv
  <2>2. Covers(Way(c), lost[c] \cup (pos[c]..(Oldest - 1)), from[c], Oldest)
    BY <1>0, <1>1, <2>1, CoversLoss
  <2>. QED
    BY <1>3, <2>2
<1>6. ClientInv(c)'
  BY <1>0, <1>1, <1>3, <1>4, <1>5 DEF DeliveryInv, ClientInv
<1>. QED
  BY <1>2, <1>6, OthersKept DEF Lagged, histVars, DeliveryInv, DeliveryTypes

\* A received event is queued, or dropped and listed as lost.
LEMMA ReceiveKeeps ==
    ASSUME NEW c \in Clients, DeliveryInv, Receive(c) PROVE DeliveryInv'
<1>0. /\ Len(log) \in Nat /\ pos[c] \in Nat \ {0} /\ Way(c) \in Seq(Nat)
      /\ mailbox[c] \in Seq(Nat) /\ sent[c] \in Seq(Nat) /\ Len(mailbox[c]) \in Nat
  BY LenProperties, ConcatProperties DEF DeliveryInv, DeliveryTypes, Way
<1>1. Oldest \in Nat /\ pos[c] <= Len(log)
  BY <1>0, EventsAssumption DEF Oldest, Receive
<1>2. pos' \in [Clients -> Nat \ {0}] /\ pos'[c] = pos[c] + 1
  BY <1>0 DEF Receive, DeliveryInv, DeliveryTypes
<1>3. conn[c] \notin {"none", "handshake"}
  BY DEF Receive, DeliveryInv, ClientInv, Fresh
<1>4. CASE Accepts(c)
  <2>1. Append(mailbox[c], pos[c]) \in Seq(Nat)
        /\ Len(Append(mailbox[c], pos[c])) = Len(mailbox[c]) + 1
    BY <1>0, AppendProperties
  <2>2. DeliveryTypes'
    <3>1. mailbox' \in [Clients -> Seq(Nat)]
      BY <1>4, <2>1 DEF Receive, Forward, DeliveryInv, DeliveryTypes
    <3>. QED
      BY <1>2, <1>4, <3>1 DEF Receive, histVars, Forward, DeliveryInv, DeliveryTypes
  <2>3. /\ mailbox'[c] = Append(mailbox[c], pos[c])
        /\ Len(mailbox'[c]) <= MailboxCap
        /\ sent' = sent /\ lost' = lost /\ conn' = conn /\ log' = log /\ from' = from
    BY <1>0, <1>4, <2>1, EventsAssumption
    DEF Receive, histVars, Accepts, Forward, DeliveryInv, DeliveryTypes
  <2>4. Way(c)' = Append(Way(c), pos[c])
    <3>1. sent[c] \o Append(mailbox[c], pos[c]) = Append(sent[c] \o mailbox[c], pos[c])
      BY <1>0, WayGrows
    <3>. QED
      BY <2>3, <3>1 DEF Way
  <2>5. Covers(Way(c)', lost'[c], from'[c], pos'[c])
    BY <1>0, <1>2, <1>4, <2>3, <2>4, CoversAppend DEF Accepts, DeliveryInv, ClientInv
  <2>6. ClientInv(c)'
    BY <1>0, <1>1, <1>2, <1>3, <2>3, <2>5 DEF ClientInv
  <2>. QED
    BY <1>4, <2>2, <2>6, OthersKept DEF Receive, histVars, Forward, DeliveryInv, DeliveryTypes
<1>5. CASE ~Accepts(c)
  <2>1. DeliveryTypes'
    <3>1. lost' \in [Clients -> SUBSET Nat]
      <4>1. lost[c] \cup {pos[c]} \in SUBSET Nat
        BY <1>0 DEF DeliveryInv, DeliveryTypes
      <4>2. lost' = [lost EXCEPT ![c] = lost[c] \cup {pos[c]}]
        BY <1>5 DEF Receive, GiveUp
      <4>. QED
        BY <4>1, <4>2 DEF DeliveryInv, DeliveryTypes
    <3>2. listener' \in [Clients -> {"none", "running", "ended"}]
      BY <1>5 DEF Receive, GiveUp, DeliveryInv, DeliveryTypes
    <3>. QED
      BY <1>2, <1>5, <3>1, <3>2 DEF Receive, histVars, GiveUp, DeliveryInv, DeliveryTypes
  <2>2. /\ lost'[c] = lost[c] \cup {pos[c]} /\ Way(c)' = Way(c)
        /\ mailbox' = mailbox /\ conn' = conn /\ log' = log /\ from' = from
    BY <1>5 DEF Receive, histVars, GiveUp, DeliveryInv, DeliveryTypes, Way
  <2>3. {pos[c]} = pos[c]..(pos[c] + 1 - 1) /\ pos[c] < pos[c] + 1 /\ pos[c] + 1 \in Nat
    BY <1>0
  <2>4. conn[c] = "open" => Covers(Way(c), lost'[c], from'[c], pos'[c])
    <3>. DEFINE q == pos[c] + 1
    <3>1. /\ q \in Nat /\ pos[c] < q /\ from'[c] = from[c]
          /\ pos'[c] = q /\ lost'[c] = lost[c] \cup (pos[c]..(q - 1))
      BY <1>2, <2>2, <2>3
    <3>. HIDE DEF q
    <3>2. ASSUME conn[c] = "open"
          PROVE  Covers(Way(c), lost[c] \cup (pos[c]..(q - 1)), from[c], q)
      <4>1. Covers(Way(c), lost[c], from[c], pos[c])
        BY <3>2 DEF DeliveryInv, ClientInv
      <4>. QED
        BY <1>0, <3>1, <4>1, CoversLoss
    <3>. QED
      BY <3>1, <3>2
  <2>5. ClientInv(c)'
    BY <1>0, <1>1, <1>2, <1>3, <2>2, <2>4 DEF DeliveryInv, ClientInv
  <2>6. ASSUME NEW d \in Clients \ {c}
        PROVE  pos'[d] = pos[d] /\ listener'[d] = listener[d] /\ lost'[d] = lost[d]
    BY <1>5 DEF Receive, GiveUp, DeliveryInv, DeliveryTypes
  <2>. QED
    BY <1>5, <2>1, <2>5, <2>6, OthersKept DEF Receive, histVars, GiveUp
<1>. QED
  BY <1>4, <1>5

\* Writing an event to the socket moves it from the queue to what was sent.
LEMMA HandleEventKeeps ==
    ASSUME NEW c \in Clients, DeliveryInv, HandleEvent(c) PROVE DeliveryInv'
<1>0. /\ mailbox[c] \in Seq(Nat) /\ sent[c] \in Seq(Nat) /\ mailbox[c] # <<>>
      /\ Len(mailbox[c]) \in Nat /\ conn[c] = "open"
  BY LenProperties DEF HandleEvent, DeliveryInv, DeliveryTypes
<1>1. ShouldForward(c, log[Head(mailbox[c])])
  BY DEF ShouldForward, DeliveryInv, DeliveryTypes
<1>2. /\ Append(sent[c], Head(mailbox[c])) \o Tail(mailbox[c]) = Way(c)
      /\ Append(sent[c], Head(mailbox[c])) \in Seq(Nat)
      /\ Tail(mailbox[c]) \in Seq(Nat)
      /\ Len(Tail(mailbox[c])) = Len(mailbox[c]) - 1
  BY <1>0, WayMoves, HeadTailProperties DEF Way
<1>3. /\ sent' = [sent EXCEPT ![c] = Append(sent[c], Head(mailbox[c]))]
      /\ mailbox' = [mailbox EXCEPT ![c] = Tail(mailbox[c])]
  BY <1>1 DEF HandleEvent
<1>4. DeliveryTypes'
  BY <1>2, <1>3 DEF HandleEvent, DeliveryInv, DeliveryTypes
<1>5. Way(c)' = Way(c) /\ mailbox'[c] = Tail(mailbox[c])
  BY <1>2, <1>3 DEF DeliveryInv, DeliveryTypes, Way
<1>6. ClientInv(c)'
  BY <1>0, <1>2, <1>5, EventsAssumption DEF HandleEvent, DeliveryInv, ClientInv
<1>. QED
  BY <1>3, <1>4, <1>6, OthersKept DEF HandleEvent, DeliveryInv, DeliveryTypes

\* A closed connection owes nothing.
LEMMA StopKeeps ==
    ASSUME NEW c \in Clients, DeliveryInv, Stop(c) PROVE DeliveryInv'
<1>0. <<>> \in Seq(Nat) /\ Len(<<>>) = 0
  OBVIOUS
<1>1. DeliveryTypes'
  BY <1>0 DEF Stop, histVars, DeliveryInv, DeliveryTypes
<1>2. ClientInv(c)'
  BY <1>0, EventsAssumption DEF Stop, histVars, DeliveryInv, DeliveryTypes, ClientInv
<1>. QED
  BY <1>1, <1>2, OthersKept DEF Stop, histVars, DeliveryInv, DeliveryTypes

\* A step that only writes missed, alive, subscriptions or what they leave out.
LEMMA QuietKeeps ==
    ASSUME DeliveryInv, DeliveryTypes',
           UNCHANGED <<log, conn, pos, listener, mailbox, sent, lost, from>>
    PROVE  DeliveryInv'
<1>1. Len(log) \in Nat
  BY LenProperties DEF DeliveryInv, DeliveryTypes
<1>2. ASSUME NEW d \in Clients PROVE ClientInv(d)'
  BY <1>1, ClientKept DEF DeliveryInv
<1>. QED
  BY <1>2 DEF DeliveryInv

\* Every step accounts for its events.
LEMMA DeliveryStep == DeliveryInv /\ [Next]_vars => DeliveryInv'
<1>. SUFFICES ASSUME DeliveryInv, [Next]_vars PROVE DeliveryInv'
  OBVIOUS
<1>1. ASSUME NEW j \in Jobs, Emit(j) PROVE DeliveryInv'
  BY <1>1, EmitKeeps
<1>2. ASSUME NEW c \in Clients, Heartbeat(c) PROVE DeliveryInv'
  <2>1. CASE missed[c] = MaxMissed
    BY <1>2, <2>1, StopKeeps DEF Heartbeat
  <2>2. CASE missed[c] # MaxMissed
    <3>1. DeliveryTypes'
      <4>0. missed[c] \in 0..2 /\ missed[c] # 2
        BY <2>2 DEF DeliveryInv, DeliveryTypes, MaxMissed
      <4>1. missed' = [missed EXCEPT ![c] = missed[c] + 1] /\ missed[c] + 1 \in 0..2
        BY <1>2, <2>2, <4>0 DEF Heartbeat
      <4>2. missed' \in [Clients -> 0..2]
        BY <4>1 DEF DeliveryInv, DeliveryTypes, MaxMissed
      <4>. QED
        BY <1>2, <2>2, <4>2 DEF Heartbeat, histVars, DeliveryInv, DeliveryTypes, MaxMissed
    <3>. QED
      BY <1>2, <2>2, <3>1, QuietKeeps DEF Heartbeat, histVars
  <2>. QED
    BY <2>1, <2>2
<1>3. ASSUME NEW c \in Clients, Heard(c) PROVE DeliveryInv'
  <2>1. DeliveryTypes'
    BY <1>3 DEF Heard, histVars, DeliveryInv, DeliveryTypes, MaxMissed
  <2>. QED
    BY <1>3, <2>1, QuietKeeps DEF Heard, histVars
<1>4. ASSUME NEW c \in Clients, Text(c) PROVE DeliveryInv'
  <2>1. subscribed_all' = [d \in Clients |-> TRUE]
    BY <1>4 DEF Text, DeliveryInv, DeliveryTypes
  <2>2. DeliveryTypes'
    BY <1>4, <2>1 DEF Text, DeliveryInv, DeliveryTypes
  <2>. QED
    BY <1>4, <2>2, QuietKeeps DEF Text
<1>5. ASSUME NEW c \in Clients, ClientGone(c) PROVE DeliveryInv'
  <2>1. DeliveryTypes'
    BY <1>5 DEF ClientGone, histVars, DeliveryInv, DeliveryTypes
  <2>. QED
    BY <1>5, <2>1, QuietKeeps DEF ClientGone, histVars
<1>6. ASSUME UNCHANGED vars PROVE DeliveryInv'
  <2>1. DeliveryTypes'
    BY <1>6 DEF vars, histVars, DeliveryInv, DeliveryTypes
  <2>. QED
    BY <1>6, <2>1, QuietKeeps DEF vars, histVars
<1>7. ASSUME NEW c \in Clients, Close(c) PROVE DeliveryInv'
  BY <1>7, StopKeeps DEF Close
<1>. QED
  BY <1>1, <1>2, <1>3, <1>4, <1>5, <1>6, <1>7, SubscribeKeeps, StartedKeeps,
     LaggedKeeps, ReceiveKeeps, HandleEventKeeps DEF Next, Listener

\* DeliveryInv is an invariant.
LEMMA DeliveryInvariant == Spec => []DeliveryInv
<1>. QED
  BY DeliveryInit, DeliveryStep, PTL DEF Spec

-----------------------------------------------------------------------------
(* The theorems *)

\* Every variable of the event path keeps its type: in particular no receiver
\* runs past the events of emit_event, and no actor's mailbox exceeds its
\* capacity.
THEOREM EventTypes == Spec => []TypeOK
<1>1. DeliveryInv => TypeOK
  <2>. SUFFICES ASSUME DeliveryInv PROVE TypeOK
    OBVIOUS
  <2>1. Len(log) \in Nat
    BY LenProperties DEF DeliveryInv, DeliveryTypes
  <2>2. \A c \in Clients : pos[c] \in 1..(MaxEvents + 1)
    BY <2>1, EventsAssumption DEF DeliveryInv, DeliveryTypes, ClientInv
  <2>3. pos \in [Clients -> 1..(MaxEvents + 1)]
    BY <2>2 DEF DeliveryInv, DeliveryTypes
  <2>. QED
    BY <2>3 DEF DeliveryInv, DeliveryTypes, ClientInv, TypeOK
<1>. QED
  BY <1>1, DeliveryInvariant, PTL

\* Whatever clients, heartbeats and other listeners do in between, what an
\* open connection got, has queued and lost are, each once and in order, events
\* that emit_event put into the channel since websocket_handler took its
\* receiver, and none of a job the client asks for is missing.
THEOREM EventsAreAccounted == Spec => []EventsAccounted
<1>1. DeliveryInv => EventsAccounted
  <2>. SUFFICES ASSUME DeliveryInv, NEW c \in Clients, conn[c] = "open"
                PROVE  LET way == sent[c] \o mailbox[c]
                           due == from[c]..(pos[c] - 1)
                       IN  /\ \A i, k \in 1..Len(way) : i < k => way[i] < way[k]
                           /\ Set(way) \cap lost[c] = {}
                           /\ Set(way) \cup lost[c] \subseteq due
                           /\ due \ muted[c] \subseteq Set(way) \cup lost[c]
    BY DEF EventsAccounted
  <2>1. Covers(sent[c] \o mailbox[c], lost[c], from[c], pos[c])
    BY DEF DeliveryInv, ClientInv, Way
  <2>. QED
    BY <2>1 DEF Covers
<1>. QED
  BY <1>1, DeliveryInvariant, PTL

=============================================================================
