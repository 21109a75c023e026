---------------------------- MODULE CrlStoreProofs ----------------------------
(***************************************************************************)
(* Proofs about CrlStore: for any set of clients, any number of CAs and    *)
(* every interval, backoff and scenario, the revocation list never locks   *)
(* everybody out and never lets a revoked client back in.  Both hold       *)
(* whatever the clock does, so the time left of a list is not looked at.   *)
(***************************************************************************)
EXTENDS CrlStore, TLAPS

-----------------------------------------------------------------------------
(* The invariants *)

Kinds == {"list", "missing", "unreadable", "torn"}

\* f has the fields of a file, and only a list revokes anybody.
IsFile(f) ==
    /\ f = File(f.kind, f.ca, f.revoked, f.left)
    /\ f.kind \in Kinds
    /\ f.kind # "list" => f.revoked = {}

Shapes ==
    /\ IsFile(disk) /\ IsFile(tmp) /\ IsFile(incoming) /\ IsFile(issued)
    /\ mem = State(mem.status, mem.revoked, mem.left)

\* refresh_crl writes a list that it verified and that revokes at least what
\* this host knows to be revoked; what it renames is that list.
Verified ==
    /\ phase = "down" => rpc = "off"
    /\ rpc \in Synchronous =>
          /\ incoming.kind = "list" /\ incoming.ca = ca
          /\ known \subseteq incoming.revoked
          /\ rpc = "rename" => tmp = incoming

\* The list the manager signed last revokes what every list on this host does.
Newest ==
    /\ known \subseteq issued.revoked
    /\ disk.revoked \subseteq issued.revoked
    /\ incoming.revoked \subseteq issued.revoked
    /\ issued.revoked \subseteq revoked

\* The list on disk revokes everybody this host knows to be revoked; when a
\* fetched list is about to come into use it is already there.
OnDisk ==
    ~ harmed =>
        /\ known \subseteq disk.revoked
        /\ rpc = "store" => incoming.revoked \subseteq disk.revoked

\* RevokedStaysOut, also while the first fetch is awaited.
KeptOut == ~ harmed /\ phase # "down" => \A c \in known : ~ Accepts(mem, c)

\* Without a renewal there is one CA, and the list on disk is one it signed.
OneCa ==
    ~ renewed =>
        /\ ca = 1 /\ caDisk = 1 /\ ~ refused
        /\ mem.status # "Invalid"
        /\ disk.kind # "torn" /\ (disk.kind = "list" => disk.ca = 1)

CrlInv == Shapes /\ Verified /\ Newest /\ OnDisk /\ KeptOut /\ OneCa

-----------------------------------------------------------------------------
(* Files and lists *)

\* The files a step may put in place.
LEMMA FileKinds ==
    /\ IsFile(Missing) /\ IsFile(Unreadable) /\ IsFile(Torn)
    /\ \A c, s, l : IsFile(Signed(c, s, l))
    /\ Missing.kind = "missing" /\ Unreadable.kind = "unreadable" /\ Torn.kind = "torn"
    /\ Missing.revoked = {} /\ Unreadable.revoked = {}
    /\ \A c, s, l : /\ Signed(c, s, l).kind = "list" /\ Signed(c, s, l).ca = c
                    /\ Signed(c, s, l).revoked = s
BY DEF IsFile, File, Missing, Unreadable, Torn, Signed, Kinds

\* What a copy of a file says: it revokes what the file does or is Invalid,
\* and it is Invalid exactly if the file is cut short or another CA signed it.
LEMMA LoadEffect ==
    ASSUME NEW f, IsFile(f), NEW c
    PROVE  /\ LoadCrl(f, c) = State(LoadCrl(f, c).status, LoadCrl(f, c).revoked, LoadCrl(f, c).left)
           /\ LoadCrl(f, c).status = "Invalid" <=>
                 f.kind = "torn" \/ (f.kind = "list" /\ f.ca # c)
           /\ LoadCrl(f, c).status \in {"Valid", "Expired"} =>
                 f.kind = "list" /\ LoadCrl(f, c).revoked = f.revoked
           /\ LoadCrl(f, c).status \in {"Missing", "Degraded"} =>
                 f.revoked = {} /\ LoadCrl(f, c).revoked = {}
           /\ LoadCrl(f, c).status = "Invalid" => LoadCrl(f, c).revoked = {}
           /\ LoadCrl(f, c).status \in {"Valid", "Expired", "Missing", "Degraded", "Invalid"}
           /\ f.kind = "list" => LoadCrl(f, c) = LoadCrlFromBytes(f, c)
<1>. DEFINE late == IF f.left < 0 THEN "Expired" ELSE "Valid"
<1>1. late \in {"Expired", "Valid"}
  OBVIOUS
<1>. HIDE DEF late
<1>2. LoadCrlFromBytes(f, c) = IF f.kind # "list" \/ f.ca # c THEN State("Invalid", {}, -1)
                               ELSE State(late, f.revoked, f.left)
  BY DEF LoadCrlFromBytes, late
<1>3. CASE f.kind = "missing"
  BY <1>3 DEF LoadCrl, Default, State, IsFile
<1>4. CASE f.kind = "unreadable"
  BY <1>4 DEF LoadCrl, State, IsFile
<1>5. CASE f.kind = "torn" \/ (f.kind = "list" /\ f.ca # c)
  <2>1. LoadCrl(f, c) = State("Invalid", {}, -1)
    BY <1>2, <1>5 DEF LoadCrl
  <2>. QED
    BY <1>2, <1>5, <2>1 DEF State
<1>6. CASE f.kind = "list" /\ f.ca = c
  <2>1. LoadCrl(f, c) = State(late, f.revoked, f.left)
    BY <1>2, <1>6 DEF LoadCrl
  <2>. QED
    BY <1>1, <1>2, <1>6, <2>1 DEF State
<1>. QED
  BY <1>3, <1>4, <1>5, <1>6 DEF IsFile, Kinds

\* A list verifies only if the CA of the process signed it, and then the copy
\* revokes what it does.
LEMMA VerifyEffect ==
    ASSUME NEW f, NEW c, LoadCrlFromBytes(f, c).status # "Invalid"
    PROVE  f.kind = "list" /\ f.ca = c
BY DEF LoadCrlFromBytes, State

\* The state before any list is loaded.
LEMMA DefaultState ==
    /\ Default.status = "Missing" /\ Default.revoked = {}
    /\ Default = State(Default.status, Default.revoked, Default.left)
BY DEF Default, State

\* A copy of the file on disk keeps everybody out that the file revokes.
LEMMA LoadKeepsOut ==
    ASSUME NEW f, IsFile(f), NEW c, NEW x \in f.revoked
    PROVE  ~ Accepts(LoadCrl(f, c), x)
<1>. DEFINE st == LoadCrl(f, c)
<1>1. /\ st.status \in {"Valid", "Expired", "Invalid"}
      /\ st.status \in {"Valid", "Expired"} => st.revoked = f.revoked
  BY LoadEffect
<1>. HIDE DEF st
<1>2. ~ Accepts(st, x)
  BY <1>1 DEF Accepts
<1>. QED
  BY <1>2 DEF st

\* The copy m of a file is good: it revokes what the file does and keeps
\* everybody out that it revokes.
GoodCopy(m, f) ==
    /\ m = State(m.status, m.revoked, m.left) /\ m.status # "Invalid"
    /\ m.revoked = f.revoked
    /\ \A x \in f.revoked : ~ Accepts(m, x)

\* Some CA did not sign the file, or the file is cut short.
BadFor(f, c) == f.kind = "torn" \/ (f.kind = "list" /\ f.ca # c)

\* A file that is not bad gives a good copy.
LEMMA LoadGood ==
    ASSUME NEW f, IsFile(f), NEW c, LoadCrl(f, c).status # "Invalid"
    PROVE  GoodCopy(LoadCrl(f, c), f) /\ ~ BadFor(f, c)
<1>. DEFINE st == LoadCrl(f, c)
<1>1. /\ st = State(st.status, st.revoked, st.left) /\ st.status # "Invalid"
      /\ st.status \in {"Valid", "Expired"} => st.revoked = f.revoked
      /\ st.status \in {"Missing", "Degraded"} => f.revoked = {} /\ st.revoked = {}
      /\ st.status \in {"Valid", "Expired", "Missing", "Degraded", "Invalid"}
  BY LoadEffect
<1>2. ~ BadFor(f, c)
  BY LoadEffect DEF BadFor
<1>3. \A x \in f.revoked : ~ Accepts(st, x)
  BY LoadKeepsOut
<1>. HIDE DEF st
<1>4. GoodCopy(st, f)
  BY <1>1, <1>3 DEF GoodCopy
<1>. QED
  BY <1>2, <1>4 DEF st

\* A start is refused, or some copy comes into use: that of the file, or none
\* when the file cannot be read.
LEMMA StartEffect ==
    ASSUME IsFile(disk), Start
    PROVE  /\ phase = "down" /\ ca' = caDisk
           /\ UNCHANGED <<caDisk, disk, tmp, incoming, issued, revoked, harmed, renewed>>
           /\ \/ BadFor(disk, caDisk) /\ UNCHANGED <<phase, mem, rpc, known>>
              \/ /\ phase' \in {"starting", "up"} /\ rpc' \in {"fetch", "off"}
                 /\ refused' = refused /\ known' = known \cup mem'.revoked
                 /\ GoodCopy(mem', disk)
<1>. DEFINE st == LoadCrl(disk, caDisk)
<1>1. /\ st.status \in {"Valid", "Expired", "Missing", "Degraded", "Invalid"}
      /\ st.status = "Invalid" => BadFor(disk, caDisk)
      /\ st.status = "Degraded" => disk.revoked = {}
  BY LoadEffect DEF BadFor
<1>2. st.status # "Invalid" => GoodCopy(st, disk)
  BY LoadGood
<1>. HIDE DEF st
<1>3. st.status = "Degraded" => GoodCopy(Default, disk)
  BY <1>1, DefaultState DEF GoodCopy
<1>4. /\ phase = "down" /\ ca' = caDisk
      /\ UNCHANGED <<caDisk, disk, tmp, incoming, issued, revoked, harmed, renewed>>
  BY DEF Start, fileVars, worldVars
<1>5. CASE st.status = "Invalid"
  BY <1>1, <1>4, <1>5 DEF Start, st
<1>6. CASE st.status = "Degraded"
  <2>1. /\ phase' = "up" /\ rpc' \in {"fetch", "off"} /\ refused' = refused
        /\ mem' = Default /\ known' = known \cup Default.revoked
    BY <1>6 DEF Start, st, Use, Spawn
  <2>. QED
    BY <1>3, <1>4, <1>6, <2>1
<1>7. CASE st.status \in {"Valid", "Expired", "Missing"}
  <2>1. /\ phase' \in {"starting", "up"} /\ rpc' \in {"fetch", "off"} /\ refused' = refused
        /\ mem' = st /\ known' = known \cup st.revoked
    BY <1>7 DEF Start, st, Use, Spawn
  <2>. QED
    BY <1>2, <1>4, <1>7, <2>1
<1>. QED
  BY <1>1, <1>5, <1>6, <1>7

\* The list that was fetched comes into use.
LEMMA StoreEffect ==
    ASSUME Shapes, Verified, StoreList
    PROVE  /\ GoodCopy(mem', incoming) /\ known \subseteq incoming.revoked
           /\ known' = incoming.revoked /\ incoming' = Missing
           /\ phase' = "up" /\ rpc' \in {"fetch", "off", "sleep"}
           /\ phase \in {"starting", "up"} /\ rpc = "store"
           /\ UNCHANGED <<ca, caDisk, disk, tmp, issued, revoked, harmed, renewed, refused>>
<1>1. incoming.kind = "list" /\ incoming.ca = ca /\ known \subseteq incoming.revoked
  BY DEF StoreList, Verified, Synchronous
<1>. DEFINE st == LoadCrl(incoming, ca)
<1>2. st = LoadCrlFromBytes(incoming, ca) /\ st.status # "Invalid"
  BY <1>1, LoadEffect DEF Shapes
<1>3. GoodCopy(st, incoming)
  BY <1>2, LoadGood DEF Shapes
<1>. HIDE DEF st
<1>4. /\ mem' = st /\ known' = known \cup st.revoked
      /\ incoming' = Missing
      /\ UNCHANGED <<ca, caDisk, disk, tmp, issued, revoked, harmed, renewed, refused>>
  BY <1>2 DEF StoreList, Use, fileVars, worldVars
<1>5. /\ phase' = "up" /\ rpc' \in {"fetch", "off", "sleep"} /\ phase \in {"starting", "up"}
      /\ rpc = "store"
  BY DEF StoreList, RefreshOk, Spawn, Sleep
<1>6. known' = incoming.revoked
  BY <1>1, <1>3, <1>4 DEF GoodCopy
<1>. QED
  BY <1>1, <1>3, <1>4, <1>5, <1>6

\* Time changes nothing but the time left.
LEMMA OlderEffect ==
    ASSUME NEW d
    PROVE  /\ \A f : IsFile(f) =>
                 /\ IsFile(Older(f, d)) /\ Older(f, d).kind = f.kind
                 /\ Older(f, d).ca = f.ca /\ Older(f, d).revoked = f.revoked
           /\ \A m : m = State(m.status, m.revoked, m.left) =>
                 /\ Older(m, d).status = m.status /\ Older(m, d).revoked = m.revoked
                 /\ Older(m, d) = State(Older(m, d).status, Older(m, d).revoked, Older(m, d).left)
<1>1. ASSUME NEW f, IsFile(f)
      PROVE  /\ IsFile(Older(f, d)) /\ Older(f, d).kind = f.kind
             /\ Older(f, d).ca = f.ca /\ Older(f, d).revoked = f.revoked
  <2>. DEFINE n == IF f.left < d THEN -1 ELSE f.left - d
  <2>. HIDE DEF n
  <2>1. Older(f, d) = File(f.kind, f.ca, f.revoked, n)
    BY <1>1 DEF Older, IsFile, File, n
  <2>. QED
    BY <1>1, <2>1 DEF IsFile, File
<1>2. ASSUME NEW m, m = State(m.status, m.revoked, m.left)
      PROVE  /\ Older(m, d).status = m.status /\ Older(m, d).revoked = m.revoked
             /\ Older(m, d) = State(Older(m, d).status, Older(m, d).revoked, Older(m, d).left)
  <2>. DEFINE n == IF m.left < d THEN -1 ELSE m.left - d
  <2>. HIDE DEF n
  <2>1. Older(m, d) = State(m.status, m.revoked, n)
    BY <1>2 DEF Older, State, n
  <2>. QED
    BY <2>1 DEF State
<1>. QED
  BY <1>1, <1>2

\* Every step keeps the shapes of files and of the copy in memory.
LEMMA ShapesStep ==
    ASSUME Shapes, Verified, [CrlNext]_listVars
    PROVE  Shapes'
<1>a. /\ IsFile(disk) /\ IsFile(tmp) /\ IsFile(incoming) /\ IsFile(issued)
      /\ mem = State(mem.status, mem.revoked, mem.left)
  BY DEF Shapes
<1>1. ASSUME Start PROVE Shapes'
  BY <1>1, <1>a, StartEffect DEF Shapes, BadFor, GoodCopy
<1>2. ASSUME FetchFresh PROVE Shapes'
  BY <1>2, <1>a, FileKinds, VerifyEffect
    DEF FetchFresh, Answers, fileVars, timers, histVars, Shapes
<1>3. ASSUME FetchCached PROVE Shapes'
  BY <1>3, <1>a, VerifyEffect
    DEF FetchCached, Answers, fileVars, timers, histVars, Shapes
<1>4. ASSUME FetchFails PROVE Shapes'
  BY <1>4, <1>a, FileKinds, LoadEffect
    DEF FetchFails, RefreshErr, Spawn, Sleep, fileVars, worldVars, histVars,
        Shapes
<1>5. ASSUME CreateTmp PROVE Shapes'
  BY <1>5, <1>a, FileKinds, LoadEffect
    DEF CreateTmp, timers, worldVars, histVars, Shapes
<1>6. ASSUME WriteTmp PROVE Shapes'
  BY <1>6, <1>a, FileKinds, LoadEffect
    DEF WriteTmp, timers, worldVars, histVars, Shapes
<1>7. ASSUME RenameTmp PROVE Shapes'
  BY <1>7, <1>a, FileKinds, LoadEffect
    DEF RenameTmp, timers, worldVars, histVars, Shapes
<1>8. ASSUME StoreList PROVE Shapes'
  BY <1>8, <1>a, StoreEffect, FileKinds DEF Shapes, GoodCopy
<1>9. ASSUME IoFails PROVE Shapes'
  BY <1>9, <1>a, FileKinds, LoadEffect
    DEF IoFails, RefreshErr, Spawn, Sleep, fileVars, histVars, Shapes
<1>10. ASSUME Wake PROVE Shapes'
  BY <1>10, <1>a, FileKinds, LoadEffect
    DEF Wake, fileVars, timers, worldVars, histVars, Shapes
<1>11. ASSUME HealthCheck PROVE Shapes'
  BY <1>11, <1>a, LoadEffect, LoadKeepsOut
    DEF HealthCheck, Reevaluate, Use, fileVars, worldVars, Shapes
<1>12. ASSUME Tick PROVE Shapes'
  <2>. DEFINE d == Min(Deadlines)
  <2>1. /\ disk' = Older(disk, d) /\ tmp' = Older(tmp, d)
        /\ mem' = Older(mem, d) /\ issued' = Older(issued, d)
        /\ rpc \notin Synchronous
        /\ UNCHANGED <<phase, ca, caDisk, rpc, incoming, revoked, known, harmed, renewed, refused>>
    BY <1>12 DEF Tick, histVars
  <2>. HIDE DEF d
  <2>. QED
    BY <1>a, <2>1, OlderEffect DEF Shapes
<1>13. ASSUME NEW c \in Clients, Revoke(c) PROVE Shapes'
  BY <1>13, <1>a, FileKinds, LoadEffect
    DEF Revoke, fileVars, taskVars, timers, histVars, Shapes
<1>14. ASSUME NEW f \in {Missing, Unreadable}, Damage(f) PROVE Shapes'
  BY <1>14, <1>a, FileKinds, LoadEffect DEF Damage, taskVars, timers, Shapes
<1>15. ASSUME Renew PROVE Shapes'
  BY <1>15, <1>a, FileKinds, LoadEffect DEF Renew, taskVars, timers, Shapes
<1>16. ASSUME Dies PROVE Shapes'
  BY <1>16, <1>a, FileKinds, DefaultState DEF Dies, fileVars, Shapes
<1>17. ASSUME UNCHANGED listVars PROVE Shapes'
  BY <1>17, <1>a, FileKinds, LoadEffect DEF listVars, fileVars, taskVars, timers, histVars, Shapes
<1>. QED
  BY <1>1, <1>2, <1>3, <1>4, <1>5, <1>6, <1>7, <1>8, <1>9, <1>10, <1>11,
     <1>12, <1>13, <1>14, <1>15, <1>16, <1>17
    DEF CrlNext, RefreshStep, listVars

\* Every step keeps what refresh_crl has verified.
LEMMA VerifiedStep ==
    ASSUME Shapes, Verified, Newest, [CrlNext]_listVars
    PROVE  Verified'
<1>a. /\ IsFile(disk) /\ IsFile(tmp) /\ IsFile(incoming) /\ IsFile(issued)
      /\ mem = State(mem.status, mem.revoked, mem.left)
  BY DEF Shapes
<1>1. ASSUME Start PROVE Verified'
  BY <1>1, <1>a, StartEffect
    DEF Verified, Newest, Synchronous, BadFor, GoodCopy
<1>2. ASSUME FetchFresh PROVE Verified'
  <2>. DEFINE l == Signed(caDisk, revoked, Validity)
  <2>1. /\ rpc' = "create" /\ incoming' = l /\ rpc = "fetch" /\ UNCHANGED <<phase, ca, tmp, known>>
        /\ LoadCrlFromBytes(l, ca).status # "Invalid"
    BY <1>2 DEF FetchFresh, Answers, fileVars, histVars
  <2>2. known \subseteq l.revoked
    BY FileKinds DEF Newest
  <2>3. l.kind = "list" /\ l.ca = ca
    BY <2>1, VerifyEffect
  <2>. QED
    BY <2>1, <2>2, <2>3 DEF Verified, Synchronous
<1>3. ASSUME FetchCached PROVE Verified'
  <2>. DEFINE l == issued
  <2>1. /\ rpc' = "create" /\ incoming' = l /\ rpc = "fetch" /\ UNCHANGED <<phase, ca, tmp, known>>
        /\ LoadCrlFromBytes(l, ca).status # "Invalid"
    BY <1>3 DEF FetchCached, Answers, fileVars, histVars
  <2>2. known \subseteq l.revoked
    BY FileKinds DEF Newest
  <2>3. l.kind = "list" /\ l.ca = ca
    BY <2>1, VerifyEffect
  <2>. QED
    BY <2>1, <2>2, <2>3 DEF Verified, Synchronous
<1>4. ASSUME FetchFails PROVE Verified'
  BY <1>4, <1>a, FileKinds, LoadEffect
    DEF FetchFails, RefreshErr, Spawn, Sleep, fileVars, worldVars, histVars,
        Verified, Newest, Synchronous
<1>5. ASSUME CreateTmp PROVE Verified'
  BY <1>5, <1>a, FileKinds, LoadEffect
    DEF CreateTmp, timers, worldVars, histVars, Verified, Newest, Synchronous
<1>6. ASSUME WriteTmp PROVE Verified'
  BY <1>6, <1>a, FileKinds, LoadEffect
    DEF WriteTmp, timers, worldVars, histVars, Verified, Newest, Synchronous
<1>7. ASSUME RenameTmp PROVE Verified'
  BY <1>7, <1>a, FileKinds, LoadEffect
    DEF RenameTmp, timers, worldVars, histVars, Verified, Newest, Synchronous
<1>8. ASSUME StoreList PROVE Verified'
  BY <1>8, <1>a, StoreEffect, FileKinds
    DEF Verified, Newest, Synchronous, GoodCopy
<1>9. ASSUME IoFails PROVE Verified'
  BY <1>9, <1>a, FileKinds, LoadEffect
    DEF IoFails, RefreshErr, Spawn, Sleep, fileVars, histVars, Verified,
        Newest, Synchronous
<1>10. ASSUME Wake PROVE Verified'
  BY <1>10, <1>a, FileKinds, LoadEffect
    DEF Wake, fileVars, timers, worldVars, histVars, Verified, Newest,
        Synchronous
<1>11. ASSUME HealthCheck PROVE Verified'
  BY <1>11, <1>a, LoadEffect, LoadKeepsOut
    DEF HealthCheck, Reevaluate, Use, fileVars, worldVars, Verified, Newest,
        Synchronous
<1>12. ASSUME Tick PROVE Verified'
  <2>. DEFINE d == Min(Deadlines)
  <2>1. /\ disk' = Older(disk, d) /\ tmp' = Older(tmp, d)
        /\ mem' = Older(mem, d) /\ issued' = Older(issued, d)
        /\ rpc \notin Synchronous
        /\ UNCHANGED <<phase, ca, caDisk, rpc, incoming, revoked, known, harmed, renewed, refused>>
    BY <1>12 DEF Tick, histVars
  <2>. HIDE DEF d
  <2>2. /\ disk'.kind = disk.kind /\ disk'.ca = disk.ca /\ disk'.revoked = disk.revoked
        /\ issued'.revoked = issued.revoked
        /\ mem'.status = mem.status /\ mem'.revoked = mem.revoked
    BY <1>a, <2>1, OlderEffect
  <2>. QED
    BY <2>1, <2>2 DEF Verified
<1>13. ASSUME NEW c \in Clients, Revoke(c) PROVE Verified'
  BY <1>13, <1>a, FileKinds, LoadEffect
    DEF Revoke, fileVars, taskVars, timers, histVars, Verified, Newest,
        Synchronous
<1>14. ASSUME NEW f \in {Missing, Unreadable}, Damage(f) PROVE Verified'
  BY <1>14, <1>a, FileKinds, LoadEffect
    DEF Damage, taskVars, timers, Verified, Newest, Synchronous
<1>15. ASSUME Renew PROVE Verified'
  BY <1>15, <1>a, FileKinds, LoadEffect
    DEF Renew, taskVars, timers, Verified, Newest, Synchronous
<1>16. ASSUME Dies PROVE Verified'
  BY <1>16, <1>a, FileKinds, DefaultState
    DEF Dies, fileVars, Verified, Newest, Synchronous
<1>17. ASSUME UNCHANGED listVars PROVE Verified'
  BY <1>17, <1>a, FileKinds, LoadEffect
    DEF listVars, fileVars, taskVars, timers, histVars, Verified, Newest, Synchronous
<1>. QED
  BY <1>1, <1>2, <1>3, <1>4, <1>5, <1>6, <1>7, <1>8, <1>9, <1>10, <1>11,
     <1>12, <1>13, <1>14, <1>15, <1>16, <1>17
    DEF CrlNext, RefreshStep, listVars

\* No list on the host is ahead of the manager's.
LEMMA NewestStep ==
    ASSUME Shapes, Verified, Newest, [CrlNext]_listVars
    PROVE  Newest'
<1>a. /\ IsFile(disk) /\ IsFile(tmp) /\ IsFile(incoming) /\ IsFile(issued)
      /\ mem = State(mem.status, mem.revoked, mem.left)
  BY DEF Shapes
<1>1. ASSUME Start PROVE Newest'
  BY <1>1, <1>a, StartEffect
    DEF Newest, Verified, Synchronous, BadFor, GoodCopy
<1>2. ASSUME FetchFresh PROVE Newest'
  BY <1>2, <1>a, FileKinds, VerifyEffect
    DEF FetchFresh, Answers, fileVars, timers, histVars, Newest, Verified,
        Synchronous
<1>3. ASSUME FetchCached PROVE Newest'
  BY <1>3, <1>a, VerifyEffect
    DEF FetchCached, Answers, fileVars, timers, histVars, Newest, Verified,
        Synchronous
<1>4. ASSUME FetchFails PROVE Newest'
  BY <1>4, <1>a, FileKinds, LoadEffect
    DEF FetchFails, RefreshErr, Spawn, Sleep, fileVars, worldVars, histVars,
        Newest, Verified, Synchronous
<1>5. ASSUME CreateTmp PROVE Newest'
  BY <1>5, <1>a, FileKinds, LoadEffect
    DEF CreateTmp, timers, worldVars, histVars, Newest, Verified, Synchronous
<1>6. ASSUME WriteTmp PROVE Newest'
  BY <1>6, <1>a, FileKinds, LoadEffect
    DEF WriteTmp, timers, worldVars, histVars, Newest, Verified, Synchronous
<1>7. ASSUME RenameTmp PROVE Newest'
  BY <1>7, <1>a, FileKinds, LoadEffect
    DEF RenameTmp, timers, worldVars, histVars, Newest, Verified, Synchronous
<1>8. ASSUME StoreList PROVE Newest'
  BY <1>8, <1>a, StoreEffect, FileKinds
    DEF Newest, Verified, Synchronous, GoodCopy
<1>9. ASSUME IoFails PROVE Newest'
  BY <1>9, <1>a, FileKinds, LoadEffect
    DEF IoFails, RefreshErr, Spawn, Sleep, fileVars, histVars, Newest,
        Verified, Synchronous
<1>10. ASSUME Wake PROVE Newest'
  BY <1>10, <1>a, FileKinds, LoadEffect
    DEF Wake, fileVars, timers, worldVars, histVars, Newest, Verified,
        Synchronous
<1>11. ASSUME HealthCheck PROVE Newest'
  BY <1>11, <1>a, LoadEffect, LoadKeepsOut
    DEF HealthCheck, Reevaluate, Use, fileVars, worldVars, Newest, Verified,
        Synchronous
<1>12. ASSUME Tick PROVE Newest'
  <2>. DEFINE d == Min(Deadlines)
  <2>1. /\ disk' = Older(disk, d) /\ tmp' = Older(tmp, d)
        /\ mem' = Older(mem, d) /\ issued' = Older(issued, d)
        /\ rpc \notin Synchronous
        /\ UNCHANGED <<phase, ca, caDisk, rpc, incoming, revoked, known, harmed, renewed, refused>>
    BY <1>12 DEF Tick, histVars
  <2>. HIDE DEF d
  <2>2. /\ disk'.kind = disk.kind /\ disk'.ca = disk.ca /\ disk'.revoked = disk.revoked
        /\ issued'.revoked = issued.revoked
        /\ mem'.status = mem.status /\ mem'.revoked = mem.revoked
    BY <1>a, <2>1, OlderEffect
  <2>. QED
    BY <2>1, <2>2 DEF Newest
<1>13. ASSUME NEW c \in Clients, Revoke(c) PROVE Newest'
  BY <1>13, <1>a, FileKinds, LoadEffect
    DEF Revoke, fileVars, taskVars, timers, histVars, Newest, Verified,
        Synchronous
<1>14. ASSUME NEW f \in {Missing, Unreadable}, Damage(f) PROVE Newest'
  BY <1>14, <1>a, FileKinds, LoadEffect
    DEF Damage, taskVars, timers, Newest, Verified, Synchronous
<1>15. ASSUME Renew PROVE Newest'
  BY <1>15, <1>a, FileKinds, LoadEffect
    DEF Renew, taskVars, timers, Newest, Verified, Synchronous
<1>16. ASSUME Dies PROVE Newest'
  BY <1>16, <1>a, FileKinds, DefaultState
    DEF Dies, fileVars, Newest, Verified, Synchronous
<1>17. ASSUME UNCHANGED listVars PROVE Newest'
  BY <1>17, <1>a, FileKinds, LoadEffect
    DEF listVars, fileVars, taskVars, timers, histVars, Newest, Verified, Synchronous
<1>. QED
  BY <1>1, <1>2, <1>3, <1>4, <1>5, <1>6, <1>7, <1>8, <1>9, <1>10, <1>11,
     <1>12, <1>13, <1>14, <1>15, <1>16, <1>17
    DEF CrlNext, RefreshStep, listVars

\* Fetches, failures, deaths and renewals keep what is revoked on disk.
LEMMA OnDiskStep ==
    ASSUME Shapes, Verified, Newest, OnDisk, [CrlNext]_listVars
    PROVE  OnDisk'
<1>a. /\ IsFile(disk) /\ IsFile(tmp) /\ IsFile(incoming) /\ IsFile(issued)
      /\ mem = State(mem.status, mem.revoked, mem.left)
  BY DEF Shapes
<1>1. ASSUME Start PROVE OnDisk'
  BY <1>1, <1>a, StartEffect
    DEF OnDisk, Verified, Newest, Synchronous, BadFor, GoodCopy
<1>2. ASSUME FetchFresh PROVE OnDisk'
  BY <1>2, <1>a, FileKinds, VerifyEffect
    DEF FetchFresh, Answers, fileVars, timers, histVars, OnDisk, Verified,
        Newest, Synchronous
<1>3. ASSUME FetchCached PROVE OnDisk'
  BY <1>3, <1>a, VerifyEffect
    DEF FetchCached, Answers, fileVars, timers, histVars, OnDisk, Verified,
        Newest, Synchronous
<1>4. ASSUME FetchFails PROVE OnDisk'
  BY <1>4, <1>a, FileKinds, LoadEffect
    DEF FetchFails, RefreshErr, Spawn, Sleep, fileVars, worldVars, histVars,
        OnDisk, Verified, Newest, Synchronous
<1>5. ASSUME CreateTmp PROVE OnDisk'
  BY <1>5, <1>a, FileKinds, LoadEffect
    DEF CreateTmp, timers, worldVars, histVars, OnDisk, Verified, Newest,
        Synchronous
<1>6. ASSUME WriteTmp PROVE OnDisk'
  BY <1>6, <1>a, FileKinds, LoadEffect
    DEF WriteTmp, timers, worldVars, histVars, OnDisk, Verified, Newest,
        Synchronous
<1>7. ASSUME RenameTmp PROVE OnDisk'
  BY <1>7, <1>a, FileKinds, LoadEffect
    DEF RenameTmp, timers, worldVars, histVars, OnDisk, Verified, Newest,
        Synchronous
<1>8. ASSUME StoreList PROVE OnDisk'
  BY <1>8, <1>a, StoreEffect, FileKinds
    DEF OnDisk, Verified, Newest, Synchronous, GoodCopy
<1>9. ASSUME IoFails PROVE OnDisk'
  BY <1>9, <1>a, FileKinds, LoadEffect
    DEF IoFails, RefreshErr, Spawn, Sleep, fileVars, histVars, OnDisk,
        Verified, Newest, Synchronous
<1>10. ASSUME Wake PROVE OnDisk'
  BY <1>10, <1>a, FileKinds, LoadEffect
    DEF Wake, fileVars, timers, worldVars, histVars, OnDisk, Verified, Newest,
        Synchronous
<1>11. ASSUME HealthCheck PROVE OnDisk'
  BY <1>11, <1>a, LoadEffect, LoadKeepsOut
    DEF HealthCheck, Reevaluate, Use, fileVars, worldVars, OnDisk, Verified,
        Newest, Synchronous
<1>12. ASSUME Tick PROVE OnDisk'
  <2>. DEFINE d == Min(Deadlines)
  <2>1. /\ disk' = Older(disk, d) /\ tmp' = Older(tmp, d)
        /\ mem' = Older(mem, d) /\ issued' = Older(issued, d)
        /\ rpc \notin Synchronous
        /\ UNCHANGED <<phase, ca, caDisk, rpc, incoming, revoked, known, harmed, renewed, refused>>
    BY <1>12 DEF Tick, histVars
  <2>. HIDE DEF d
  <2>2. /\ disk'.kind = disk.kind /\ disk'.ca = disk.ca /\ disk'.revoked = disk.revoked
        /\ issued'.revoked = issued.revoked
        /\ mem'.status = mem.status /\ mem'.revoked = mem.revoked
    BY <1>a, <2>1, OlderEffect
  <2>. QED
    BY <2>1, <2>2 DEF OnDisk
<1>13. ASSUME NEW c \in Clients, Revoke(c) PROVE OnDisk'
  BY <1>13, <1>a, FileKinds, LoadEffect
    DEF Revoke, fileVars, taskVars, timers, histVars, OnDisk, Verified,
        Newest, Synchronous
<1>14. ASSUME NEW f \in {Missing, Unreadable}, Damage(f) PROVE OnDisk'
  BY <1>14, <1>a, FileKinds, LoadEffect
    DEF Damage, taskVars, timers, OnDisk, Verified, Newest, Synchronous
<1>15. ASSUME Renew PROVE OnDisk'
  BY <1>15, <1>a, FileKinds, LoadEffect
    DEF Renew, taskVars, timers, OnDisk, Verified, Newest, Synchronous
<1>16. ASSUME Dies PROVE OnDisk'
  BY <1>16, <1>a, FileKinds, DefaultState
    DEF Dies, fileVars, OnDisk, Verified, Newest, Synchronous
<1>17. ASSUME UNCHANGED listVars PROVE OnDisk'
  BY <1>17, <1>a, FileKinds, LoadEffect
    DEF listVars, fileVars, taskVars, timers, histVars, OnDisk, Verified, Newest, Synchronous
<1>. QED
  BY <1>1, <1>2, <1>3, <1>4, <1>5, <1>6, <1>7, <1>8, <1>9, <1>10, <1>11,
     <1>12, <1>13, <1>14, <1>15, <1>16, <1>17
    DEF CrlNext, RefreshStep, listVars

\* Whatever copy comes into use keeps out everybody known to be revoked.
LEMMA KeptOutStep ==
    ASSUME Shapes, Verified, OnDisk, KeptOut, [CrlNext]_listVars
    PROVE  KeptOut'
<1>a. /\ IsFile(disk) /\ IsFile(tmp) /\ IsFile(incoming) /\ IsFile(issued)
      /\ mem = State(mem.status, mem.revoked, mem.left)
  BY DEF Shapes
<1>1. ASSUME Start PROVE KeptOut'
  BY <1>1, <1>a, StartEffect DEF KeptOut, OnDisk, BadFor, GoodCopy
<1>2. ASSUME FetchFresh PROVE KeptOut'
  BY <1>2, <1>a, FileKinds, VerifyEffect
    DEF FetchFresh, Answers, fileVars, timers, histVars, KeptOut, OnDisk
<1>3. ASSUME FetchCached PROVE KeptOut'
  BY <1>3, <1>a, VerifyEffect
    DEF FetchCached, Answers, fileVars, timers, histVars, KeptOut, OnDisk
<1>4. ASSUME FetchFails PROVE KeptOut'
  BY <1>4, <1>a, FileKinds
    DEF FetchFails, RefreshErr, Spawn, Sleep, fileVars, worldVars, histVars,
        KeptOut, OnDisk
<1>5. ASSUME CreateTmp PROVE KeptOut'
  BY <1>5, <1>a, FileKinds
    DEF CreateTmp, timers, worldVars, histVars, KeptOut, OnDisk
<1>6. ASSUME WriteTmp PROVE KeptOut'
  BY <1>6, <1>a, FileKinds
    DEF WriteTmp, timers, worldVars, histVars, KeptOut, OnDisk
<1>7. ASSUME RenameTmp PROVE KeptOut'
  BY <1>7, <1>a, FileKinds
    DEF RenameTmp, timers, worldVars, histVars, KeptOut, OnDisk
<1>8. ASSUME StoreList PROVE KeptOut'
  BY <1>8, <1>a, StoreEffect, FileKinds DEF KeptOut, OnDisk, GoodCopy
<1>9. ASSUME IoFails PROVE KeptOut'
  BY <1>9, <1>a, FileKinds
    DEF IoFails, RefreshErr, Spawn, Sleep, fileVars, histVars, KeptOut, OnDisk
<1>10. ASSUME Wake PROVE KeptOut'
  BY <1>10, <1>a, FileKinds
    DEF Wake, fileVars, timers, worldVars, histVars, KeptOut, OnDisk
<1>11. ASSUME HealthCheck PROVE KeptOut'
  BY <1>11, <1>a, LoadEffect, LoadKeepsOut
    DEF HealthCheck, Reevaluate, Use, fileVars, worldVars, KeptOut, OnDisk
<1>12. ASSUME Tick PROVE KeptOut'
  <2>. DEFINE d == Min(Deadlines)
  <2>1. /\ disk' = Older(disk, d) /\ tmp' = Older(tmp, d)
        /\ mem' = Older(mem, d) /\ issued' = Older(issued, d)
        /\ rpc \notin Synchronous
        /\ UNCHANGED <<phase, ca, caDisk, rpc, incoming, revoked, known, harmed, renewed, refused>>
    BY <1>12 DEF Tick, histVars
  <2>. HIDE DEF d
  <2>2. /\ disk'.kind = disk.kind /\ disk'.ca = disk.ca /\ disk'.revoked = disk.revoked
        /\ issued'.revoked = issued.revoked
        /\ mem'.status = mem.status /\ mem'.revoked = mem.revoked
    BY <1>a, <2>1, OlderEffect
  <2>. QED
    BY <2>1, <2>2 DEF KeptOut, Accepts
<1>13. ASSUME NEW c \in Clients, Revoke(c) PROVE KeptOut'
  BY <1>13, <1>a, FileKinds
    DEF Revoke, fileVars, taskVars, timers, histVars, KeptOut, OnDisk
<1>14. ASSUME NEW f \in {Missing, Unreadable}, Damage(f) PROVE KeptOut'
  BY <1>14, <1>a, FileKinds DEF Damage, taskVars, timers, KeptOut, OnDisk
<1>15. ASSUME Renew PROVE KeptOut'
  BY <1>15, <1>a, FileKinds DEF Renew, taskVars, timers, KeptOut, OnDisk
<1>16. ASSUME Dies PROVE KeptOut'
  BY <1>16, <1>a, FileKinds, DefaultState DEF Dies, fileVars, KeptOut, OnDisk
<1>17. ASSUME UNCHANGED listVars PROVE KeptOut'
  BY <1>17, <1>a, FileKinds DEF listVars, fileVars, taskVars, timers, histVars, KeptOut, OnDisk
<1>. QED
  BY <1>1, <1>2, <1>3, <1>4, <1>5, <1>6, <1>7, <1>8, <1>9, <1>10, <1>11,
     <1>12, <1>13, <1>14, <1>15, <1>16, <1>17
    DEF CrlNext, RefreshStep, listVars

\* Without a renewal every list is signed by the one CA and none is torn.
LEMMA OneCaStep ==
    ASSUME Shapes, Verified, OneCa, [CrlNext]_listVars
    PROVE  OneCa'
<1>a. /\ IsFile(disk) /\ IsFile(tmp) /\ IsFile(incoming) /\ IsFile(issued)
      /\ mem = State(mem.status, mem.revoked, mem.left)
  BY DEF Shapes
<1>1. ASSUME Start PROVE OneCa'
  BY <1>1, <1>a, StartEffect
    DEF OneCa, Verified, Synchronous, BadFor, GoodCopy
<1>2. ASSUME FetchFresh PROVE OneCa'
  BY <1>2, <1>a, FileKinds, VerifyEffect
    DEF FetchFresh, Answers, fileVars, timers, histVars, OneCa, Verified,
        Synchronous
<1>3. ASSUME FetchCached PROVE OneCa'
  BY <1>3, <1>a, VerifyEffect
    DEF FetchCached, Answers, fileVars, timers, histVars, OneCa, Verified,
        Synchronous
<1>4. ASSUME FetchFails PROVE OneCa'
  BY <1>4, <1>a, FileKinds, LoadEffect
    DEF FetchFails, RefreshErr, Spawn, Sleep, fileVars, worldVars, histVars,
        OneCa, Verified, Synchronous
<1>5. ASSUME CreateTmp PROVE OneCa'
  BY <1>5, <1>a, FileKinds, LoadEffect
    DEF CreateTmp, timers, worldVars, histVars, OneCa, Verified, Synchronous
<1>6. ASSUME WriteTmp PROVE OneCa'
  BY <1>6, <1>a, FileKinds, LoadEffect
    DEF WriteTmp, timers, worldVars, histVars, OneCa, Verified, Synchronous
<1>7. ASSUME RenameTmp PROVE OneCa'
  BY <1>7, <1>a, FileKinds, LoadEffect
    DEF RenameTmp, timers, worldVars, histVars, OneCa, Verified, Synchronous
<1>8. ASSUME StoreList PROVE OneCa'
  BY <1>8, <1>a, StoreEffect, FileKinds
    DEF OneCa, Verified, Synchronous, GoodCopy
<1>9. ASSUME IoFails PROVE OneCa'
  BY <1>9, <1>a, FileKinds, LoadEffect
    DEF IoFails, RefreshErr, Spawn, Sleep, fileVars, histVars, OneCa,
        Verified, Synchronous
<1>10. ASSUME Wake PROVE OneCa'
  BY <1>10, <1>a, FileKinds, LoadEffect
    DEF Wake, fileVars, timers, worldVars, histVars, OneCa, Verified,
        Synchronous
<1>11. ASSUME HealthCheck PROVE OneCa'
  BY <1>11, <1>a, LoadEffect, LoadKeepsOut
    DEF HealthCheck, Reevaluate, Use, fileVars, worldVars, OneCa, Verified,
        Synchronous
<1>12. ASSUME Tick PROVE OneCa'
  <2>. DEFINE d == Min(Deadlines)
  <2>1. /\ disk' = Older(disk, d) /\ tmp' = Older(tmp, d)
        /\ mem' = Older(mem, d) /\ issued' = Older(issued, d)
        /\ rpc \notin Synchronous
        /\ UNCHANGED <<phase, ca, caDisk, rpc, incoming, revoked, known, harmed, renewed, refused>>
    BY <1>12 DEF Tick, histVars
  <2>. HIDE DEF d
  <2>2. /\ disk'.kind = disk.kind /\ disk'.ca = disk.ca /\ disk'.revoked = disk.revoked
        /\ issued'.revoked = issued.revoked
        /\ mem'.status = mem.status /\ mem'.revoked = mem.revoked
    BY <1>a, <2>1, OlderEffect
  <2>. QED
    BY <2>1, <2>2 DEF OneCa
<1>13. ASSUME NEW c \in Clients, Revoke(c) PROVE OneCa'
  BY <1>13, <1>a, FileKinds, LoadEffect
    DEF Revoke, fileVars, taskVars, timers, histVars, OneCa, Verified,
        Synchronous
<1>14. ASSUME NEW f \in {Missing, Unreadable}, Damage(f) PROVE OneCa'
  BY <1>14, <1>a, FileKinds, LoadEffect
    DEF Damage, taskVars, timers, OneCa, Verified, Synchronous
<1>15. ASSUME Renew PROVE OneCa'
  BY <1>15, <1>a, FileKinds, LoadEffect
    DEF Renew, taskVars, timers, OneCa, Verified, Synchronous
<1>16. ASSUME Dies PROVE OneCa'
  BY <1>16, <1>a, FileKinds, DefaultState
    DEF Dies, fileVars, OneCa, Verified, Synchronous
<1>17. ASSUME UNCHANGED listVars PROVE OneCa'
  BY <1>17, <1>a, FileKinds, LoadEffect
    DEF listVars, fileVars, taskVars, timers, histVars, OneCa, Verified, Synchronous
<1>. QED
  BY <1>1, <1>2, <1>3, <1>4, <1>5, <1>6, <1>7, <1>8, <1>9, <1>10, <1>11,
     <1>12, <1>13, <1>14, <1>15, <1>16, <1>17
    DEF CrlNext, RefreshStep, listVars

\* The initial state satisfies the invariant.
LEMMA CrlInitInv == CrlInit => CrlInv
<1>. SUFFICES ASSUME CrlInit PROVE CrlInv
  OBVIOUS
<1>1. disk = Missing \/ \E l \in {-1, Validity} : disk = Signed(1, {}, l)
  BY DEF CrlInit
<1>2. issued = Missing \/ issued = Signed(1, {}, Validity)
  BY DEF CrlInit
<1>3. /\ IsFile(disk) /\ disk.kind # "torn" /\ disk.revoked = {}
      /\ disk.kind = "list" => disk.ca = 1
      /\ IsFile(issued) /\ issued.revoked = {}
  BY <1>1, <1>2, FileKinds
<1>4. Shapes
  BY <1>3, FileKinds DEF CrlInit, Shapes, Default, State
<1>. QED
  BY <1>3, <1>4, FileKinds
     DEF CrlInit, CrlInv, Verified, Newest, OnDisk, KeptOut, OneCa, Synchronous, Default, State

\* The invariant holds in every reachable state.
LEMMA CrlInvHolds == CrlSpec => []CrlInv
<1>1. CrlInv /\ [CrlNext]_listVars => CrlInv'
  BY ShapesStep, VerifiedStep, NewestStep, OnDiskStep, KeptOutStep, OneCaStep DEF CrlInv
<1>. QED
  BY <1>1, CrlInitInv, PTL DEF CrlSpec

\* Unless another process renewed the CA, no answer of the manager, failed file
\* operation or death makes the agent refuse every client or fail to start.
THEOREM ListNeverLocksOut == CrlSpec => []NeverLocksOut
<1>1. CrlInv => NeverLocksOut
  BY DEF CrlInv, OneCa, NeverLocksOut
<1>. QED
  BY <1>1, CrlInvHolds, PTL

\* A client that a list in use revoked is not accepted again, across fetches,
\* expiry, failed writes, restarts and renewals, unless the file was deleted or
\* made unreadable from outside.
THEOREM RevokedAlwaysStaysOut == CrlSpec => []RevokedStaysOut
<1>1. CrlInv => RevokedStaysOut
  BY DEF CrlInv, KeptOut, RevokedStaysOut
<1>. QED
  BY <1>1, CrlInvHolds, PTL

=============================================================================
