--------------------------- MODULE EnrollmentProofs ---------------------------
(***************************************************************************)
(* Proofs about Enrollment: for any number of tokens, any bundles, names   *)
(* of temporary files, addresses, limits and scenario.  The service and    *)
(* an administrator's run share the configuration, the certificates and    *)
(* the allow list; each may end at every step.                             *)
(***************************************************************************)
EXTENDS Enrollment, FiniteSetTheorems, TLAPS

-----------------------------------------------------------------------------
(* The invariants *)

\* What a bundle has left to write, at any moment.
Remaining ==
    {<<"ca", "cert", "key", "crl">>, <<"cert", "key", "crl">>, <<"key", "crl">>, <<"crl">>,
     <<"ca", "cert", "key">>, <<"cert", "key">>, <<"key">>, << >>}

Memory == [token : Tokens \cup {0}, attempt : 0 .. HardLimit, todo : Remaining,
           ip : ManagerIps \cup {0}, read : SUBSET ManagerIps]

Writing   == {"open", "rename"}
Appending == {"load", "lock", "read", "wlRename"}

\* Steps after a certificate was granted, until the token is forgotten.
Granted == Writing \cup Appending \cup {"repo", "clear", "clearing"}

\* Steps of an enrollment that has a token.
HasOne == Granted \cup {"save", "saving", "poll"}

Shapes ==
    /\ pc \in [Procs -> Labels]
    /\ cfg \in [kind : {"ok", "torn"}, token : Tokens \cup {0}]
    /\ pem \in [Files -> Tokens \cup {0}]
    /\ temps \subseteq {TempOf[f] : f \in Files} \cup {"wl"}
    /\ wl \in [kind : {"yaml", "missing"}, entries : SUBSET ManagerIps]
    /\ wlLock \in Procs \cup {None}
    /\ tokens \in [Tokens -> {"unused", "pending", "approved", "denied"} \cup NotFound]
    /\ starts \in 0 .. StartBurst

\* What a process holds, and that it holds what its step needs.
Holds ==
    /\ mem \in [Procs -> Memory]
    /\ \A p \in Procs :
          /\ pc[p] \in Writing => mem[p].todo # << >>
          /\ pc[p] \in HasOne => mem[p].token \in Tokens
          /\ pc[p] \in Appending => mem[p].ip \in ManagerIps

\* Whoever holds the lock reads or renames the list, and what it read is what
\* the list holds; a temporary file is its own, or a process ended in a write.
ListInv ==
    /\ \A p \in Procs :
          /\ wlLock = p <=> pc[p] \in {"read", "wlRename"}
          /\ pc[p] \in {"lock", "read", "wlRename"} => wl.kind = "yaml"
          /\ pc[p] = "wlRename" => mem[p].read = wl.entries /\ "wl" \in temps
    /\ "wl" \in temps => "temp" \in faults \/ \E p \in Procs : pc[p] = "wlRename"
    /\ AppendsAreKept

Busy(p) == pc[p] \notin {"idle", "serve", "failed"}

\* Until two enrollments overlap, one process at most is enrolling or starting.
AloneInv == "overlap" \notin faults => ~ (Busy("svc") /\ Busy("cli"))

\* The token of a request: it is in the configuration, or in a process about to
\* save it.
Saved(t) ==
    \/ cfg.kind = "ok" /\ cfg.token = t
    \/ \E p \in Procs : pc[p] \in {"save", "saving"} /\ mem[p].token = t

NoTokenLost == "token" \notin faults /\ "overlap" \notin faults

\* Requests by which the manager knows the host.
Asked == {"pending", "approved", "purged"}

\* As long as no enrollment got as far as the allow list, the host can ask after
\* every request by which the manager knows it.
TokenInv ==
    /\ \A p \in Procs : pc[p] \in Granted => tokens[mem[p].token] \in {"approved", "purged"}
    /\ \A p \in Procs : pc[p] \in {"clear", "clearing"} => promised # {}
    /\ NoTokenLost =>
          /\ \A p \in Procs :
                pc[p] \in (Granted \ {"clearing"}) \cup {"enroll", "poll"} =>
                    cfg.kind = "ok" /\ cfg.token = mem[p].token
          /\ \A p \in Procs : pc[p] = "save" => cfg.token \in {0, mem[p].token}
          /\ cfg.kind = "torn" <=> \E p \in Procs : pc[p] \in {"saving", "clearing"}
          /\ promised = {} =>
                \A t \in Tokens : tokens[t] \in Asked => Saved(t)
    /\ ConflictNeedsLoss

\* p has renamed the CA of its bundle, and not the whole bundle yet.
Midway(p) == pc[p] \in Writing /\ Head(mem[p].todo) # "ca"

NoBundleCut == "files" \notin faults /\ "overlap" \notin faults

\* Certificate and CA on disk are of one bundle, but for the bundle being written.
BundleInv ==
    NoBundleCut =>
        /\ \A p \in Procs : Midway(p) =>
              /\ pem["ca"] = mem[p].token
              /\ Head(mem[p].todo) # "cert" => pem["cert"] = mem[p].token
        /\ (\A p \in Procs : ~ Midway(p)) => pem["ca"] = pem["cert"]

\* p has written its key and has not yet allowed the manager.
Between(p) ==
    \/ pc[p] \in Writing /\ mem[p].todo = <<"crl">>
    \/ pc[p] \in Appending \cup {"repo"}

NoneCutBetween == "whitelist" \notin faults /\ "overlap" \notin faults

\* A key on disk means a manager on the allow list, but for the enrollment that
\* is about to put it there.
AllowedInv ==
    NoneCutBetween /\ pem["key"] # 0 =>
        \/ wl.kind = "yaml" /\ wl.entries # {}
        \/ \E p \in Procs : Between(p)

EnrollInv ==
    /\ Shapes /\ Holds /\ ListInv /\ AloneInv /\ TokenInv
    /\ BundleInv /\ ServesWhole /\ AllowedInv /\ ManagerCanReach

-----------------------------------------------------------------------------
(* Facts about the operators *)

\* There are two processes.
LEMMA OtherOne ==
    /\ Procs = {"svc", "cli"} /\ Other("svc") = "cli" /\ Other("cli") = "svc"
BY DEF Other, Procs

\* 0 is no token.
LEMMA NoTokenZero == 0 \notin Tokens
BY EnrollAssumption, FS_CardinalityType

\* What provision_pki_bundle does next, by what it has left to do.
LEMMA NextFile ==
    ASSUME NEW s \in Remaining, s # << >>
    PROVE  /\ Head(s) \in Files /\ Tail(s) \in Remaining
           /\ Len(s) = 1 <=> Tail(s) = << >>
           /\ Head(s) = "ca" => Tail(s) # << >> /\ Head(Tail(s)) = "cert"
           /\ Head(s) = "cert" => Tail(s) # << >> /\ Head(Tail(s)) = "key"
           /\ Head(s) = "key" => Tail(s) = << >> \/ Tail(s) = <<"crl">>
           /\ Head(s) = "crl" => Tail(s) = << >>
           /\ s = <<"crl">> <=> Head(s) = "crl"
<1>1. CASE s = <<"ca", "cert", "key", "crl">> BY <1>1 DEF Remaining, Files
<1>2. CASE s = <<"cert", "key", "crl">> BY <1>2 DEF Remaining, Files
<1>3. CASE s = <<"key", "crl">> BY <1>3 DEF Remaining, Files
<1>4. CASE s = <<"crl">> BY <1>4 DEF Remaining, Files
<1>5. CASE s = <<"ca", "cert", "key">> BY <1>5 DEF Remaining, Files
<1>6. CASE s = <<"cert", "key">> BY <1>6 DEF Remaining, Files
<1>7. CASE s = <<"key">> BY <1>7 DEF Remaining, Files
<1>. QED BY <1>1, <1>2, <1>3, <1>4, <1>5, <1>6, <1>7 DEF Remaining

\* A bundle starts with its CA.
LEMMA WholeBundle ==
    ASSUME NEW t
    PROVE  FilesOf(t) \in Remaining /\ FilesOf(t) # << >> /\ Head(FilesOf(t)) = "ca"
<1>1. CASE t \in HasCrl BY <1>1 DEF FilesOf, Remaining
<1>2. CASE t \notin HasCrl BY <1>2 DEF FilesOf, Remaining
<1>. QED BY <1>1, <1>2

\* A process that has ended holds nothing.
LEMMA BlankMemory == Blank \in Memory
BY EnrollAssumption DEF Blank, Memory, Remaining

Traces == {"files", "whitelist", "token", "temp", "config"}

\* What a process that ends at its present step leaves behind in f at least.
Betrays(p, f) ==
    /\ pc[p] \in {"rename", "wlRename"} => "temp" \in f
    /\ Midway(p) => "files" \in f
    /\ Between(p) => "whitelist" \in f
    /\ pc[p] = "save" /\ cfg.token # mem[p].token => "token" \in f

\* An error leaves these behind.
LEMMA ErrorHarms ==
    ASSUME NEW p PROVE Harm(p, FALSE) \subseteq Traces /\ Betrays(p, Harm(p, FALSE))
BY DEF Harm, Traces, Betrays, Midway, Between, Writing, Appending

\* Death, besides, in a write of the configuration loses the token.
LEMMA DeathHarms ==
    ASSUME NEW p
    PROVE  /\ Harm(p, TRUE) \subseteq Traces /\ Betrays(p, Harm(p, TRUE))
           /\ pc[p] \in {"saving", "clearing"} => "token" \in Harm(p, TRUE)
BY DEF Harm, Traces, Betrays, Midway, Between, Writing, Appending

\* The process ends, with an error or by death.
Ended(p) ==
    /\ pc' = [pc EXCEPT ![p] = "idle"] /\ mem' = [mem EXCEPT ![p] = Blank]
    /\ wlLock' = IF wlLock = p THEN None ELSE wlLock
    /\ srv' = IF p = "svc" THEN NotServing ELSE srv
    /\ faults \subseteq faults' /\ Betrays(p, faults')
    /\ faults' \subseteq faults \cup Traces \cup {"clash", "listClash"}
    /\ "listClash" \in faults' => "listClash" \in faults \/ (pc[p] = "read" /\ "wl" \in temps)
    /\ pc[p] \in {"saving", "clearing"} => "token" \in faults'
    /\ UNCHANGED <<cfg, pem, temps, wl, tokens, promised>>

\* An error of run_enrollment ends the process.
LEMMA OverEnds ==
    ASSUME NEW p, Over(p, FALSE), pc[p] \notin {"saving", "clearing"},
           UNCHANGED <<cfg, pem, temps, wl, tokens, promised>>
    PROVE  Ended(p)
<1>. DEFINE h == Harm(p, FALSE)
<1>1. h \subseteq Traces /\ Betrays(p, h)
  BY ErrorHarms
<1>2. faults' = faults \cup h
  BY DEF Over
<1>. HIDE DEF h
<1>3. faults \subseteq faults' /\ Betrays(p, faults')
  BY <1>1, <1>2 DEF Betrays
<1>4. /\ faults' \subseteq faults \cup Traces \cup {"clash", "listClash"}
      /\ "listClash" \in faults' => "listClash" \in faults
  BY <1>1, <1>2 DEF Traces
<1>5. /\ pc' = [pc EXCEPT ![p] = "idle"] /\ mem' = [mem EXCEPT ![p] = Blank]
      /\ wlLock' = (IF wlLock = p THEN None ELSE wlLock)
      /\ srv' = (IF p = "svc" THEN NotServing ELSE srv)
  BY Zenon DEF Over, Goto
<1>. QED BY <1>3, <1>4, <1>5 DEF Ended

\* So does a temporary file that is already there.
LEMMA ClashEnds ==
    ASSUME NEW p, NEW kind \in {"clash", "listClash"}, Clash(p, kind),
           kind = "listClash" => "wl" \in temps /\ pc[p] = "read",
           pc[p] \notin {"saving", "clearing"},
           UNCHANGED <<cfg, pem, wl, tokens, promised>>
    PROVE  Ended(p)
<1>. DEFINE h == Harm(p, FALSE)
<1>1. h \subseteq Traces /\ Betrays(p, h)
  BY ErrorHarms
<1>2. faults' = faults \cup h \cup {kind}
  BY DEF Clash
<1>. HIDE DEF h
<1>3. faults \subseteq faults' /\ Betrays(p, faults')
  BY <1>1, <1>2 DEF Betrays
<1>4. /\ faults' \subseteq faults \cup Traces \cup {"clash", "listClash"}
      /\ "listClash" \in faults' => "listClash" \in faults \/ kind = "listClash"
  BY <1>1, <1>2 DEF Traces
<1>5. /\ pc' = [pc EXCEPT ![p] = "idle"] /\ mem' = [mem EXCEPT ![p] = Blank]
      /\ wlLock' = (IF wlLock = p THEN None ELSE wlLock)
      /\ srv' = (IF p = "svc" THEN NotServing ELSE srv)
  BY Zenon DEF Clash, Goto
<1>. QED BY <1>3, <1>4, <1>5 DEF Ended, Clash

\* The actions that end the process.
LEMMA Ends ==
    ASSUME NEW p \in Procs
    PROVE  /\ RegisterFails(p) \/ PollEnds(p) \/ WriteFails(p) \/ RepositoryFails(p)
                => Ended(p)
           /\ Dies(p) => Ended(p)
           /\ ServeRefused => Ended("svc")
           /\ LoadList(p) /\ wl.kind = "missing" => Ended(p)
           /\ OpenTemp(p) /\ Clash(p, "clash") => Ended(p)
           /\ ReadList(p) /\ "wl" \in temps => Ended(p)
<1>1. RegisterFails(p) => Ended(p) BY OverEnds DEF RegisterFails
<1>2. PollEnds(p) => Ended(p) BY OverEnds DEF PollEnds
<1>3. WriteFails(p) => Ended(p) BY OverEnds DEF WriteFails
<1>4. RepositoryFails(p) => Ended(p) BY OverEnds DEF RepositoryFails
<1>5. ASSUME Dies(p) PROVE Ended(p)
  <2>. DEFINE h == Harm(p, TRUE)
  <2>1. /\ h \subseteq Traces /\ Betrays(p, h)
        /\ pc[p] \in {"saving", "clearing"} => "token" \in h
    BY DeathHarms
  <2>2. faults' = faults \cup h
    BY <1>5 DEF Dies, Over
  <2>. HIDE DEF h
  <2>3. faults \subseteq faults' /\ Betrays(p, faults')
    BY <2>1, <2>2 DEF Betrays
  <2>4. /\ faults' \subseteq faults \cup Traces \cup {"clash", "listClash"}
        /\ "listClash" \in faults' => "listClash" \in faults
        /\ pc[p] \in {"saving", "clearing"} => "token" \in faults'
    BY <2>1, <2>2 DEF Traces
  <2>5. /\ pc' = [pc EXCEPT ![p] = "idle"] /\ mem' = [mem EXCEPT ![p] = Blank]
        /\ wlLock' = (IF wlLock = p THEN None ELSE wlLock)
        /\ srv' = (IF p = "svc" THEN NotServing ELSE srv)
    BY <1>5, Zenon DEF Dies, Over, Goto
  <2>. QED BY <1>5, <2>3, <2>4, <2>5 DEF Dies, Ended
<1>6. ServeRefused => Ended("svc") BY OverEnds DEF ServeRefused, Over
<1>7. LoadList(p) /\ wl.kind = "missing" => Ended(p) BY OverEnds DEF LoadList
<1>8. OpenTemp(p) /\ Clash(p, "clash") => Ended(p) BY ClashEnds DEF OpenTemp
<1>9. ReadList(p) /\ "wl" \in temps => Ended(p) BY ClashEnds DEF ReadList
<1>. QED BY <1>1, <1>2, <1>3, <1>4, <1>5, <1>6, <1>7, <1>8, <1>9

-----------------------------------------------------------------------------
(* Every part of the invariant is kept by every step *)

\* The shapes hold after every step.
LEMMA ShapesStep ==
    ASSUME Shapes, Holds, [Next]_vars
    PROVE  Shapes'
<1>1. ASSUME NEW p \in Procs, Start(p) PROVE Shapes'
  BY <1>1, EnrollAssumption DEF Start, CountStart, Goto, Spend, Shapes, Labels
<1>2. ASSUME NEW p \in Procs, Resume(p) PROVE Shapes'
  BY <1>2 DEF Resume, Goto, HasToken, Shapes, Labels
<1>3. ASSUME NEW p \in Procs, Register(p) PROVE Shapes'
  BY <1>3 DEF Register, TakesRequest, Goto, HasToken, Shapes, Labels
<1>4. ASSUME NEW p \in Procs, Conflict(p) PROVE Shapes'
  BY <1>4 DEF Conflict, Goto, HasToken, Shapes, Labels
<1>5. ASSUME NEW p \in Procs, Truncate(p) PROVE Shapes'
  BY <1>5 DEF Truncate, Goto, Shapes, Labels
<1>6. ASSUME NEW p \in Procs, WriteConfig(p) PROVE Shapes'
  <2>. mem[p].token \in Tokens \cup {0} BY DEF Holds, Memory
  <2>. QED BY <1>6 DEF WriteConfig, Goto, Shapes, Labels
<1>7. ASSUME NEW p \in Procs, Approved(p) PROVE Shapes'
  BY <1>7 DEF Approved, Goto, Shapes, Labels
<1>8. ASSUME NEW p \in Procs, PollEnds(p) PROVE Shapes'
  BY <1>8 DEF PollEnds, Over, Goto, Shapes, Labels
<1>9. ASSUME NEW p \in Procs, OpenTemp(p) PROVE Shapes'
  <2>. Head(mem[p].todo) \in Files BY <1>9, NextFile DEF Holds, OpenTemp, Writing, Memory
  <2>1. temps' \subseteq {TempOf[f] : f \in Files} \cup {"wl"}
    <3>1. \/ temps' = temps
          \/ temps' = temps \cup {TempOf[Head(mem[p].todo)]}
      BY <1>9 DEF OpenTemp, Clash
    <3>. QED BY <3>1 DEF Shapes
  <2>2. pc' \in [Procs -> Labels] /\ wlLock' \in Procs \cup {None}
    BY <1>9 DEF OpenTemp, Clash, Goto, Shapes, Labels
  <2>. QED BY <1>9, <2>1, <2>2 DEF OpenTemp, Shapes
<1>10. ASSUME NEW p \in Procs, RenameTemp(p) PROVE Shapes'
  <2>. mem[p].token \in Tokens \cup {0} BY DEF Holds, Memory
  <2>. Head(mem[p].todo) \in Files BY <1>10, NextFile DEF Holds, RenameTemp, Writing, Memory
  <2>. QED BY <1>10 DEF RenameTemp, Goto, Shapes, Labels
<1>11. ASSUME NEW p \in Procs, Repository(p) PROVE Shapes'
  BY <1>11 DEF Repository, Goto, Shapes, Labels
<1>12. ASSUME NEW p \in Procs, LoadList(p) PROVE Shapes'
  BY <1>12 DEF LoadList, Over, Goto, Shapes, Labels
<1>13. ASSUME NEW p \in Procs, LockList(p) PROVE Shapes'
  BY <1>13 DEF LockList, Goto, Shapes, Labels
<1>14. ASSUME NEW p \in Procs, ReadList(p) PROVE Shapes'
  BY <1>14 DEF ReadList, Clash, Goto, Shapes, Labels
<1>15. ASSUME NEW p \in Procs, RenameList(p) PROVE Shapes'
  <2>. mem[p].read \subseteq ManagerIps /\ mem[p].ip \in ManagerIps
    BY <1>15 DEF Holds, RenameList, Memory, Appending
  <2>. QED BY <1>15 DEF RenameList, Goto, Shapes, Labels
<1>16. ASSUME NEW p \in Procs, Done(p) PROVE Shapes'
  BY <1>16 DEF Done, Goto, Shapes, Labels
<1>17. ASSUME NEW p \in Procs, RegisterFails(p) PROVE Shapes'
  BY <1>17 DEF RegisterFails, Over, Goto, Shapes, Labels
<1>18. ASSUME NEW p \in Procs, AnswerLost(p) PROVE Shapes'
  BY <1>18 DEF AnswerLost, TakesRequest, Goto, Shapes, Labels
<1>19. ASSUME NEW p \in Procs, ConfigFails(p) PROVE Shapes'
  BY <1>19 DEF ConfigFails, Goto, Shapes, Labels
<1>20. ASSUME NEW p \in Procs, AskAgain(p) PROVE Shapes'
  BY <1>20 DEF AskAgain, Shapes
<1>21. ASSUME NEW p \in Procs, WriteFails(p) PROVE Shapes'
  BY <1>21 DEF WriteFails, Over, Goto, Shapes, Labels
<1>22. ASSUME NEW p \in Procs, RepositoryFails(p) PROVE Shapes'
  BY <1>22 DEF RepositoryFails, Over, Goto, Shapes, Labels
<1>23. ASSUME NEW p \in Procs, Dies(p) PROVE Shapes'
  BY <1>23 DEF Dies, Over, Goto, Shapes, Labels
<1>24. ASSUME Serve PROVE Shapes'
  BY <1>24 DEF Serve, Goto, Shapes, Labels, Procs
<1>25. ASSUME ServeRefused PROVE Shapes'
  BY <1>25 DEF ServeRefused, Over, Goto, Shapes, Labels, Procs
<1>26. ASSUME NEW t \in Tokens, NEW d \in {"approved", "denied"}, Decide(t, d)
      PROVE  Shapes'
  BY <1>26 DEF Decide, Shapes
<1>27. ASSUME CertExpires PROVE Shapes'
  BY <1>27 DEF CertExpires, Shapes
<1>28. ASSUME StartFails PROVE Shapes'
  BY <1>28, EnrollAssumption DEF StartFails, CountStart, Shapes
<1>29. ASSUME StartLimitHit PROVE Shapes'
  BY <1>29, OtherOne DEF StartLimitHit, Goto, Procs, Labels, Shapes
<1>30. ASSUME NEW t \in Tokens, Purge(t) PROVE Shapes'
  BY <1>30, OtherOne DEF Purge, NotFound, Shapes
<1>31. ASSUME UNCHANGED vars PROVE Shapes'
  BY <1>31 DEF vars, Shapes
<1>. QED
  BY <1>1, <1>2, <1>3, <1>4, <1>5, <1>6, <1>7, <1>8, <1>9, <1>10, <1>11,
     <1>12, <1>13, <1>14, <1>15, <1>16, <1>17, <1>18, <1>19, <1>20, <1>21,
     <1>22, <1>23, <1>24, <1>25, <1>26, <1>27, <1>28, <1>29, <1>30, <1>31
    DEF Next, Steps

\* A process holds what its step needs.
LEMMA HoldsStep ==
    ASSUME Shapes, Holds, [Next]_vars
    PROVE  Holds'
<1>1. ASSUME NEW p \in Procs, Start(p) PROVE Holds'
  <2>. DEFINE r == [mem[p] EXCEPT !.token = cfg.token]
  <2>1. cfg.token \in Tokens \cup {0}
    BY DEF Shapes
  <2>2. r \in Memory /\ r.token = cfg.token
    BY <2>1 DEF Holds, Memory
  <2>3. mem' = [mem EXCEPT ![p] = r]
    BY <1>1 DEF Start
  <2>. HIDE DEF r
  <2>. QED
    BY <1>1, <2>2, <2>3
      DEF Start, Goto, Holds, Shapes, Writing, Appending, Granted, HasOne
<1>2. ASSUME NEW p \in Procs, Resume(p) PROVE Holds'
  BY <1>2
    DEF Resume, Goto, HasToken, Holds, Shapes, Memory, Writing, Appending,
        Granted, HasOne
<1>3. ASSUME NEW p \in Procs, Register(p) PROVE Holds'
  <2>. PICK t \in Tokens : mem' = [mem EXCEPT ![p].token = t]
    BY <1>3 DEF Register
  <2>. DEFINE r == [mem[p] EXCEPT !.token = t]
  <2>1. t \in Tokens \cup {0}
    OBVIOUS
  <2>2. r \in Memory /\ r.token = t
    BY <2>1 DEF Holds, Memory
  <2>3. mem' = [mem EXCEPT ![p] = r]
    OBVIOUS
  <2>. HIDE DEF r
  <2>. QED
    BY <1>3, <2>2, <2>3
      DEF Register, Goto, Holds, Shapes, Writing, Appending, Granted, HasOne
<1>4. ASSUME NEW p \in Procs, Conflict(p) PROVE Holds'
  BY <1>4, BlankMemory
    DEF Conflict, Goto, HasToken, Holds, Shapes, Writing, Appending, Granted,
        HasOne
<1>5. ASSUME NEW p \in Procs, Truncate(p) PROVE Holds'
  BY <1>5
    DEF Truncate, Goto, Holds, Shapes, Memory, Writing, Appending, Granted,
        HasOne
<1>6. ASSUME NEW p \in Procs, WriteConfig(p) PROVE Holds'
  BY <1>6
    DEF WriteConfig, Goto, Holds, Shapes, Memory, Writing, Appending, Granted,
        HasOne
<1>7. ASSUME NEW p \in Procs, Approved(p) PROVE Holds'
  <2>. DEFINE r == [mem[p] EXCEPT !.todo = FilesOf(mem[p].token)]
  <2>1. FilesOf(mem[p].token) \in Remaining
    BY WholeBundle
  <2>2. r \in Memory /\ r.todo = FilesOf(mem[p].token) /\ r.token = mem[p].token
    BY <2>1 DEF Holds, Memory
  <2>3. mem' = [mem EXCEPT ![p] = r]
    BY <1>7 DEF Approved
  <2>. HIDE DEF r
  <2>. QED
    BY <1>7, <2>2, <2>3, WholeBundle
      DEF Approved, Goto, Holds, Shapes, Writing, Appending, Granted, HasOne
<1>8. ASSUME NEW p \in Procs, PollEnds(p) PROVE Holds'
  BY <1>8, BlankMemory
    DEF PollEnds, Over, Goto, Holds, Shapes, Writing, Appending, Granted,
        HasOne
<1>9. ASSUME NEW p \in Procs, OpenTemp(p) PROVE Holds'
  <2>1. CASE UNCHANGED mem
    <3>1. pc[p] = "open" /\ pc' \in {[pc EXCEPT ![p] = "rename"], [pc EXCEPT ![p] = "idle"]}
      BY <1>9 DEF OpenTemp, Clash, Goto
    <3>. QED BY <2>1, <3>1 DEF Holds, Shapes, Writing, Appending, Granted, HasOne
  <2>2. CASE Clash(p, "clash")
    BY <1>9, <2>2, BlankMemory
      DEF Clash, Goto, Holds, Shapes, Writing, Appending, Granted, HasOne
  <2>. QED BY <1>9, <2>1, <2>2 DEF OpenTemp
<1>10. ASSUME NEW p \in Procs, RenameTemp(p) PROVE Holds'
  <2>. DEFINE r == [mem[p] EXCEPT !.todo = Tail(mem[p].todo)]
  <2>1. Tail(mem[p].todo) \in Remaining
    BY <1>10, NextFile DEF RenameTemp, Holds, Memory, Writing
  <2>2. r \in Memory /\ r.todo = Tail(mem[p].todo) /\ r.token = mem[p].token
    BY <2>1 DEF Holds, Memory
  <2>3. mem' = [mem EXCEPT ![p] = r]
    BY <1>10 DEF RenameTemp
  <2>4. Len(mem[p].todo) = 1 <=> r.todo = << >>
    BY <1>10, <2>2, NextFile DEF RenameTemp, Holds, Memory, Writing
  <2>5. /\ pc[p] = "rename"
        /\ pc' = [pc EXCEPT ![p] = IF r.todo = << >> THEN "repo" ELSE "open"]
    BY <1>10, <2>4 DEF RenameTemp, Goto, Shapes
  <2>. HIDE DEF r
  <2>. QED BY <2>2, <2>3, <2>5 DEF Holds, Shapes, Writing, Appending, Granted, HasOne
<1>11. ASSUME NEW p \in Procs, Repository(p) PROVE Holds'
  <2>. PICK i \in ManagerIps : mem' = [mem EXCEPT ![p].ip = i]
    BY <1>11 DEF Repository
  <2>. DEFINE r == [mem[p] EXCEPT !.ip = i]
  <2>1. i \in ManagerIps \cup {0}
    OBVIOUS
  <2>2. r \in Memory /\ r.ip = i /\ r.token = mem[p].token
    BY <2>1 DEF Holds, Memory
  <2>3. mem' = [mem EXCEPT ![p] = r]
    OBVIOUS
  <2>. HIDE DEF r
  <2>. QED
    BY <1>11, <2>2, <2>3
      DEF Repository, Goto, Holds, Shapes, Writing, Appending, Granted, HasOne
<1>12. ASSUME NEW p \in Procs, LoadList(p) PROVE Holds'
  <2>1. CASE UNCHANGED mem /\ pc' = [pc EXCEPT ![p] = "clear"]
    BY <1>12, <2>1 DEF LoadList, Holds, Shapes, Writing, Appending, Granted, HasOne
  <2>2. CASE Over(p, FALSE)
    BY <2>2, BlankMemory DEF Over, Goto, Holds, Shapes, Writing, Appending, Granted, HasOne
  <2>3. CASE /\ mem' = [mem EXCEPT ![p].read = wl.entries]
             /\ pc' = [pc EXCEPT ![p] = "lock"]
    <3>. DEFINE r == [mem[p] EXCEPT !.read = wl.entries]
    <3>1. wl.entries \in SUBSET ManagerIps
      BY DEF Shapes
    <3>2. r \in Memory /\ r.read = wl.entries /\ r.token = mem[p].token /\ r.ip = mem[p].ip
      BY <3>1 DEF Holds, Memory
    <3>3. mem' = [mem EXCEPT ![p] = r]
      BY <2>3
    <3>. HIDE DEF r
    <3>. QED
      BY <1>12, <2>3, <3>2, <3>3
        DEF LoadList, Goto, Holds, Shapes, Writing, Appending, Granted, HasOne
  <2>. QED BY <1>12, <2>1, <2>2, <2>3 DEF LoadList, Goto
<1>13. ASSUME NEW p \in Procs, LockList(p) PROVE Holds'
  BY <1>13
    DEF LockList, Goto, Holds, Shapes, Memory, Writing, Appending, Granted,
        HasOne
<1>14. ASSUME NEW p \in Procs, ReadList(p) PROVE Holds'
  <2>2. CASE Clash(p, "listClash")
    BY <2>2, BlankMemory DEF Clash, Goto, Holds, Shapes, Writing, Appending, Granted, HasOne
  <2>3. CASE /\ mem' = [mem EXCEPT ![p].read = wl.entries]
             /\ pc' = [pc EXCEPT ![p] = "wlRename"]
    <3>. DEFINE r == [mem[p] EXCEPT !.read = wl.entries]
    <3>1. wl.entries \in SUBSET ManagerIps
      BY DEF Shapes
    <3>2. r \in Memory /\ r.read = wl.entries /\ r.token = mem[p].token /\ r.ip = mem[p].ip
      BY <3>1 DEF Holds, Memory
    <3>3. mem' = [mem EXCEPT ![p] = r]
      BY <2>3
    <3>. HIDE DEF r
    <3>. QED
      BY <1>14, <2>3, <3>2, <3>3
        DEF ReadList, Goto, Holds, Shapes, Writing, Appending, Granted, HasOne
  <2>. QED BY <1>14, <2>2, <2>3 DEF ReadList, Goto
<1>15. ASSUME NEW p \in Procs, RenameList(p) PROVE Holds'
  BY <1>15
    DEF RenameList, Goto, Holds, Shapes, Memory, Writing, Appending, Granted,
        HasOne
<1>16. ASSUME NEW p \in Procs, Done(p) PROVE Holds'
  BY <1>16, BlankMemory
    DEF Done, Goto, Holds, Shapes, Writing, Appending, Granted, HasOne
<1>17. ASSUME NEW p \in Procs, RegisterFails(p) PROVE Holds'
  BY <1>17, BlankMemory
    DEF RegisterFails, Over, Goto, Holds, Shapes, Writing, Appending, Granted,
        HasOne
<1>18. ASSUME NEW p \in Procs, AnswerLost(p) PROVE Holds'
  BY <1>18, BlankMemory
    DEF AnswerLost, Goto, Holds, Shapes, Writing, Appending, Granted, HasOne
<1>19. ASSUME NEW p \in Procs, ConfigFails(p) PROVE Holds'
  BY <1>19
    DEF ConfigFails, Goto, Holds, Shapes, Memory, Writing, Appending, Granted,
        HasOne
<1>20. ASSUME NEW p \in Procs, AskAgain(p) PROVE Holds'
  <2>. DEFINE r == [mem[p] EXCEPT !.attempt = mem[p].attempt + 1]
  <2>1. mem[p].attempt + 1 \in 0 .. HardLimit
    BY <1>20, EnrollAssumption DEF AskAgain, Holds, Memory, EffectiveMax
  <2>2. r \in Memory /\ r.attempt = mem[p].attempt + 1 /\ r.token = mem[p].token
    BY <2>1 DEF Holds, Memory
  <2>3. mem' = [mem EXCEPT ![p] = r]
    BY <1>20 DEF AskAgain
  <2>. HIDE DEF r
  <2>. QED
    BY <1>20, <2>2, <2>3
      DEF AskAgain, Holds, Shapes, Writing, Appending, Granted, HasOne
<1>21. ASSUME NEW p \in Procs, WriteFails(p) PROVE Holds'
  BY <1>21, BlankMemory
    DEF WriteFails, Over, Goto, Holds, Shapes, Writing, Appending, Granted,
        HasOne
<1>22. ASSUME NEW p \in Procs, RepositoryFails(p) PROVE Holds'
  BY <1>22, BlankMemory
    DEF RepositoryFails, Over, Goto, Holds, Shapes, Writing, Appending,
        Granted, HasOne
<1>23. ASSUME NEW p \in Procs, Dies(p) PROVE Holds'
  BY <1>23, BlankMemory
    DEF Dies, Over, Goto, Holds, Shapes, Writing, Appending, Granted, HasOne
<1>24. ASSUME Serve PROVE Holds'
  BY <1>24
    DEF Serve, Goto, Holds, Shapes, Procs, Writing, Appending, Granted, HasOne
<1>25. ASSUME ServeRefused PROVE Holds'
  BY <1>25, BlankMemory
    DEF ServeRefused, Over, Goto, Holds, Shapes, Procs, Writing, Appending,
        Granted, HasOne
<1>26. ASSUME NEW t \in Tokens, NEW d \in {"approved", "denied"}, Decide(t, d)
      PROVE  Holds'
  BY <1>26
    DEF Decide, Holds, Shapes, Memory, Writing, Appending, Granted, HasOne
<1>27. ASSUME CertExpires PROVE Holds'
  BY <1>27
    DEF CertExpires, Holds, Shapes, Memory, Writing, Appending, Granted,
        HasOne
<1>28. ASSUME StartFails PROVE Holds'
  BY <1>28, OtherOne DEF StartFails, Holds, Shapes
<1>29. ASSUME StartLimitHit PROVE Holds'
  BY <1>29
    DEF StartLimitHit, Goto, Procs, Holds, Shapes, Writing, Appending, Granted, HasOne
<1>30. ASSUME NEW t \in Tokens, Purge(t) PROVE Holds'
  BY <1>30, OtherOne DEF Purge, Holds, Shapes
<1>31. ASSUME UNCHANGED vars PROVE Holds'
  BY <1>31 DEF vars, Holds, Shapes
<1>. QED
  BY <1>1, <1>2, <1>3, <1>4, <1>5, <1>6, <1>7, <1>8, <1>9, <1>10, <1>11,
     <1>12, <1>13, <1>14, <1>15, <1>16, <1>17, <1>18, <1>19, <1>20, <1>21,
     <1>22, <1>23, <1>24, <1>25, <1>26, <1>27, <1>28, <1>29, <1>30, <1>31
    DEF Next, Steps

\* An end keeps the list and its lock in order.
LEMMA ListEnd ==
    ASSUME Shapes, ListInv, NEW p \in Procs, Ended(p)
    PROVE  ListInv'
BY OtherOne DEF ListInv, AppendsAreKept, Shapes, Ended, Betrays, Traces, None

\* No step loses an append, and none breaks the lock.
LEMMA ListStep ==
    ASSUME Shapes, Holds, ListInv, [Next]_vars
    PROVE  ListInv'
<1>1. ASSUME NEW p \in Procs, Start(p) PROVE ListInv'
  BY <1>1, OtherOne
    DEF Start, Goto, Spend, ListInv, AppendsAreKept, Shapes, Holds
<1>2. ASSUME NEW p \in Procs, Resume(p) PROVE ListInv'
  BY <1>2, OtherOne
    DEF Resume, Goto, HasToken, ListInv, AppendsAreKept, Shapes, Holds
<1>3. ASSUME NEW p \in Procs, Register(p) PROVE ListInv'
  BY <1>3, OtherOne
    DEF Register, Goto, HasToken, ListInv, AppendsAreKept, Shapes, Holds
<1>4. ASSUME NEW p \in Procs, Conflict(p) PROVE ListInv'
  BY <1>4, OtherOne
    DEF Conflict, Goto, HasToken, ListInv, AppendsAreKept, Shapes, Holds
<1>5. ASSUME NEW p \in Procs, Truncate(p) PROVE ListInv'
  BY <1>5, OtherOne DEF Truncate, Goto, ListInv, AppendsAreKept, Shapes, Holds
<1>6. ASSUME NEW p \in Procs, WriteConfig(p) PROVE ListInv'
  BY <1>6, OtherOne
    DEF WriteConfig, Goto, ListInv, AppendsAreKept, Shapes, Holds
<1>7. ASSUME NEW p \in Procs, Approved(p) PROVE ListInv'
  BY <1>7, OtherOne DEF Approved, Goto, ListInv, AppendsAreKept, Shapes, Holds
<1>8. ASSUME NEW p \in Procs, PollEnds(p) PROVE ListInv'
  <2>. QED BY <1>8, Ends, ListEnd
<1>9. ASSUME NEW p \in Procs, OpenTemp(p) PROVE ListInv'
  <2>1. CASE Clash(p, "clash")
    BY <1>9, <2>1, Ends, ListEnd
  <2>3. TempOf[Head(mem[p].todo)] # "wl"
    BY <1>9, NextFile, EnrollAssumption DEF OpenTemp, Holds, Memory, Writing, Files
  <2>2. CASE /\ TempOf[Head(mem[p].todo)] \notin temps
             /\ UNCHANGED <<mem, faults, wlLock, srv>>
    BY <1>9, <2>2, <2>3, OtherOne
      DEF OpenTemp, Goto, ListInv, AppendsAreKept, Shapes, Holds, None
  <2>. QED BY <1>9, <2>1, <2>2 DEF OpenTemp
<1>10. ASSUME NEW p \in Procs, RenameTemp(p) PROVE ListInv'
  <2>1. TempOf[Head(mem[p].todo)] # "wl"
    BY <1>10, NextFile, EnrollAssumption DEF RenameTemp, Holds, Memory, Writing, Files
  <2>2. "wl" \in temps' <=> "wl" \in temps
    BY <1>10, <2>1 DEF RenameTemp
  <2>. QED
    BY <1>10, <2>2, OtherOne
      DEF RenameTemp, Goto, ListInv, AppendsAreKept, Shapes, Holds, Memory
<1>11. ASSUME NEW p \in Procs, Repository(p) PROVE ListInv'
  BY <1>11, OtherOne
    DEF Repository, Goto, ListInv, AppendsAreKept, Shapes, Holds
<1>12. ASSUME NEW p \in Procs, LoadList(p) PROVE ListInv'
  <2>1. CASE wl.kind = "missing"
    BY <1>12, <2>1, Ends, ListEnd
  <2>2. CASE wl.kind = "yaml"
    BY <1>12, <2>2, OtherOne
      DEF LoadList, Goto, ListInv, AppendsAreKept, Shapes, Holds, None
  <2>. QED BY <1>12, <2>1, <2>2 DEF LoadList
<1>13. ASSUME NEW p \in Procs, LockList(p) PROVE ListInv'
  BY <1>13, OtherOne
    DEF LockList, Goto, ListInv, AppendsAreKept, Shapes, Holds, None
<1>14. ASSUME NEW p \in Procs, ReadList(p) PROVE ListInv'
  <2>1. CASE "wl" \in temps
    BY <1>14, <2>1, Ends, ListEnd
  <2>2. CASE "wl" \notin temps
    BY <1>14, <2>2, OtherOne
      DEF ReadList, Goto, ListInv, AppendsAreKept, Shapes, Holds, None, Memory
  <2>. QED BY <1>14, <2>1, <2>2 DEF ReadList
<1>15. ASSUME NEW p \in Procs, RenameList(p) PROVE ListInv'
  BY <1>15, OtherOne
    DEF RenameList, Goto, ListInv, AppendsAreKept, Shapes, Holds, None, Memory
<1>16. ASSUME NEW p \in Procs, Done(p) PROVE ListInv'
  BY <1>16, OtherOne DEF Done, Goto, ListInv, AppendsAreKept, Shapes, Holds
<1>17. ASSUME NEW p \in Procs, RegisterFails(p) PROVE ListInv'
  <2>. QED BY <1>17, Ends, ListEnd
<1>18. ASSUME NEW p \in Procs, AnswerLost(p) PROVE ListInv'
  BY <1>18, OtherOne
    DEF AnswerLost, Goto, ListInv, AppendsAreKept, Shapes, Holds
<1>19. ASSUME NEW p \in Procs, ConfigFails(p) PROVE ListInv'
  BY <1>19, OtherOne
    DEF ConfigFails, Goto, ListInv, AppendsAreKept, Shapes, Holds
<1>20. ASSUME NEW p \in Procs, AskAgain(p) PROVE ListInv'
  BY <1>20, OtherOne DEF AskAgain, ListInv, AppendsAreKept, Shapes, Holds
<1>21. ASSUME NEW p \in Procs, WriteFails(p) PROVE ListInv'
  <2>. QED BY <1>21, Ends, ListEnd
<1>22. ASSUME NEW p \in Procs, RepositoryFails(p) PROVE ListInv'
  <2>. QED BY <1>22, Ends, ListEnd
<1>23. ASSUME NEW p \in Procs, Dies(p) PROVE ListInv'
  <2>. QED BY <1>23, Ends, ListEnd
<1>24. ASSUME Serve PROVE ListInv'
  BY <1>24, OtherOne
    DEF Serve, Goto, ListInv, AppendsAreKept, Shapes, Holds, Procs
<1>25. ASSUME ServeRefused PROVE ListInv'
  <2>. "svc" \in Procs BY DEF Procs
  <2>. QED BY <1>25, Ends, ListEnd
<1>26. ASSUME NEW t \in Tokens, NEW d \in {"approved", "denied"}, Decide(t, d)
      PROVE  ListInv'
  BY <1>26, OtherOne DEF Decide, ListInv, AppendsAreKept, Shapes, Holds
<1>27. ASSUME CertExpires PROVE ListInv'
  BY <1>27, OtherOne DEF CertExpires, ListInv, AppendsAreKept, Shapes, Holds
<1>28. ASSUME StartFails PROVE ListInv'
  BY <1>28, OtherOne DEF StartFails, ListInv, AppendsAreKept, Shapes, Holds
<1>29. ASSUME StartLimitHit PROVE ListInv'
  BY <1>29, OtherOne
    DEF StartLimitHit, Goto, Procs, ListInv, AppendsAreKept,
        Shapes, Holds
<1>30. ASSUME NEW t \in Tokens, Purge(t) PROVE ListInv'
  BY <1>30, OtherOne DEF Purge, ListInv, AppendsAreKept, Shapes, Holds
<1>31. ASSUME UNCHANGED vars PROVE ListInv'
  BY <1>31 DEF vars, ListInv, AppendsAreKept, Shapes, Holds
<1>. QED
  BY <1>1, <1>2, <1>3, <1>4, <1>5, <1>6, <1>7, <1>8, <1>9, <1>10, <1>11,
     <1>12, <1>13, <1>14, <1>15, <1>16, <1>17, <1>18, <1>19, <1>20, <1>21,
     <1>22, <1>23, <1>24, <1>25, <1>26, <1>27, <1>28, <1>29, <1>30, <1>31
    DEF Next, Steps

\* An end leaves at most one process busy.
LEMMA AloneEnd ==
    ASSUME Shapes, AloneInv, NEW p \in Procs, Ended(p)
    PROVE  AloneInv'
BY OtherOne DEF AloneInv, Busy, Shapes, Ended

\* Until enrollments overlap, at most one process is busy.
LEMMA AloneStep ==
    ASSUME Shapes, AloneInv, [Next]_vars
    PROVE  AloneInv'
<1>1. ASSUME NEW p \in Procs, Start(p) PROVE AloneInv'
  BY <1>1, OtherOne DEF Start, Goto, Spend, AloneInv, Busy, Shapes, Labels
<1>2. ASSUME NEW p \in Procs, Resume(p) PROVE AloneInv'
  BY <1>2, OtherOne DEF Resume, Goto, HasToken, AloneInv, Busy, Shapes, Labels
<1>3. ASSUME NEW p \in Procs, Register(p) PROVE AloneInv'
  BY <1>3, OtherOne DEF Register, Goto, HasToken, AloneInv, Busy, Shapes, Labels
<1>4. ASSUME NEW p \in Procs, Conflict(p) PROVE AloneInv'
  BY <1>4, OtherOne DEF Conflict, Goto, HasToken, AloneInv, Busy, Shapes, Labels
<1>5. ASSUME NEW p \in Procs, Truncate(p) PROVE AloneInv'
  BY <1>5, OtherOne DEF Truncate, Goto, AloneInv, Busy, Shapes, Labels
<1>6. ASSUME NEW p \in Procs, WriteConfig(p) PROVE AloneInv'
  BY <1>6, OtherOne DEF WriteConfig, Goto, AloneInv, Busy, Shapes, Labels
<1>7. ASSUME NEW p \in Procs, Approved(p) PROVE AloneInv'
  BY <1>7, OtherOne DEF Approved, Goto, AloneInv, Busy, Shapes, Labels
<1>8. ASSUME NEW p \in Procs, PollEnds(p) PROVE AloneInv'
  <2>. QED BY <1>8, Ends, AloneEnd
<1>9. ASSUME NEW p \in Procs, OpenTemp(p) PROVE AloneInv'
  <2>1. CASE Clash(p, "clash")
    BY <1>9, <2>1, Ends, AloneEnd
  <2>2. CASE /\ TempOf[Head(mem[p].todo)] \notin temps
             /\ UNCHANGED <<mem, faults, wlLock, srv>>
    BY <1>9, <2>2, OtherOne DEF OpenTemp, Goto, AloneInv, Busy, Shapes, Labels
  <2>. QED BY <1>9, <2>1, <2>2 DEF OpenTemp
<1>10. ASSUME NEW p \in Procs, RenameTemp(p) PROVE AloneInv'
  BY <1>10, OtherOne DEF RenameTemp, Goto, AloneInv, Busy, Shapes, Labels
<1>11. ASSUME NEW p \in Procs, Repository(p) PROVE AloneInv'
  BY <1>11, OtherOne DEF Repository, Goto, AloneInv, Busy, Shapes, Labels
<1>12. ASSUME NEW p \in Procs, LoadList(p) PROVE AloneInv'
  <2>1. CASE wl.kind = "missing"
    BY <1>12, <2>1, Ends, AloneEnd
  <2>2. CASE wl.kind = "yaml"
    BY <1>12, <2>2, OtherOne DEF LoadList, Goto, AloneInv, Busy, Shapes, Labels
  <2>. QED BY <1>12, <2>1, <2>2 DEF LoadList
<1>13. ASSUME NEW p \in Procs, LockList(p) PROVE AloneInv'
  BY <1>13, OtherOne DEF LockList, Goto, AloneInv, Busy, Shapes, Labels
<1>14. ASSUME NEW p \in Procs, ReadList(p) PROVE AloneInv'
  <2>1. CASE "wl" \in temps
    BY <1>14, <2>1, Ends, AloneEnd
  <2>2. CASE "wl" \notin temps
    BY <1>14, <2>2, OtherOne DEF ReadList, Goto, AloneInv, Busy, Shapes, Labels
  <2>. QED BY <1>14, <2>1, <2>2 DEF ReadList
<1>15. ASSUME NEW p \in Procs, RenameList(p) PROVE AloneInv'
  BY <1>15, OtherOne DEF RenameList, Goto, AloneInv, Busy, Shapes, Labels
<1>16. ASSUME NEW p \in Procs, Done(p) PROVE AloneInv'
  BY <1>16, OtherOne DEF Done, Goto, AloneInv, Busy, Shapes, Labels
<1>17. ASSUME NEW p \in Procs, RegisterFails(p) PROVE AloneInv'
  <2>. QED BY <1>17, Ends, AloneEnd
<1>18. ASSUME NEW p \in Procs, AnswerLost(p) PROVE AloneInv'
  BY <1>18, OtherOne DEF AnswerLost, Goto, AloneInv, Busy, Shapes, Labels
<1>19. ASSUME NEW p \in Procs, ConfigFails(p) PROVE AloneInv'
  BY <1>19, OtherOne DEF ConfigFails, Goto, AloneInv, Busy, Shapes, Labels
<1>20. ASSUME NEW p \in Procs, AskAgain(p) PROVE AloneInv'
  BY <1>20, OtherOne DEF AskAgain, AloneInv, Busy, Shapes, Labels
<1>21. ASSUME NEW p \in Procs, WriteFails(p) PROVE AloneInv'
  <2>. QED BY <1>21, Ends, AloneEnd
<1>22. ASSUME NEW p \in Procs, RepositoryFails(p) PROVE AloneInv'
  <2>. QED BY <1>22, Ends, AloneEnd
<1>23. ASSUME NEW p \in Procs, Dies(p) PROVE AloneInv'
  <2>. QED BY <1>23, Ends, AloneEnd
<1>24. ASSUME Serve PROVE AloneInv'
  BY <1>24, OtherOne DEF Serve, Goto, AloneInv, Busy, Shapes, Labels
<1>25. ASSUME ServeRefused PROVE AloneInv'
  <2>. "svc" \in Procs BY DEF Procs
  <2>. QED BY <1>25, Ends, AloneEnd
<1>26. ASSUME NEW t \in Tokens, NEW d \in {"approved", "denied"}, Decide(t, d)
      PROVE  AloneInv'
  BY <1>26, OtherOne DEF Decide, AloneInv, Busy, Shapes, Labels
<1>27. ASSUME CertExpires PROVE AloneInv'
  BY <1>27, OtherOne DEF CertExpires, AloneInv, Busy, Shapes, Labels
<1>28. ASSUME StartFails PROVE AloneInv'
  BY <1>28, OtherOne DEF StartFails, AloneInv, Busy, Shapes
<1>29. ASSUME StartLimitHit PROVE AloneInv'
  BY <1>29, OtherOne DEF StartLimitHit, Goto, Procs, AloneInv, Busy, Shapes
<1>30. ASSUME NEW t \in Tokens, Purge(t) PROVE AloneInv'
  BY <1>30, OtherOne DEF Purge, AloneInv, Busy, Shapes
<1>31. ASSUME UNCHANGED vars PROVE AloneInv'
  BY <1>31 DEF vars, AloneInv, Busy, Shapes
<1>. QED
  BY <1>1, <1>2, <1>3, <1>4, <1>5, <1>6, <1>7, <1>8, <1>9, <1>10, <1>11,
     <1>12, <1>13, <1>14, <1>15, <1>16, <1>17, <1>18, <1>19, <1>20, <1>21,
     <1>22, <1>23, <1>24, <1>25, <1>26, <1>27, <1>28, <1>29, <1>30, <1>31
    DEF Next, Steps

\* An end loses no token, or says so.
LEMMA TokenEnd ==
    ASSUME Shapes, Holds, AloneInv, TokenInv, NEW p \in Procs, Ended(p)
    PROVE  TokenInv'
BY OtherOne
  DEF TokenInv, NoTokenLost, ConflictNeedsLoss, Saved, Shapes, Holds,
      AloneInv, Busy, Granted, Writing, Appending, Ended, Betrays, Traces,
      Blank

\* No step loses a token, or it says so.
LEMMA TokenStep ==
    ASSUME Shapes, Holds, AloneInv, TokenInv, [Next]_vars
    PROVE  TokenInv'
<1>1. ASSUME NEW p \in Procs, Start(p) PROVE TokenInv'
  BY <1>1, OtherOne
    DEF Start, Goto, Spend, TokenInv, NoTokenLost, ConflictNeedsLoss, Saved,
        Shapes, Holds, AloneInv, Busy, Granted, Writing, Appending
<1>2. ASSUME NEW p \in Procs, Resume(p) PROVE TokenInv'
  BY <1>2, OtherOne
    DEF Resume, Goto, HasToken, TokenInv, NoTokenLost, ConflictNeedsLoss,
        Saved, Shapes, Holds, AloneInv, Busy, Granted, Writing, Appending
<1>3. ASSUME NEW p \in Procs, Register(p) PROVE TokenInv'
  <2>. PICK t \in Tokens : TakesRequest(t, {}) /\ mem' = [mem EXCEPT ![p].token = t]
    BY <1>3 DEF Register
  <2>1. /\ tokens[t] = "unused"
        /\ \A u \in Tokens : tokens'[u] = IF u = t THEN "pending" ELSE tokens[u]
    BY DEF TakesRequest, FirstUnused, Shapes
  <2>2. mem'[p].token = t /\ \A q \in Procs : q # p => mem'[q] = mem[q]
    BY DEF Holds, Memory
  <2>3. /\ pc[p] = "enroll" /\ pc' = [pc EXCEPT ![p] = "save"]
        /\ UNCHANGED <<cfg, faults, promised>>
    BY <1>3 DEF Register, Goto
  <2>4. \A q \in Procs : pc'[q] \in Granted => tokens'[mem'[q].token] \in {"approved", "purged"}
    BY <2>1, <2>2, <2>3 DEF Shapes, Holds, TokenInv, HasOne, Granted, Writing, Appending
  <2>5. ASSUME NoTokenLost PROVE cfg.kind = "ok" /\ cfg.token = 0
    BY <1>3, <2>5 DEF Register, HasToken, TokenInv
  <2>6. ASSUME NEW u \in Tokens, u = t \/ Saved(u) PROVE Saved(u)'
    BY <2>2, <2>3, <2>6 DEF Saved, Shapes
  <2>7. ASSUME NoTokenLost, promised = {}, NEW u \in Tokens, tokens'[u] \in Asked
        PROVE  Saved(u)'
    BY <2>1, <2>6, <2>7 DEF TokenInv
  <2>8. \A q \in Procs : pc'[q] \in {"clear", "clearing"} => promised' # {}
    BY <2>3 DEF TokenInv, Shapes
  <2>. QED BY <2>2, <2>3, <2>4, <2>5, <2>7, <2>8
    DEF TokenInv, NoTokenLost, ConflictNeedsLoss, Shapes, Granted, Writing, Appending
<1>4. ASSUME NEW p \in Procs, Conflict(p) PROVE TokenInv'
  <2>. PICK t \in Tokens : tokens[t] \in Asked
    BY <1>4 DEF Conflict, Known, Asked
  <2>1. pc[p] = "enroll" /\ mem[p].token = 0 /\ t # 0
    BY <1>4, NoTokenZero DEF Conflict, HasToken
  <2>2. ASSUME NoTokenLost, promised = {} PROVE FALSE
    <3>1. Saved(t) /\ cfg.token = 0
      BY <2>1, <2>2 DEF TokenInv
    <3>2. PICK q \in Procs : pc[q] \in {"save", "saving"}
      BY <2>1, <3>1 DEF Saved
    <3>. QED BY <2>1, <2>2, <3>2, OtherOne DEF AloneInv, Busy, NoTokenLost
  <2>. QED BY <1>4, <2>2
    DEF Conflict, Goto, TokenInv, NoTokenLost, ConflictNeedsLoss, Saved, Shapes, Holds,
        Granted, Writing, Appending
<1>5. ASSUME NEW p \in Procs, Truncate(p) PROVE TokenInv'
  <2>1. /\ \/ pc[p] = "save" /\ pc' = [pc EXCEPT ![p] = "saving"]
           \/ pc[p] = "clear" /\ pc' = [pc EXCEPT ![p] = "clearing"]
        /\ cfg' = [kind |-> "torn", token |-> 0] /\ UNCHANGED <<mem, tokens, faults, promised>>
    BY <1>5 DEF Truncate, Goto
  <2>2. \A q \in Procs : pc'[q] \in Granted => tokens'[mem'[q].token] \in {"approved", "purged"}
    BY <2>1 DEF Shapes, TokenInv, Granted, Writing, Appending
  <2>3. ASSUME NoTokenLost
        PROVE  \A q \in Procs : pc'[q] \notin (Granted \ {"clearing"}) \cup {"enroll", "poll"}
    BY <2>1, <2>3, OtherOne
      DEF Shapes, AloneInv, Busy, NoTokenLost, Granted, Writing, Appending
  <2>4. ASSUME NoTokenLost, promised = {}, NEW t \in Tokens, tokens[t] \in Asked
        PROVE  Saved(t)'
    <3>1. Saved(t)
      BY <2>4 DEF TokenInv
    <3>2. CASE \E q \in Procs : pc[q] \in {"save", "saving"} /\ mem[q].token = t
      BY <2>1, <3>2 DEF Saved, Shapes
    <3>3. CASE cfg.token = t
      <4>1. CASE pc[p] = "save"
        BY <2>1, <2>4, <3>3, <4>1, NoTokenZero DEF TokenInv, Saved, Shapes
      <4>2. CASE pc[p] = "clear"
        BY <2>4, <4>2 DEF TokenInv
      <4>. QED BY <2>1, <4>1, <4>2
    <3>. QED BY <3>1, <3>2, <3>3 DEF Saved
  <2>. QED BY <2>1, <2>2, <2>3, <2>4 DEF TokenInv, NoTokenLost, ConflictNeedsLoss, Shapes
<1>6. ASSUME NEW p \in Procs, WriteConfig(p) PROVE TokenInv'
  <2>1. \/ /\ pc[p] = "saving" /\ pc' = [pc EXCEPT ![p] = "poll"]
           /\ cfg' = [kind |-> "ok", token |-> mem[p].token]
        \/ /\ pc[p] = "clearing" /\ pc' = [pc EXCEPT ![p] = "done"]
           /\ cfg' = [kind |-> "ok", token |-> 0]
    BY <1>6 DEF WriteConfig, Goto
  <2>0. UNCHANGED <<mem, tokens, faults, promised>>
    BY <1>6 DEF WriteConfig
  <2>2. \A q \in Procs : pc'[q] \in Granted => tokens'[mem'[q].token] \in {"approved", "purged"}
    BY <2>0, <2>1 DEF Shapes, TokenInv, Granted, Writing, Appending
  <2>3. ASSUME NoTokenLost
        PROVE  /\ \A q \in Procs :
                     q # p => pc[q] \in {"idle", "serve", "failed"} /\ pc'[q] = pc[q]
               /\ cfg.kind = "torn"
    BY <2>1, <2>3, OtherOne DEF Shapes, AloneInv, Busy, NoTokenLost, TokenInv
  <2>4. ASSUME NoTokenLost, promised = {}, NEW t \in Tokens, tokens[t] \in Asked
        PROVE  Saved(t)'
    <3>1. Saved(t) /\ cfg.kind # "ok"
      BY <2>3, <2>4 DEF TokenInv
    <3>2. PICK q \in Procs : pc[q] \in {"save", "saving"} /\ mem[q].token = t
      BY <3>1 DEF Saved
    <3>. QED BY <2>1, <2>3, <2>4, <3>2 DEF Saved
  <2>. QED BY <2>0, <2>1, <2>2, <2>3, <2>4
    DEF TokenInv, NoTokenLost, ConflictNeedsLoss, Shapes, Granted, Writing, Appending
<1>7. ASSUME NEW p \in Procs, Approved(p) PROVE TokenInv'
  BY <1>7, OtherOne
    DEF Approved, Goto, TokenInv, NoTokenLost, ConflictNeedsLoss, Saved,
        Shapes, Holds, AloneInv, Busy, Granted, Writing, Appending
<1>8. ASSUME NEW p \in Procs, PollEnds(p) PROVE TokenInv'
  <2>. QED BY <1>8, Ends, TokenEnd
<1>9. ASSUME NEW p \in Procs, OpenTemp(p) PROVE TokenInv'
  <2>1. CASE Clash(p, "clash")
    BY <1>9, <2>1, Ends, TokenEnd
  <2>2. CASE /\ TempOf[Head(mem[p].todo)] \notin temps
             /\ UNCHANGED <<mem, faults, wlLock, srv>>
    BY <1>9, <2>2, OtherOne
      DEF OpenTemp, Goto, TokenInv, NoTokenLost, ConflictNeedsLoss, Saved,
          Shapes, Holds, AloneInv, Busy, Granted, Writing, Appending
  <2>. QED BY <1>9, <2>1, <2>2 DEF OpenTemp
<1>10. ASSUME NEW p \in Procs, RenameTemp(p) PROVE TokenInv'
  BY <1>10, OtherOne
    DEF RenameTemp, Goto, TokenInv, NoTokenLost, ConflictNeedsLoss, Saved,
        Shapes, Holds, AloneInv, Busy, Granted, Writing, Appending
<1>11. ASSUME NEW p \in Procs, Repository(p) PROVE TokenInv'
  BY <1>11, OtherOne
    DEF Repository, Goto, TokenInv, NoTokenLost, ConflictNeedsLoss, Saved,
        Shapes, Holds, AloneInv, Busy, Granted, Writing, Appending
<1>12. ASSUME NEW p \in Procs, LoadList(p) PROVE TokenInv'
  <2>1. CASE wl.kind = "missing"
    BY <1>12, <2>1, Ends, TokenEnd
  <2>2. CASE wl.kind = "yaml"
    <3>1. \A q \in Procs : mem'[q].token = mem[q].token
      BY <1>12, <2>2 DEF LoadList, Holds, Memory
    <3>2. /\ pc[p] = "load" /\ UNCHANGED <<cfg, tokens, faults>>
          /\ \/ pc' = [pc EXCEPT ![p] = "clear"] /\ promised' # {}
             \/ pc' = [pc EXCEPT ![p] = "lock"] /\ UNCHANGED promised
          /\ promised \subseteq promised'
      BY <1>12, <2>2 DEF LoadList, Goto
    <3>. QED
      BY <3>1, <3>2, OtherOne
        DEF TokenInv, NoTokenLost, ConflictNeedsLoss, Saved, Shapes, Granted,
            Writing, Appending
  <2>. QED BY <1>12, <2>1, <2>2 DEF LoadList
<1>13. ASSUME NEW p \in Procs, LockList(p) PROVE TokenInv'
  BY <1>13, OtherOne
    DEF LockList, Goto, TokenInv, NoTokenLost, ConflictNeedsLoss, Saved,
        Shapes, Holds, AloneInv, Busy, Granted, Writing, Appending
<1>14. ASSUME NEW p \in Procs, ReadList(p) PROVE TokenInv'
  <2>1. CASE "wl" \in temps
    BY <1>14, <2>1, Ends, TokenEnd
  <2>2. CASE "wl" \notin temps
    <3>1. \A q \in Procs : mem'[q].token = mem[q].token
      BY <1>14, <2>2 DEF ReadList, Holds, Memory
    <3>2. /\ pc[p] = "read" /\ UNCHANGED <<cfg, tokens, faults, promised>>
          /\ pc' = [pc EXCEPT ![p] = "wlRename"]
      BY <1>14, <2>2 DEF ReadList, Goto
    <3>. QED
      BY <3>1, <3>2, OtherOne
        DEF TokenInv, NoTokenLost, ConflictNeedsLoss, Saved, Shapes, Granted,
            Writing, Appending
  <2>. QED BY <1>14, <2>1, <2>2 DEF ReadList
<1>15. ASSUME NEW p \in Procs, RenameList(p) PROVE TokenInv'
  <2>1. /\ pc[p] = "wlRename" /\ pc' = [pc EXCEPT ![p] = "clear"]
        /\ promised' # {} /\ UNCHANGED <<mem, cfg, tokens, faults>>
    BY <1>15 DEF RenameList, Goto
  <2>. QED BY <2>1
    DEF TokenInv, NoTokenLost, ConflictNeedsLoss, Shapes, Granted, Writing, Appending
<1>16. ASSUME NEW p \in Procs, Done(p) PROVE TokenInv'
  BY <1>16, OtherOne
    DEF Done, Goto, TokenInv, NoTokenLost, ConflictNeedsLoss, Saved, Shapes,
        Holds, AloneInv, Busy, Granted, Writing, Appending
<1>17. ASSUME NEW p \in Procs, RegisterFails(p) PROVE TokenInv'
  <2>. QED BY <1>17, Ends, TokenEnd
<1>18. ASSUME NEW p \in Procs, AnswerLost(p) PROVE TokenInv'
  <2>. PICK t \in Tokens : FirstUnused(t) /\ tokens' = [tokens EXCEPT ![t] = "pending"]
    BY <1>18 DEF AnswerLost, TakesRequest
  <2>1. /\ tokens[t] = "unused"
        /\ \A u \in Tokens : tokens'[u] = IF u = t THEN "pending" ELSE tokens[u]
    BY DEF FirstUnused, Shapes
  <2>2. \A q \in Procs : pc'[q] \in Granted => tokens'[mem'[q].token] \in {"approved", "purged"}
    BY <1>18, <2>1
      DEF AnswerLost, Goto, Shapes, Holds, TokenInv, HasOne, Granted, Writing,
          Appending
  <2>. QED BY <1>18, <2>2 DEF AnswerLost, Goto, TokenInv, NoTokenLost, ConflictNeedsLoss, Shapes
<1>19. ASSUME NEW p \in Procs, ConfigFails(p) PROVE TokenInv'
  BY <1>19, OtherOne
    DEF ConfigFails, Goto, TokenInv, NoTokenLost, ConflictNeedsLoss, Saved,
        Shapes, Holds, AloneInv, Busy, Granted, Writing, Appending
<1>20. ASSUME NEW p \in Procs, AskAgain(p) PROVE TokenInv'
  BY <1>20, OtherOne
    DEF AskAgain, TokenInv, NoTokenLost, ConflictNeedsLoss, Saved, Shapes,
        Holds, AloneInv, Busy, Granted, Writing, Appending
<1>21. ASSUME NEW p \in Procs, WriteFails(p) PROVE TokenInv'
  <2>. QED BY <1>21, Ends, TokenEnd
<1>22. ASSUME NEW p \in Procs, RepositoryFails(p) PROVE TokenInv'
  <2>. QED BY <1>22, Ends, TokenEnd
<1>23. ASSUME NEW p \in Procs, Dies(p) PROVE TokenInv'
  <2>. QED BY <1>23, Ends, TokenEnd
<1>24. ASSUME Serve PROVE TokenInv'
  BY <1>24, OtherOne
    DEF Serve, Goto, TokenInv, NoTokenLost, ConflictNeedsLoss, Saved, Shapes,
        Holds, AloneInv, Busy, Granted, Writing, Appending
<1>25. ASSUME ServeRefused PROVE TokenInv'
  <2>. "svc" \in Procs BY DEF Procs
  <2>. QED BY <1>25, Ends, TokenEnd
<1>26. ASSUME NEW t \in Tokens, NEW d \in {"approved", "denied"}, Decide(t, d)
      PROVE  TokenInv'
  BY <1>26, OtherOne
    DEF Decide, Asked, TokenInv, NoTokenLost, ConflictNeedsLoss, Saved, Shapes,
        Holds, AloneInv, Busy, Granted, Writing, Appending
<1>27. ASSUME CertExpires PROVE TokenInv'
  BY <1>27, OtherOne
    DEF CertExpires, TokenInv, NoTokenLost, ConflictNeedsLoss, Saved, Shapes,
        Holds, AloneInv, Busy, Granted, Writing, Appending
<1>28. ASSUME StartFails PROVE TokenInv'
  BY <1>28, OtherOne
    DEF StartFails, TokenInv, NoTokenLost, ConflictNeedsLoss,
        Saved, Shapes, Holds, AloneInv, Busy, Granted, Writing, Appending
<1>29. ASSUME StartLimitHit PROVE TokenInv'
  BY <1>29, OtherOne
    DEF StartLimitHit, Goto, Procs, TokenInv, NoTokenLost,
        ConflictNeedsLoss, Saved, Shapes, Holds, AloneInv, Busy, Granted, Writing,
        Appending
<1>30. ASSUME NEW t \in Tokens, Purge(t) PROVE TokenInv'
  BY <1>30, OtherOne
    DEF Purge, Asked, TokenInv, NoTokenLost, ConflictNeedsLoss, Saved,
        Shapes, Holds, AloneInv, Busy, Granted, Writing, Appending
<1>31. ASSUME UNCHANGED vars PROVE TokenInv'
  BY <1>31
    DEF vars, TokenInv, NoTokenLost, ConflictNeedsLoss, Saved, Shapes, Holds,
        AloneInv, Busy, Granted, Writing, Appending
<1>. QED
  BY <1>1, <1>2, <1>3, <1>4, <1>5, <1>6, <1>7, <1>8, <1>9, <1>10, <1>11,
     <1>12, <1>13, <1>14, <1>15, <1>16, <1>17, <1>18, <1>19, <1>20, <1>21,
     <1>22, <1>23, <1>24, <1>25, <1>26, <1>27, <1>28, <1>29, <1>30, <1>31
    DEF Next, Steps

\* What the rename of one file of a bundle does.
LEMMA RenameEffect ==
    ASSUME Shapes, Holds, NEW p \in Procs, RenameTemp(p)
    PROVE  LET f == Head(mem[p].todo)
           IN  /\ pc[p] = "rename" /\ mem[p].token \in Tokens /\ f \in Files
               /\ pem' = [pem EXCEPT ![f] = mem[p].token] /\ UNCHANGED <<faults, wl>>
               /\ mem'[p].token = mem[p].token
               /\ \A q \in Procs : q # p => mem'[q] = mem[q] /\ pc'[q] = pc[q]
               /\ f = "ca" => pc'[p] = "open" /\ Head(mem'[p].todo) = "cert"
               /\ f = "cert" => pc'[p] = "open" /\ Head(mem'[p].todo) = "key"
               /\ f = "key" => pc'[p] = "repo" \/ (pc'[p] = "open" /\ mem'[p].todo = <<"crl">>)
               /\ f = "crl" => pc'[p] = "repo"
               /\ mem[p].todo = <<"crl">> <=> f = "crl"
<1>1. pc[p] = "rename" /\ mem[p].todo \in Remaining /\ mem[p].todo # << >>
  BY DEF RenameTemp, Holds, Memory, Writing
<1>2. /\ mem'[p].todo = Tail(mem[p].todo) /\ mem'[p].token = mem[p].token
      /\ \A q \in Procs : q # p => mem'[q] = mem[q] /\ pc'[q] = pc[q]
      /\ pc'[p] = IF Len(mem[p].todo) = 1 THEN "repo" ELSE "open"
  BY DEF RenameTemp, Goto, Holds, Memory, Shapes
<1>3. mem[p].token \in Tokens
  BY <1>1 DEF Holds, HasOne, Granted, Writing
<1>4. /\ pem' = [pem EXCEPT ![Head(mem[p].todo)] = mem[p].token]
      /\ UNCHANGED <<faults, wl>>
  BY DEF RenameTemp
<1>5. (Len(mem[p].todo) = 1) <=> (mem'[p].todo = << >>)
  BY <1>1, <1>2, NextFile
<1>6. LET f == Head(mem[p].todo)
      IN  /\ f \in Files
          /\ f = "ca" => mem'[p].todo # << >> /\ Head(mem'[p].todo) = "cert"
          /\ f = "cert" => mem'[p].todo # << >> /\ Head(mem'[p].todo) = "key"
          /\ f = "key" => mem'[p].todo = << >> \/ mem'[p].todo = <<"crl">>
          /\ f = "crl" => mem'[p].todo = << >>
          /\ mem[p].todo = <<"crl">> <=> f = "crl"
  BY <1>1, <1>2, NextFile
<1>. QED BY <1>1, <1>2, <1>3, <1>4, <1>5, <1>6

\* An end keeps a bundle whole, or says so.
LEMMA BundleEnd ==
    ASSUME Shapes, Holds, AloneInv, BundleInv, NEW p \in Procs, Ended(p)
    PROVE  BundleInv'
BY OtherOne
  DEF BundleInv, NoBundleCut, Midway, Shapes, Holds, Writing, Ended, Betrays

\* No step mixes two bundles, or it says so.
LEMMA BundleStep ==
    ASSUME Shapes, Holds, AloneInv, BundleInv, [Next]_vars
    PROVE  BundleInv'
<1>1. ASSUME NEW p \in Procs, Start(p) PROVE BundleInv'
  BY <1>1, OtherOne
    DEF Start, Goto, Spend, BundleInv, NoBundleCut, Midway, Shapes, Holds,
        Writing
<1>2. ASSUME NEW p \in Procs, Resume(p) PROVE BundleInv'
  BY <1>2, OtherOne
    DEF Resume, Goto, HasToken, BundleInv, NoBundleCut, Midway, Shapes, Holds,
        Writing
<1>3. ASSUME NEW p \in Procs, Register(p) PROVE BundleInv'
  BY <1>3, OtherOne
    DEF Register, Goto, HasToken, BundleInv, NoBundleCut, Midway, Shapes,
        Holds, Writing
<1>4. ASSUME NEW p \in Procs, Conflict(p) PROVE BundleInv'
  BY <1>4, OtherOne
    DEF Conflict, Goto, HasToken, BundleInv, NoBundleCut, Midway, Shapes,
        Holds, Writing
<1>5. ASSUME NEW p \in Procs, Truncate(p) PROVE BundleInv'
  BY <1>5, OtherOne
    DEF Truncate, Goto, BundleInv, NoBundleCut, Midway, Shapes, Holds, Writing
<1>6. ASSUME NEW p \in Procs, WriteConfig(p) PROVE BundleInv'
  BY <1>6, OtherOne
    DEF WriteConfig, Goto, BundleInv, NoBundleCut, Midway, Shapes, Holds,
        Writing
<1>7. ASSUME NEW p \in Procs, Approved(p) PROVE BundleInv'
  <2>1. /\ mem'[p].todo = FilesOf(mem[p].token)
        /\ \A q \in Procs : q # p => mem'[q] = mem[q] /\ pc'[q] = pc[q]
    BY <1>7 DEF Approved, Goto, Holds, Memory, Shapes
  <2>2. ~ Midway(p) /\ ~ Midway(p)'
    BY <1>7, <2>1, WholeBundle DEF Approved, Midway, Writing
  <2>3. \A q \in Procs : q # p => (Midway(q)' <=> Midway(q))
    BY <2>1 DEF Midway
  <2>. QED BY <1>7, <2>1, <2>2, <2>3 DEF Approved, BundleInv, NoBundleCut
<1>8. ASSUME NEW p \in Procs, PollEnds(p) PROVE BundleInv'
  <2>. QED BY <1>8, Ends, BundleEnd
<1>9. ASSUME NEW p \in Procs, OpenTemp(p) PROVE BundleInv'
  <2>1. CASE Clash(p, "clash")
    BY <1>9, <2>1, Ends, BundleEnd
  <2>2. CASE /\ TempOf[Head(mem[p].todo)] \notin temps
             /\ UNCHANGED <<mem, faults, wlLock, srv>>
    BY <1>9, <2>2, OtherOne
      DEF OpenTemp, Goto, BundleInv, NoBundleCut, Midway, Shapes, Holds, Writing
  <2>. QED BY <1>9, <2>1, <2>2 DEF OpenTemp
<1>10. ASSUME NEW p \in Procs, RenameTemp(p) PROVE BundleInv'
  <2>. DEFINE f == Head(mem[p].todo)
  <2>1. /\ pc[p] = "rename" /\ f \in Files /\ pem' = [pem EXCEPT ![f] = mem[p].token]
        /\ mem'[p].token = mem[p].token /\ faults' = faults
    BY <1>10, RenameEffect
  <2>2. /\ f = "ca" => Midway(p)' /\ Head(mem'[p].todo) = "cert"
        /\ f = "cert" => Midway(p)' /\ Head(mem'[p].todo) = "key"
        /\ f = "key" => ~ Midway(p)' \/ (Midway(p)' /\ Head(mem'[p].todo) = "crl")
        /\ f = "crl" => ~ Midway(p)'
        /\ f # "ca" => Midway(p)
    BY <1>10, RenameEffect DEF Midway, Writing
  <2>3. ASSUME NoBundleCut, NEW q \in Procs, q # p PROVE ~ Midway(q) /\ ~ Midway(q)'
    BY <1>10, <2>1, <2>3, RenameEffect, OtherOne
      DEF NoBundleCut, AloneInv, Busy, Midway, Writing
  <2>. HIDE DEF f
  <2>4. f = Head(mem[p].todo) BY DEF f
  <2>5. f = "ca" => BundleInv'
    BY <2>1, <2>2, <2>3 DEF BundleInv, NoBundleCut, Shapes, Files
  <2>6. f = "cert" => BundleInv'
    BY <2>1, <2>2, <2>3, <2>4 DEF BundleInv, NoBundleCut, Shapes, Files
  <2>7. f \in {"key", "crl"} => BundleInv'
    BY <2>1, <2>2, <2>3, <2>4 DEF BundleInv, NoBundleCut, Shapes, Files
  <2>. QED BY <2>1, <2>5, <2>6, <2>7 DEF Files
<1>11. ASSUME NEW p \in Procs, Repository(p) PROVE BundleInv'
  BY <1>11, OtherOne
    DEF Repository, Goto, BundleInv, NoBundleCut, Midway, Shapes, Holds,
        Writing
<1>12. ASSUME NEW p \in Procs, LoadList(p) PROVE BundleInv'
  <2>1. CASE wl.kind = "missing"
    BY <1>12, <2>1, Ends, BundleEnd
  <2>2. CASE wl.kind = "yaml"
    BY <1>12, <2>2, OtherOne
      DEF LoadList, Goto, BundleInv, NoBundleCut, Midway, Shapes, Holds, Writing
  <2>. QED BY <1>12, <2>1, <2>2 DEF LoadList
<1>13. ASSUME NEW p \in Procs, LockList(p) PROVE BundleInv'
  BY <1>13, OtherOne
    DEF LockList, Goto, BundleInv, NoBundleCut, Midway, Shapes, Holds, Writing
<1>14. ASSUME NEW p \in Procs, ReadList(p) PROVE BundleInv'
  <2>1. CASE "wl" \in temps
    BY <1>14, <2>1, Ends, BundleEnd
  <2>2. CASE "wl" \notin temps
    BY <1>14, <2>2, OtherOne
      DEF ReadList, Goto, BundleInv, NoBundleCut, Midway, Shapes, Holds, Writing
  <2>. QED BY <1>14, <2>1, <2>2 DEF ReadList
<1>15. ASSUME NEW p \in Procs, RenameList(p) PROVE BundleInv'
  BY <1>15, OtherOne
    DEF RenameList, Goto, BundleInv, NoBundleCut, Midway, Shapes, Holds,
        Writing
<1>16. ASSUME NEW p \in Procs, Done(p) PROVE BundleInv'
  BY <1>16, OtherOne
    DEF Done, Goto, BundleInv, NoBundleCut, Midway, Shapes, Holds, Writing
<1>17. ASSUME NEW p \in Procs, RegisterFails(p) PROVE BundleInv'
  <2>. QED BY <1>17, Ends, BundleEnd
<1>18. ASSUME NEW p \in Procs, AnswerLost(p) PROVE BundleInv'
  BY <1>18, OtherOne
    DEF AnswerLost, Goto, BundleInv, NoBundleCut, Midway, Shapes, Holds,
        Writing
<1>19. ASSUME NEW p \in Procs, ConfigFails(p) PROVE BundleInv'
  BY <1>19, OtherOne
    DEF ConfigFails, Goto, BundleInv, NoBundleCut, Midway, Shapes, Holds,
        Writing
<1>20. ASSUME NEW p \in Procs, AskAgain(p) PROVE BundleInv'
  BY <1>20, OtherOne
    DEF AskAgain, BundleInv, NoBundleCut, Midway, Shapes, Holds, Writing
<1>21. ASSUME NEW p \in Procs, WriteFails(p) PROVE BundleInv'
  <2>. QED BY <1>21, Ends, BundleEnd
<1>22. ASSUME NEW p \in Procs, RepositoryFails(p) PROVE BundleInv'
  <2>. QED BY <1>22, Ends, BundleEnd
<1>23. ASSUME NEW p \in Procs, Dies(p) PROVE BundleInv'
  <2>. QED BY <1>23, Ends, BundleEnd
<1>24. ASSUME Serve PROVE BundleInv'
  BY <1>24, OtherOne
    DEF Serve, Goto, BundleInv, NoBundleCut, Midway, Shapes, Holds, Writing
<1>25. ASSUME ServeRefused PROVE BundleInv'
  <2>. "svc" \in Procs BY DEF Procs
  <2>. QED BY <1>25, Ends, BundleEnd
<1>26. ASSUME NEW t \in Tokens, NEW d \in {"approved", "denied"}, Decide(t, d)
      PROVE  BundleInv'
  BY <1>26, OtherOne
    DEF Decide, BundleInv, NoBundleCut, Midway, Shapes, Holds, Writing
<1>27. ASSUME CertExpires PROVE BundleInv'
  BY <1>27, OtherOne
    DEF CertExpires, BundleInv, NoBundleCut, Midway, Shapes, Holds, Writing
<1>28. ASSUME StartFails PROVE BundleInv'
  BY <1>28, OtherOne
    DEF StartFails, BundleInv, NoBundleCut, Midway, Shapes,
        Holds, Writing
<1>29. ASSUME StartLimitHit PROVE BundleInv'
  BY <1>29, OtherOne
    DEF StartLimitHit, Goto, Procs, BundleInv, NoBundleCut,
        Midway, Shapes, Holds, Writing
<1>30. ASSUME NEW t \in Tokens, Purge(t) PROVE BundleInv'
  BY <1>30, OtherOne
    DEF Purge, BundleInv, NoBundleCut, Midway, Shapes, Holds,
        Writing
<1>31. ASSUME UNCHANGED vars PROVE BundleInv'
  BY <1>31 DEF vars, BundleInv, NoBundleCut, Midway, Shapes, Holds, Writing
<1>. QED
  BY <1>1, <1>2, <1>3, <1>4, <1>5, <1>6, <1>7, <1>8, <1>9, <1>10, <1>11,
     <1>12, <1>13, <1>14, <1>15, <1>16, <1>17, <1>18, <1>19, <1>20, <1>21,
     <1>22, <1>23, <1>24, <1>25, <1>26, <1>27, <1>28, <1>29, <1>30, <1>31
    DEF Next, Steps

\* An end between key and allow list says so.
LEMMA AllowedEnd ==
    ASSUME Shapes, Holds, ListInv, AllowedInv, NEW p \in Procs, Ended(p)
    PROVE  AllowedInv'
BY OtherOne
  DEF AllowedInv, NoneCutBetween, Between, Shapes, Holds, Writing, Appending,
      Ended, Betrays

\* A key on disk means an allow list with a manager.
LEMMA AllowedStep ==
    ASSUME Shapes, Holds, ListInv, AllowedInv, [Next]_vars
    PROVE  AllowedInv'
<1>1. ASSUME NEW p \in Procs, Start(p) PROVE AllowedInv'
  BY <1>1, OtherOne
    DEF Start, Goto, Spend, AllowedInv, NoneCutBetween, Between, Shapes,
        Holds, Writing, Appending
<1>2. ASSUME NEW p \in Procs, Resume(p) PROVE AllowedInv'
  BY <1>2, OtherOne
    DEF Resume, Goto, HasToken, AllowedInv, NoneCutBetween, Between, Shapes,
        Holds, Writing, Appending
<1>3. ASSUME NEW p \in Procs, Register(p) PROVE AllowedInv'
  BY <1>3, OtherOne
    DEF Register, Goto, HasToken, AllowedInv, NoneCutBetween, Between, Shapes,
        Holds, Writing, Appending
<1>4. ASSUME NEW p \in Procs, Conflict(p) PROVE AllowedInv'
  BY <1>4, OtherOne
    DEF Conflict, Goto, HasToken, AllowedInv, NoneCutBetween, Between, Shapes,
        Holds, Writing, Appending
<1>5. ASSUME NEW p \in Procs, Truncate(p) PROVE AllowedInv'
  BY <1>5, OtherOne
    DEF Truncate, Goto, AllowedInv, NoneCutBetween, Between, Shapes, Holds,
        Writing, Appending
<1>6. ASSUME NEW p \in Procs, WriteConfig(p) PROVE AllowedInv'
  BY <1>6, OtherOne
    DEF WriteConfig, Goto, AllowedInv, NoneCutBetween, Between, Shapes, Holds,
        Writing, Appending
<1>7. ASSUME NEW p \in Procs, Approved(p) PROVE AllowedInv'
  BY <1>7, OtherOne
    DEF Approved, Goto, AllowedInv, NoneCutBetween, Between, Shapes, Holds,
        Writing, Appending
<1>8. ASSUME NEW p \in Procs, PollEnds(p) PROVE AllowedInv'
  <2>. QED BY <1>8, Ends, AllowedEnd
<1>9. ASSUME NEW p \in Procs, OpenTemp(p) PROVE AllowedInv'
  <2>1. CASE Clash(p, "clash")
    BY <1>9, <2>1, Ends, AllowedEnd
  <2>2. CASE /\ TempOf[Head(mem[p].todo)] \notin temps
             /\ UNCHANGED <<mem, faults, wlLock, srv>>
    BY <1>9, <2>2, OtherOne
      DEF OpenTemp, Goto, AllowedInv, NoneCutBetween, Between, Shapes, Holds,
          Writing, Appending
  <2>. QED BY <1>9, <2>1, <2>2 DEF OpenTemp
<1>10. ASSUME NEW p \in Procs, RenameTemp(p) PROVE AllowedInv'
  <2>. DEFINE f == Head(mem[p].todo)
  <2>1. f \in {"key", "crl"} => Between(p)'
    BY <1>10, RenameEffect DEF Between, Writing
  <2>2. f \in {"ca", "cert"} => pem'["key"] = pem["key"] /\ ~ Between(p)
    BY <1>10, RenameEffect DEF Between, Writing, Appending, Files, Shapes
  <2>3. \A q \in Procs : q # p => (Between(q)' <=> Between(q))
    BY <1>10, RenameEffect DEF Between
  <2>4. f \in Files /\ UNCHANGED <<faults, wl>>
    BY <1>10, RenameEffect
  <2>. HIDE DEF f
  <2>. QED BY <2>1, <2>2, <2>3, <2>4 DEF AllowedInv, NoneCutBetween, Files
<1>11. ASSUME NEW p \in Procs, Repository(p) PROVE AllowedInv'
  BY <1>11, OtherOne
    DEF Repository, Goto, AllowedInv, NoneCutBetween, Between, Shapes, Holds,
        Writing, Appending
<1>12. ASSUME NEW p \in Procs, LoadList(p) PROVE AllowedInv'
  <2>1. CASE wl.kind = "missing"
    BY <1>12, <2>1, Ends, AllowedEnd
  <2>2. CASE wl.kind = "yaml"
    BY <1>12, <2>2, OtherOne
      DEF LoadList, Goto, AllowedInv, NoneCutBetween, Between, Shapes, Holds,
          Writing, Appending
  <2>. QED BY <1>12, <2>1, <2>2 DEF LoadList
<1>13. ASSUME NEW p \in Procs, LockList(p) PROVE AllowedInv'
  BY <1>13, OtherOne
    DEF LockList, Goto, AllowedInv, NoneCutBetween, Between, Shapes, Holds,
        Writing, Appending
<1>14. ASSUME NEW p \in Procs, ReadList(p) PROVE AllowedInv'
  <2>1. CASE "wl" \in temps
    BY <1>14, <2>1, Ends, AllowedEnd
  <2>2. CASE "wl" \notin temps
    BY <1>14, <2>2, OtherOne
      DEF ReadList, Goto, AllowedInv, NoneCutBetween, Between, Shapes, Holds,
          Writing, Appending
  <2>. QED BY <1>14, <2>1, <2>2 DEF ReadList
<1>15. ASSUME NEW p \in Procs, RenameList(p) PROVE AllowedInv'
  <2>1. wl.kind = "yaml" /\ wl' = [wl EXCEPT !.entries = mem[p].read \cup {mem[p].ip}]
    BY <1>15 DEF RenameList, ListInv
  <2>2. wl'.kind = "yaml" /\ mem[p].ip \in wl'.entries
    BY <2>1 DEF Shapes
  <2>. QED BY <2>2 DEF AllowedInv
<1>16. ASSUME NEW p \in Procs, Done(p) PROVE AllowedInv'
  BY <1>16, OtherOne
    DEF Done, Goto, AllowedInv, NoneCutBetween, Between, Shapes, Holds,
        Writing, Appending
<1>17. ASSUME NEW p \in Procs, RegisterFails(p) PROVE AllowedInv'
  <2>. QED BY <1>17, Ends, AllowedEnd
<1>18. ASSUME NEW p \in Procs, AnswerLost(p) PROVE AllowedInv'
  BY <1>18, OtherOne
    DEF AnswerLost, Goto, AllowedInv, NoneCutBetween, Between, Shapes, Holds,
        Writing, Appending
<1>19. ASSUME NEW p \in Procs, ConfigFails(p) PROVE AllowedInv'
  BY <1>19, OtherOne
    DEF ConfigFails, Goto, AllowedInv, NoneCutBetween, Between, Shapes, Holds,
        Writing, Appending
<1>20. ASSUME NEW p \in Procs, AskAgain(p) PROVE AllowedInv'
  BY <1>20, OtherOne
    DEF AskAgain, AllowedInv, NoneCutBetween, Between, Shapes, Holds, Writing,
        Appending
<1>21. ASSUME NEW p \in Procs, WriteFails(p) PROVE AllowedInv'
  <2>. QED BY <1>21, Ends, AllowedEnd
<1>22. ASSUME NEW p \in Procs, RepositoryFails(p) PROVE AllowedInv'
  <2>. QED BY <1>22, Ends, AllowedEnd
<1>23. ASSUME NEW p \in Procs, Dies(p) PROVE AllowedInv'
  <2>. QED BY <1>23, Ends, AllowedEnd
<1>24. ASSUME Serve PROVE AllowedInv'
  BY <1>24, OtherOne
    DEF Serve, Goto, AllowedInv, NoneCutBetween, Between, Shapes, Holds,
        Writing, Appending
<1>25. ASSUME ServeRefused PROVE AllowedInv'
  <2>. "svc" \in Procs BY DEF Procs
  <2>. QED BY <1>25, Ends, AllowedEnd
<1>26. ASSUME NEW t \in Tokens, NEW d \in {"approved", "denied"}, Decide(t, d)
      PROVE  AllowedInv'
  BY <1>26, OtherOne
    DEF Decide, AllowedInv, NoneCutBetween, Between, Shapes, Holds, Writing,
        Appending
<1>27. ASSUME CertExpires PROVE AllowedInv'
  BY <1>27, OtherOne
    DEF CertExpires, AllowedInv, NoneCutBetween, Between, Shapes, Holds,
        Writing, Appending
<1>28. ASSUME StartFails PROVE AllowedInv'
  BY <1>28, OtherOne
    DEF StartFails, AllowedInv, NoneCutBetween, Between,
        Shapes, Holds, Writing, Appending
<1>29. ASSUME StartLimitHit PROVE AllowedInv'
  BY <1>29, OtherOne
    DEF StartLimitHit, Goto, Procs, AllowedInv, NoneCutBetween,
        Between, Shapes, Holds, Writing, Appending
<1>30. ASSUME NEW t \in Tokens, Purge(t) PROVE AllowedInv'
  BY <1>30, OtherOne
    DEF Purge, AllowedInv, NoneCutBetween, Between, Shapes,
        Holds, Writing, Appending
<1>31. ASSUME UNCHANGED vars PROVE AllowedInv'
  BY <1>31
    DEF vars, AllowedInv, NoneCutBetween, Between, Shapes, Holds, Writing,
        Appending
<1>. QED
  BY <1>1, <1>2, <1>3, <1>4, <1>5, <1>6, <1>7, <1>8, <1>9, <1>10, <1>11,
     <1>12, <1>13, <1>14, <1>15, <1>16, <1>17, <1>18, <1>19, <1>20, <1>21,
     <1>22, <1>23, <1>24, <1>25, <1>26, <1>27, <1>28, <1>29, <1>30, <1>31
    DEF Next, Steps

\* The service that ends serves nothing.
LEMMA ServesEnd ==
    ASSUME Shapes, Holds, AloneInv, BundleInv, ServesWhole, NEW p \in Procs, Ended(p)
    PROVE  ServesWhole'
BY OtherOne DEF ServesWhole, Shapes, Ended, Procs

\* What the service has loaded is of one bundle, or a fault is on record.
LEMMA ServesStep ==
    ASSUME Shapes, Holds, AloneInv, BundleInv, ServesWhole, [Next]_vars
    PROVE  ServesWhole'
<1>1. ASSUME NEW p \in Procs, Start(p) PROVE ServesWhole'
  BY <1>1, OtherOne DEF Start, Goto, Spend, ServesWhole, Shapes
<1>2. ASSUME NEW p \in Procs, Resume(p) PROVE ServesWhole'
  BY <1>2, OtherOne DEF Resume, Goto, HasToken, ServesWhole, Shapes
<1>3. ASSUME NEW p \in Procs, Register(p) PROVE ServesWhole'
  BY <1>3, OtherOne DEF Register, Goto, HasToken, ServesWhole, Shapes
<1>4. ASSUME NEW p \in Procs, Conflict(p) PROVE ServesWhole'
  BY <1>4, OtherOne DEF Conflict, Goto, HasToken, ServesWhole, Shapes
<1>5. ASSUME NEW p \in Procs, Truncate(p) PROVE ServesWhole'
  BY <1>5, OtherOne DEF Truncate, Goto, ServesWhole, Shapes
<1>6. ASSUME NEW p \in Procs, WriteConfig(p) PROVE ServesWhole'
  BY <1>6, OtherOne DEF WriteConfig, Goto, ServesWhole, Shapes
<1>7. ASSUME NEW p \in Procs, Approved(p) PROVE ServesWhole'
  BY <1>7, OtherOne DEF Approved, Goto, ServesWhole, Shapes
<1>8. ASSUME NEW p \in Procs, PollEnds(p) PROVE ServesWhole'
  <2>. QED BY <1>8, Ends, ServesEnd
<1>9. ASSUME NEW p \in Procs, OpenTemp(p) PROVE ServesWhole'
  <2>1. CASE Clash(p, "clash")
    BY <1>9, <2>1, Ends, ServesEnd
  <2>2. CASE /\ TempOf[Head(mem[p].todo)] \notin temps
             /\ UNCHANGED <<mem, faults, wlLock, srv>>
    BY <1>9, <2>2, OtherOne DEF OpenTemp, Goto, ServesWhole, Shapes
  <2>. QED BY <1>9, <2>1, <2>2 DEF OpenTemp
<1>10. ASSUME NEW p \in Procs, RenameTemp(p) PROVE ServesWhole'
  BY <1>10, OtherOne DEF RenameTemp, Goto, ServesWhole, Shapes
<1>11. ASSUME NEW p \in Procs, Repository(p) PROVE ServesWhole'
  BY <1>11, OtherOne DEF Repository, Goto, ServesWhole, Shapes
<1>12. ASSUME NEW p \in Procs, LoadList(p) PROVE ServesWhole'
  <2>1. CASE wl.kind = "missing"
    BY <1>12, <2>1, Ends, ServesEnd
  <2>2. CASE wl.kind = "yaml"
    BY <1>12, <2>2, OtherOne DEF LoadList, Goto, ServesWhole, Shapes
  <2>. QED BY <1>12, <2>1, <2>2 DEF LoadList
<1>13. ASSUME NEW p \in Procs, LockList(p) PROVE ServesWhole'
  BY <1>13, OtherOne DEF LockList, Goto, ServesWhole, Shapes
<1>14. ASSUME NEW p \in Procs, ReadList(p) PROVE ServesWhole'
  <2>1. CASE "wl" \in temps
    BY <1>14, <2>1, Ends, ServesEnd
  <2>2. CASE "wl" \notin temps
    BY <1>14, <2>2, OtherOne DEF ReadList, Goto, ServesWhole, Shapes
  <2>. QED BY <1>14, <2>1, <2>2 DEF ReadList
<1>15. ASSUME NEW p \in Procs, RenameList(p) PROVE ServesWhole'
  BY <1>15, OtherOne DEF RenameList, Goto, ServesWhole, Shapes
<1>16. ASSUME NEW p \in Procs, Done(p) PROVE ServesWhole'
  BY <1>16, OtherOne DEF Done, Goto, ServesWhole, Shapes
<1>17. ASSUME NEW p \in Procs, RegisterFails(p) PROVE ServesWhole'
  <2>. QED BY <1>17, Ends, ServesEnd
<1>18. ASSUME NEW p \in Procs, AnswerLost(p) PROVE ServesWhole'
  BY <1>18, OtherOne DEF AnswerLost, Goto, ServesWhole, Shapes
<1>19. ASSUME NEW p \in Procs, ConfigFails(p) PROVE ServesWhole'
  BY <1>19, OtherOne DEF ConfigFails, Goto, ServesWhole, Shapes
<1>20. ASSUME NEW p \in Procs, AskAgain(p) PROVE ServesWhole'
  BY <1>20, OtherOne DEF AskAgain, ServesWhole, Shapes
<1>21. ASSUME NEW p \in Procs, WriteFails(p) PROVE ServesWhole'
  <2>. QED BY <1>21, Ends, ServesEnd
<1>22. ASSUME NEW p \in Procs, RepositoryFails(p) PROVE ServesWhole'
  <2>. QED BY <1>22, Ends, ServesEnd
<1>23. ASSUME NEW p \in Procs, Dies(p) PROVE ServesWhole'
  <2>. QED BY <1>23, Ends, ServesEnd
<1>24. ASSUME Serve PROVE ServesWhole'
  <2>1. /\ pc["svc"] = "boot" /\ pem["cert"] = pem["key"] /\ faults' = faults
        /\ srv'.ca = pem["ca"] /\ srv'.cert = pem["cert"] /\ srv'.key = pem["key"]
    BY <1>24 DEF Serve, CanServe
  <2>2. NoBundleCut => pem["ca"] = pem["cert"]
    BY <2>1, OtherOne DEF BundleInv, NoBundleCut, AloneInv, Busy, Midway, Writing
  <2>. QED BY <2>1, <2>2 DEF ServesWhole, NoBundleCut
<1>25. ASSUME ServeRefused PROVE ServesWhole'
  <2>. "svc" \in Procs BY DEF Procs
  <2>. QED BY <1>25, Ends, ServesEnd
<1>26. ASSUME NEW t \in Tokens, NEW d \in {"approved", "denied"}, Decide(t, d)
      PROVE  ServesWhole'
  BY <1>26, OtherOne DEF Decide, ServesWhole, Shapes
<1>27. ASSUME CertExpires PROVE ServesWhole'
  BY <1>27, OtherOne DEF CertExpires, ServesWhole, Shapes
<1>28. ASSUME StartFails PROVE ServesWhole'
  BY <1>28, OtherOne DEF StartFails, ServesWhole, Shapes
<1>29. ASSUME StartLimitHit PROVE ServesWhole'
  BY <1>29, OtherOne DEF StartLimitHit, Goto, Procs, ServesWhole, Shapes
<1>30. ASSUME NEW t \in Tokens, Purge(t) PROVE ServesWhole'
  BY <1>30, OtherOne DEF Purge, ServesWhole, Shapes
<1>31. ASSUME UNCHANGED vars PROVE ServesWhole'
  BY <1>31 DEF vars, ServesWhole, Shapes
<1>. QED
  BY <1>1, <1>2, <1>3, <1>4, <1>5, <1>6, <1>7, <1>8, <1>9, <1>10, <1>11,
     <1>12, <1>13, <1>14, <1>15, <1>16, <1>17, <1>18, <1>19, <1>20, <1>21,
     <1>22, <1>23, <1>24, <1>25, <1>26, <1>27, <1>28, <1>29, <1>30, <1>31
    DEF Next, Steps

\* The service that ends serves nobody.
LEMMA ReachEnd ==
    ASSUME Shapes, Holds, AloneInv, AllowedInv, ManagerCanReach, NEW p \in Procs, Ended(p)
    PROVE  ManagerCanReach'
BY OtherOne DEF ManagerCanReach, Shapes, Ended, Procs

\* The allow list the service has loaded has a manager, or a fault is on record.
LEMMA ReachStep ==
    ASSUME Shapes, Holds, AloneInv, AllowedInv, ManagerCanReach, [Next]_vars
    PROVE  ManagerCanReach'
<1>1. ASSUME NEW p \in Procs, Start(p) PROVE ManagerCanReach'
  BY <1>1, OtherOne DEF Start, Goto, Spend, ManagerCanReach, Shapes
<1>2. ASSUME NEW p \in Procs, Resume(p) PROVE ManagerCanReach'
  BY <1>2, OtherOne DEF Resume, Goto, HasToken, ManagerCanReach, Shapes
<1>3. ASSUME NEW p \in Procs, Register(p) PROVE ManagerCanReach'
  BY <1>3, OtherOne DEF Register, Goto, HasToken, ManagerCanReach, Shapes
<1>4. ASSUME NEW p \in Procs, Conflict(p) PROVE ManagerCanReach'
  BY <1>4, OtherOne DEF Conflict, Goto, HasToken, ManagerCanReach, Shapes
<1>5. ASSUME NEW p \in Procs, Truncate(p) PROVE ManagerCanReach'
  BY <1>5, OtherOne DEF Truncate, Goto, ManagerCanReach, Shapes
<1>6. ASSUME NEW p \in Procs, WriteConfig(p) PROVE ManagerCanReach'
  BY <1>6, OtherOne DEF WriteConfig, Goto, ManagerCanReach, Shapes
<1>7. ASSUME NEW p \in Procs, Approved(p) PROVE ManagerCanReach'
  BY <1>7, OtherOne DEF Approved, Goto, ManagerCanReach, Shapes
<1>8. ASSUME NEW p \in Procs, PollEnds(p) PROVE ManagerCanReach'
  <2>. QED BY <1>8, Ends, ReachEnd
<1>9. ASSUME NEW p \in Procs, OpenTemp(p) PROVE ManagerCanReach'
  <2>1. CASE Clash(p, "clash")
    BY <1>9, <2>1, Ends, ReachEnd
  <2>2. CASE /\ TempOf[Head(mem[p].todo)] \notin temps
             /\ UNCHANGED <<mem, faults, wlLock, srv>>
    BY <1>9, <2>2, OtherOne DEF OpenTemp, Goto, ManagerCanReach, Shapes
  <2>. QED BY <1>9, <2>1, <2>2 DEF OpenTemp
<1>10. ASSUME NEW p \in Procs, RenameTemp(p) PROVE ManagerCanReach'
  BY <1>10, OtherOne DEF RenameTemp, Goto, ManagerCanReach, Shapes
<1>11. ASSUME NEW p \in Procs, Repository(p) PROVE ManagerCanReach'
  BY <1>11, OtherOne DEF Repository, Goto, ManagerCanReach, Shapes
<1>12. ASSUME NEW p \in Procs, LoadList(p) PROVE ManagerCanReach'
  <2>1. CASE wl.kind = "missing"
    BY <1>12, <2>1, Ends, ReachEnd
  <2>2. CASE wl.kind = "yaml"
    BY <1>12, <2>2, OtherOne DEF LoadList, Goto, ManagerCanReach, Shapes
  <2>. QED BY <1>12, <2>1, <2>2 DEF LoadList
<1>13. ASSUME NEW p \in Procs, LockList(p) PROVE ManagerCanReach'
  BY <1>13, OtherOne DEF LockList, Goto, ManagerCanReach, Shapes
<1>14. ASSUME NEW p \in Procs, ReadList(p) PROVE ManagerCanReach'
  <2>1. CASE "wl" \in temps
    BY <1>14, <2>1, Ends, ReachEnd
  <2>2. CASE "wl" \notin temps
    BY <1>14, <2>2, OtherOne DEF ReadList, Goto, ManagerCanReach, Shapes
  <2>. QED BY <1>14, <2>1, <2>2 DEF ReadList
<1>15. ASSUME NEW p \in Procs, RenameList(p) PROVE ManagerCanReach'
  BY <1>15, OtherOne DEF RenameList, Goto, ManagerCanReach, Shapes
<1>16. ASSUME NEW p \in Procs, Done(p) PROVE ManagerCanReach'
  BY <1>16, OtherOne DEF Done, Goto, ManagerCanReach, Shapes
<1>17. ASSUME NEW p \in Procs, RegisterFails(p) PROVE ManagerCanReach'
  <2>. QED BY <1>17, Ends, ReachEnd
<1>18. ASSUME NEW p \in Procs, AnswerLost(p) PROVE ManagerCanReach'
  BY <1>18, OtherOne DEF AnswerLost, Goto, ManagerCanReach, Shapes
<1>19. ASSUME NEW p \in Procs, ConfigFails(p) PROVE ManagerCanReach'
  BY <1>19, OtherOne DEF ConfigFails, Goto, ManagerCanReach, Shapes
<1>20. ASSUME NEW p \in Procs, AskAgain(p) PROVE ManagerCanReach'
  BY <1>20, OtherOne DEF AskAgain, ManagerCanReach, Shapes
<1>21. ASSUME NEW p \in Procs, WriteFails(p) PROVE ManagerCanReach'
  <2>. QED BY <1>21, Ends, ReachEnd
<1>22. ASSUME NEW p \in Procs, RepositoryFails(p) PROVE ManagerCanReach'
  <2>. QED BY <1>22, Ends, ReachEnd
<1>23. ASSUME NEW p \in Procs, Dies(p) PROVE ManagerCanReach'
  <2>. QED BY <1>23, Ends, ReachEnd
<1>24. ASSUME Serve PROVE ManagerCanReach'
  <2>1. /\ pc["svc"] = "boot" /\ pem["key"] # 0 /\ faults' = faults
        /\ srv'.wl = (IF wl.kind = "yaml" THEN wl.entries ELSE {})
    BY <1>24 DEF Serve, CanServe
  <2>2. NoneCutBetween => \A q \in Procs : ~ Between(q)
    BY <2>1, OtherOne DEF NoneCutBetween, AloneInv, Busy, Between, Writing, Appending
  <2>. QED BY <2>1, <2>2 DEF ManagerCanReach, AllowedInv, NoneCutBetween
<1>25. ASSUME ServeRefused PROVE ManagerCanReach'
  <2>. "svc" \in Procs BY DEF Procs
  <2>. QED BY <1>25, Ends, ReachEnd
<1>26. ASSUME NEW t \in Tokens, NEW d \in {"approved", "denied"}, Decide(t, d)
      PROVE  ManagerCanReach'
  BY <1>26, OtherOne DEF Decide, ManagerCanReach, Shapes
<1>27. ASSUME CertExpires PROVE ManagerCanReach'
  BY <1>27, OtherOne DEF CertExpires, ManagerCanReach, Shapes
<1>28. ASSUME StartFails PROVE ManagerCanReach'
  BY <1>28, OtherOne DEF StartFails, ManagerCanReach, Shapes
<1>29. ASSUME StartLimitHit PROVE ManagerCanReach'
  BY <1>29, OtherOne DEF StartLimitHit, Goto, Procs, ManagerCanReach, Shapes
<1>30. ASSUME NEW t \in Tokens, Purge(t) PROVE ManagerCanReach'
  BY <1>30, OtherOne DEF Purge, ManagerCanReach, Shapes
<1>31. ASSUME UNCHANGED vars PROVE ManagerCanReach'
  BY <1>31 DEF vars, ManagerCanReach, Shapes
<1>. QED
  BY <1>1, <1>2, <1>3, <1>4, <1>5, <1>6, <1>7, <1>8, <1>9, <1>10, <1>11,
     <1>12, <1>13, <1>14, <1>15, <1>16, <1>17, <1>18, <1>19, <1>20, <1>21,
     <1>22, <1>23, <1>24, <1>25, <1>26, <1>27, <1>28, <1>29, <1>30, <1>31
    DEF Next, Steps

-----------------------------------------------------------------------------
(* The theorems *)

\* The invariant holds in the beginning: nothing is on disk, nobody runs.
LEMMA EnrollStart == Init => EnrollInv
<1>. SUFFICES ASSUME Init PROVE EnrollInv
  OBVIOUS
<1>. USE DEF Init
<1>1. Shapes
  BY EnrollAssumption DEF Shapes, Labels
<1>2. Holds
  BY BlankMemory DEF Holds, Writing, Appending, HasOne, Granted
<1>3. ListInv /\ AloneInv
  BY DEF ListInv, AppendsAreKept, AloneInv, Busy, None, Procs
<1>4. TokenInv
  BY DEF TokenInv, ConflictNeedsLoss, Granted, Writing, Appending, Asked, Saved
<1>5. BundleInv /\ AllowedInv
  BY DEF BundleInv, AllowedInv, Midway, Writing, Files
<1>6. ServesWhole /\ ManagerCanReach
  BY DEF ServesWhole, ManagerCanReach, Procs
<1>. QED BY <1>1, <1>2, <1>3, <1>4, <1>5, <1>6 DEF EnrollInv

\* Every step keeps the invariant.
LEMMA EnrollStep == EnrollInv /\ [Next]_vars => EnrollInv'
BY ShapesStep, HoldsStep, ListStep, AloneStep, TokenStep, BundleStep, AllowedStep,
   ServesStep, ReachStep
   DEF EnrollInv

\* The invariant of the specification: fairness plays no part in it.
LEMMA EnrollAlways == Spec => []EnrollInv
BY EnrollStart, EnrollStep, PTL DEF Spec

\* Enrollment state keeps its shape, and no process polls more often than the
\* hard limit of poll_for_approval, whatever max_poll_attempts says.
THEOREM EnrollTypes == Spec => []TypeOK
<1>1. EnrollInv => TypeOK
  BY DEF EnrollInv, Shapes, Holds, Memory, TypeOK, Writing
<1>. QED BY <1>1, EnrollAlways, PTL

\* append_entry: whichever two processes append at the same time, no address
\* whose append returned Ok is missing from the list, and a foreign temporary
\* file is met only after a process ended in the middle of a write.
THEOREM AppendsAreAlwaysKept == Spec => []AppendsAreKept
<1>1. EnrollInv => AppendsAreKept
  BY DEF EnrollInv, ListInv
<1>. QED BY <1>1, EnrollAlways, PTL

\* A restart before the first enrollment is complete resumes: "Host already exists"
\* meets it only after a token was lost or two enrollments overlapped, whatever
\* the manager decides, forgets or answers.
THEOREM ConflictAlwaysNeedsLoss == Spec => []ConflictNeedsLoss
<1>1. EnrollInv => ConflictNeedsLoss
  BY DEF EnrollInv, TokenInv
<1>. QED BY <1>1, EnrollAlways, PTL

\* Whichever process wrote which file last and wherever one died, the service
\* serves with a key that fits its certificate, and with a certificate of its CA
\* unless a bundle was cut short or two enrollments overlapped.
THEOREM AlwaysServesWhole == Spec => []ServesWhole
<1>1. EnrollInv => ServesWhole
  BY DEF EnrollInv
<1>. QED BY <1>1, EnrollAlways, PTL

\* A service that runs has its manager on the allow list it loaded, unless an
\* enrollment ended between its key and the list, or two overlapped.
THEOREM ManagerCanAlwaysReach == Spec => []ManagerCanReach
<1>1. EnrollInv => ManagerCanReach
  BY DEF EnrollInv
<1>. QED BY <1>1, EnrollAlways, PTL

-----------------------------------------------------------------------------
(* The allow list is an AllowList *)

\* append_entry: the rename puts one address more into what the file holds, and
\* only then is the append reported.
LEMMA RenameAppends ==
    ASSUME EnrollInv, NEW p \in Procs, RenameList(p)
    PROVE  List!Append(mem[p].ip) /\ mem[p].ip \in ManagerIps
<1>1. mem[p].read = wl.entries /\ mem[p].ip \in ManagerIps
  BY DEF EnrollInv, ListInv, Holds, Appending, RenameList
<1>2. wl'.entries = mem[p].read \cup {mem[p].ip}
  BY DEF RenameList, EnrollInv, Shapes
<1>3. promised' = promised \cup {mem[p].ip}
  BY DEF RenameList
<1>. QED BY <1>1, <1>2, <1>3 DEF List!Append

\* An address that is there already is reported at once.
LEMMA KnownIsConfirmed ==
    ASSUME EnrollInv, NEW p \in Procs, LoadList(p)
    PROVE  \/ List!Confirm(mem[p].ip) /\ mem[p].ip \in ManagerIps
           \/ UNCHANGED <<wl, promised>>
<1>1. mem[p].ip \in ManagerIps
  BY DEF EnrollInv, Holds, Appending, LoadList
<1>. QED BY <1>1 DEF LoadList, List!Confirm

\* Every step is a step of the allow list, or leaves it as it is.
LEMMA ListRefines ==
    ASSUME EnrollInv, [Next]_vars
    PROVE  [List!Next]_(List!listVars)
<1>. DEFINE Same == UNCHANGED <<wl, promised>>
<1>1. Same => [List!Next]_(List!listVars)
  BY DEF List!listVars
<1>2. ASSUME NEW p \in Procs, Steps(p) PROVE Same \/ List!Next
  <2>1. CASE RenameList(p) BY <2>1, RenameAppends DEF List!Next
  <2>2. CASE LoadList(p) BY <2>2, KnownIsConfirmed DEF List!Next
  <2>3. CASE Start(p) \/ Resume(p) \/ Register(p) \/ Conflict(p)
    BY <2>3 DEF Start, Resume, Register, Conflict
  <2>4. CASE Truncate(p) \/ WriteConfig(p) \/ Approved(p) \/ PollEnds(p)
    BY <2>4 DEF Truncate, WriteConfig, Approved, PollEnds
  <2>5. CASE OpenTemp(p) \/ RenameTemp(p) \/ Repository(p)
    BY <2>5 DEF OpenTemp, RenameTemp, Repository
  <2>6. CASE LockList(p) \/ ReadList(p) \/ Done(p)
    BY <2>6 DEF LockList, ReadList, Done
  <2>. QED BY <1>2, <2>1, <2>2, <2>3, <2>4, <2>5, <2>6 DEF Steps
<1>3. ASSUME NEW p \in Procs,
             \/ RegisterFails(p) \/ AnswerLost(p) \/ ConfigFails(p) \/ AskAgain(p)
             \/ WriteFails(p) \/ RepositoryFails(p) \/ Dies(p)
      PROVE  Same
  BY <1>3
    DEF RegisterFails, AnswerLost, ConfigFails, AskAgain, WriteFails,
        RepositoryFails, Dies
<1>4. ASSUME StartFails \/ StartLimitHit \/ Serve \/ ServeRefused \/ CertExpires PROVE Same
  BY <1>4 DEF StartFails, StartLimitHit, Serve, ServeRefused, CertExpires
<1>5. ASSUME NEW t \in Tokens,
             Purge(t) \/ \E d \in {"approved", "denied"} : Decide(t, d)
      PROVE  Same
  BY <1>5 DEF Decide, Purge
<1>6. ASSUME UNCHANGED vars PROVE Same
  BY <1>6 DEF vars
<1>. HIDE DEF Same
<1>. QED BY <1>1, <1>2, <1>3, <1>4, <1>5, <1>6 DEF Next

\* The lock, the second read, the temporary file and the rename of append_entry
\* implement an append that happens at once, with two processes and deaths.
THEOREM AppendsAreAtomic == Spec => AppendIsAtomic
<1>1. Init => List!Init
  BY DEF Init, List!Init
<1>2. EnrollInv /\ [Next]_vars => [List!Next]_(List!listVars)
  BY ListRefines
<1>. QED BY <1>1, <1>2, EnrollAlways, PTL DEF Spec, AppendIsAtomic, List!Spec

=============================================================================
