---------------------------- MODULE RepoSyncProofs ----------------------------
(***************************************************************************)
(* Proofs about RepoSync for every kind of host, any number of versions at *)
(* the manager and any number of errors, deaths, lost files and            *)
(* enrollments beside the periodic synchronisation.                        *)
(***************************************************************************)
EXTENDS RepoSync, FiniteSetTheorems, TLAPS

-----------------------------------------------------------------------------
(* The invariants *)

Labels == {"off", "fetch", "compare", "key", "keyRename", "src", "srcRename", "sleep"}
Syncing == {"compare", "key", "keyRename", "src", "srcRename"}

\* The shapes of the records and of the history the other parts rely on.
Shapes ==
    /\ host \in HostKinds /\ cur \in Versions
    /\ key \in [ver : Versions \cup {0}, form : {"none", "binary", "text"}]
    /\ asc \in Versions \cup {0}
    /\ lines \subseteq Versions \cup {Admin}
    /\ tmp \in [key : SUBSET Versions, src : SUBSET (Versions \cup {Admin})]
    /\ pc \in [Procs -> Labels]
    /\ mem \in [Procs -> [ver : Versions \cup {0}, clean : BOOLEAN]]
    /\ synced \in {"none", "true", "false"} /\ phase \in {"startup", "task"}
    /\ \A p \in Procs : pc[p] \in Syncing => mem[p].ver \in Versions

\* A sources file that is not Alpine's, and what replaces it, has one line.
OneLine(s) == s = {} \/ \E v \in Versions : s = {v}
SingleSource == ~ IsApk => OneLine(lines) /\ OneLine(tmp.src)

\* The administrator's lines are in Alpine's file and in what replaces it.
Appended ==
    IsApk /\ "read" \notin faults =>
        Admin \in lines /\ (tmp.src # {} => Admin \in tmp.src)

\* Without gpg, or without an RSA key, the keyring file is never written.
Keyless == host \in {"aptNoGpg", "apkNoKey"}
KeylessInv ==
    /\ Keyless => key.ver = 0
    /\ host = "apkNoKey" => \A p \in Procs : pc[p] # "keyRename"

\* A sync that nobody disturbed finds its own temporary files and has installed
\* the key of the version whose sources it installs.
Undisturbed ==
    mem["svc"].clean =>
        /\ pc["svc"] = "keyRename" => tmp.key = {mem["svc"].ver}
        /\ pc["svc"] \in {"src", "srcRename"} /\ ~ Keyless => key.ver = mem["svc"].ver
        /\ pc["svc"] = "srcRename" => mem["svc"].ver \in tmp.src

RepoInv == Shapes /\ SingleSource /\ Appended /\ KeylessInv /\ Undisturbed /\ HealthyMeansInstalled

\* 0, the version of no file and the administrator's line, is no version.
LEMMA ZeroIsNoVersion == 0 \notin Versions /\ Admin = 0
BY RepoAssumption DEF Admin

\* A write by p keeps what the processes hold, and is a disturbance for the
\* service exactly if it is not its own.
LEMMA DisturbEffect ==
    ASSUME Shapes, NEW p \in Procs, Disturb(p)
    PROVE  /\ mem' \in [Procs -> [ver : Versions \cup {0}, clean : BOOLEAN]]
           /\ \A q \in Procs : mem'[q].ver = mem[q].ver
           /\ mem'["svc"].clean => mem["svc"].clean /\ p = "svc"
BY DEF Shapes, Disturb, Procs

\* A rename takes the temporary file away and leaves the other one.
LEMMA RenameEffect ==
    ASSUME Shapes
    PROVE  /\ tmp' = AfterRename("key") => tmp' = [key |-> {}, src |-> tmp.src]
           /\ tmp' = AfterRename("src") => tmp' = [key |-> tmp.key, src |-> {}]
BY DEF Shapes, AfterRename

\* Every step keeps the shapes.
LEMMA ShapesStep ==
    ASSUME Shapes, [Next]_vars
    PROVE  Shapes'
<1>1. ASSUME NEW p \in Procs, Fetch(p) PROVE Shapes'
  BY <1>1, RepoAssumption DEF Fetch, Goto, Shapes, Procs, Labels, Syncing, vars
<1>2. ASSUME NEW p \in Procs, FetchFails(p) PROVE Shapes'
  BY <1>2, RepoAssumption
    DEF FetchFails, Fails, Result, Goto, Shapes, Procs, Labels, Syncing, vars
<1>3. ASSUME NEW p \in Procs, UnknownDistro(p) PROVE Shapes'
  BY <1>3, RepoAssumption
    DEF UnknownDistro, Fails, Result, Goto, Shapes, Procs, Labels, Syncing,
        vars
<1>4. ASSUME NEW p \in Procs, SkipKey(p) PROVE Shapes'
  BY <1>4, RepoAssumption
    DEF SkipKey, Goto, Shapes, Procs, Labels, Syncing, vars
<1>5. ASSUME NEW p \in Procs, WriteKey(p) PROVE Shapes'
  <2>1. /\ mem' \in [Procs -> [ver : Versions \cup {0}, clean : BOOLEAN]]
        /\ \A q \in Procs : mem'[q].ver = mem[q].ver
    BY <1>5, DisturbEffect DEF WriteKey
  <2>2. tmp' \in [key : SUBSET Versions, src : SUBSET (Versions \cup {Admin})]
    BY <1>5 DEF WriteKey, Shapes, Syncing
  <2>. QED
    BY <1>5, <2>1, <2>2 DEF WriteKey, Goto, Shapes, Labels, Syncing
<1>6. ASSUME NEW p \in Procs, KeyClash(p) PROVE Shapes'
  BY <1>6, RepoAssumption
    DEF KeyClash, Fails, Result, Goto, Shapes, Procs, Labels, Syncing, vars
<1>7. ASSUME NEW p \in Procs, RenameKey(p) PROVE Shapes'
  <2>. DEFINE v == CHOOSE x \in tmp.key : TRUE
  <2>1. v \in Versions
    BY <1>7 DEF RenameKey, Shapes
  <2>2. key' \in [ver : Versions \cup {0}, form : {"none", "binary", "text"}]
        /\ asc' \in Versions \cup {0}
    <3>. HIDE DEF v
    <3>1. \/ asc' = v /\ key' = key
          \/ key' = [ver |-> v, form |-> IF host = "apt" THEN "binary" ELSE "text"] /\ asc' = asc
      BY <1>7 DEF RenameKey, v
    <3>. QED
      BY <2>1, <3>1 DEF Shapes
  <2>3. tmp' = [key |-> {}, src |-> tmp.src]
    BY <1>7, RenameEffect DEF RenameKey
  <2>4. /\ mem' \in [Procs -> [ver : Versions \cup {0}, clean : BOOLEAN]]
        /\ \A q \in Procs : mem'[q].ver = mem[q].ver
    BY <1>7, DisturbEffect DEF RenameKey
  <2>5. pc' \in [Procs -> Labels] /\ \A q \in Procs : pc'[q] \in Syncing => pc[q] \in Syncing
    BY <1>7 DEF RenameKey, Goto, Shapes, Labels, Syncing
  <2>6. UNCHANGED <<host, cur, lines, synced, phase>>
    BY <1>7 DEF RenameKey
  <2>. QED
    BY <2>2, <2>3, <2>4, <2>5, <2>6 DEF Shapes
<1>8. ASSUME NEW p \in Procs, LineThere(p) PROVE Shapes'
  BY <1>8, RepoAssumption
    DEF LineThere, Result, Goto, Shapes, Procs, Labels, Syncing, vars
<1>9. ASSUME NEW p \in Procs, WriteSources(p) PROVE Shapes'
  <2>1. tmp' = [key |-> tmp.key, src |-> NewLines(mem[p].ver, lines)]
    BY <1>9 DEF WriteSources, Shapes
  <2>2. NewLines(mem[p].ver, lines) \in SUBSET (Versions \cup {Admin})
    BY <1>9 DEF WriteSources, NewLines, Shapes, Syncing
  <2>3. /\ mem' \in [Procs -> [ver : Versions \cup {0}, clean : BOOLEAN]]
        /\ \A q \in Procs : mem'[q].ver = mem[q].ver
    BY <1>9, DisturbEffect DEF WriteSources
  <2>4. pc' \in [Procs -> Labels] /\ \A q \in Procs : pc'[q] \in Syncing => pc[q] \in Syncing
    BY <1>9 DEF WriteSources, Goto, Shapes, Labels, Syncing
  <2>5. UNCHANGED <<host, cur, key, asc, lines, synced, phase>>
    BY <1>9 DEF WriteSources
  <2>. QED
    BY <2>1, <2>2, <2>3, <2>4, <2>5 DEF Shapes
<1>10. ASSUME NEW p \in Procs, RenameSources(p) PROVE Shapes'
  <2>1. tmp' = [key |-> tmp.key, src |-> {}] /\ lines' = tmp.src
    BY <1>10, RenameEffect DEF RenameSources
  <2>2. /\ mem' \in [Procs -> [ver : Versions \cup {0}, clean : BOOLEAN]]
        /\ \A q \in Procs : mem'[q].ver = mem[q].ver
    BY <1>10, DisturbEffect DEF RenameSources, Shapes
  <2>3. /\ pc' \in [Procs -> Labels]
        /\ \A q \in Procs : pc'[q] \in Syncing => pc[q] \in Syncing
        /\ synced' \in {"none", "true", "false"} /\ phase' \in {"startup", "task"}
    BY <1>10 DEF RenameSources, Result, Goto, Shapes, Labels, Syncing
  <2>4. UNCHANGED <<host, cur, key, asc>>
    BY <1>10 DEF RenameSources
  <2>. QED
    BY <2>1, <2>2, <2>3, <2>4 DEF Shapes
<1>11. ASSUME NEW p \in Procs, RenameFails(p) PROVE Shapes'
  BY <1>11, RepoAssumption
    DEF RenameFails, Fails, Result, Goto, Shapes, Procs, Labels, Syncing, vars
<1>12. ASSUME NEW p \in Procs, ReadFails(p) PROVE Shapes'
  <2>1. tmp' = [key |-> tmp.key, src |-> NewLines(mem[p].ver, {})]
    BY <1>12 DEF ReadFails, Shapes
  <2>2. NewLines(mem[p].ver, {}) \in SUBSET (Versions \cup {Admin})
    BY <1>12 DEF ReadFails, NewLines, Shapes, Syncing
  <2>3. /\ mem' \in [Procs -> [ver : Versions \cup {0}, clean : BOOLEAN]]
        /\ \A q \in Procs : mem'[q].ver = mem[q].ver
    BY <1>12, DisturbEffect DEF ReadFails
  <2>4. pc' \in [Procs -> Labels] /\ \A q \in Procs : pc'[q] \in Syncing => pc[q] \in Syncing
    BY <1>12 DEF ReadFails, Goto, Shapes, Labels, Syncing
  <2>5. UNCHANGED <<host, cur, key, asc, lines, synced, phase>>
    BY <1>12 DEF ReadFails
  <2>. QED
    BY <2>1, <2>2, <2>3, <2>4, <2>5 DEF Shapes
<1>13. ASSUME NEW p \in Procs, WriteFails(p) PROVE Shapes'
  BY <1>13, RepoAssumption
    DEF WriteFails, Fails, Result, Goto, Shapes, Procs, Labels, Syncing, vars
<1>14. ASSUME NEW p \in Procs, Dies(p) PROVE Shapes'
  BY <1>14, RepoAssumption
    DEF Dies, Blank, Goto, Shapes, Procs, Labels, Syncing, vars
<1>15. ASSUME AlreadyConfigured PROVE Shapes'
  BY <1>15, RepoAssumption
    DEF AlreadyConfigured, UpToDate, SourcesMatch, Result, Goto, Shapes,
        Procs, Labels, Syncing, vars
<1>16. ASSUME Mismatch PROVE Shapes'
  BY <1>16, RepoAssumption
    DEF Mismatch, Goto, Shapes, Procs, Labels, Syncing, vars
<1>17. ASSUME Wake PROVE Shapes'
  BY <1>17, RepoAssumption DEF Wake, Goto, Shapes, Procs, Labels, Syncing, vars
<1>18. ASSUME Rotate PROVE Shapes'
  BY <1>18, RepoAssumption DEF Rotate, Shapes, Procs, Labels, Syncing, vars
<1>19. ASSUME Enroll PROVE Shapes'
  BY <1>19, RepoAssumption
    DEF Enroll, Goto, Shapes, Procs, Labels, Syncing, vars
<1>20. ASSUME Lost PROVE Shapes'
  <2>1. /\ mem' \in [Procs -> [ver : Versions \cup {0}, clean : BOOLEAN]]
        /\ \A q \in Procs : mem'[q].ver = mem[q].ver
    BY <1>20, DisturbEffect DEF Lost, Procs
  <2>2. /\ key' \in [ver : Versions \cup {0}, form : {"none", "binary", "text"}]
        /\ lines' \subseteq Versions \cup {Admin}
    BY <1>20 DEF Lost, NoFile, Shapes
  <2>3. UNCHANGED <<host, cur, asc, tmp, pc, synced, phase>>
    BY <1>20 DEF Lost
  <2>. QED
    BY <2>1, <2>2, <2>3 DEF Shapes
<1>21. ASSUME UNCHANGED vars PROVE Shapes'
  BY <1>21, RepoAssumption DEF vars, Shapes, Procs, Labels, Syncing, vars
<1>. QED
  BY <1>1, <1>2, <1>3, <1>4, <1>5, <1>6, <1>7, <1>8, <1>9, <1>10, <1>11,
     <1>12, <1>13, <1>14, <1>15, <1>16, <1>17, <1>18, <1>19, <1>20, <1>21
    DEF Next, Provision

\* Only Alpine's sources file ever has more than one line.
LEMMA SingleStep ==
    ASSUME Shapes, SingleSource, [Next]_vars
    PROVE  SingleSource'
<1>1. ASSUME NEW p \in Procs, Fetch(p) PROVE SingleSource'
  BY <1>1, ZeroIsNoVersion
    DEF Fetch, Goto, SingleSource, OneLine, IsApk, Shapes, Procs, Labels,
        Syncing, vars
<1>2. ASSUME NEW p \in Procs, FetchFails(p) PROVE SingleSource'
  BY <1>2, ZeroIsNoVersion
    DEF FetchFails, Fails, Result, Goto, SingleSource, OneLine, IsApk, Shapes,
        Procs, Labels, Syncing, vars
<1>3. ASSUME NEW p \in Procs, UnknownDistro(p) PROVE SingleSource'
  BY <1>3, ZeroIsNoVersion
    DEF UnknownDistro, Fails, Result, Goto, SingleSource, OneLine, IsApk,
        Shapes, Procs, Labels, Syncing, vars
<1>4. ASSUME NEW p \in Procs, SkipKey(p) PROVE SingleSource'
  BY <1>4, ZeroIsNoVersion
    DEF SkipKey, Goto, SingleSource, OneLine, IsApk, Shapes, Procs, Labels,
        Syncing, vars
<1>5. ASSUME NEW p \in Procs, WriteKey(p) PROVE SingleSource'
  BY <1>5, ZeroIsNoVersion
    DEF WriteKey, Disturb, Goto, SingleSource, OneLine, IsApk, Shapes, Procs,
        Labels, Syncing, vars
<1>6. ASSUME NEW p \in Procs, KeyClash(p) PROVE SingleSource'
  BY <1>6, ZeroIsNoVersion
    DEF KeyClash, Fails, Result, Goto, SingleSource, OneLine, IsApk, Shapes,
        Procs, Labels, Syncing, vars
<1>7. ASSUME NEW p \in Procs, RenameKey(p) PROVE SingleSource'
  BY <1>7, ZeroIsNoVersion
    DEF RenameKey, AfterRename, Disturb, Goto, SingleSource, OneLine, IsApk,
        Shapes, Procs, Labels, Syncing, vars
<1>8. ASSUME NEW p \in Procs, LineThere(p) PROVE SingleSource'
  BY <1>8, ZeroIsNoVersion
    DEF LineThere, Result, Goto, SingleSource, OneLine, IsApk, Shapes, Procs,
        Labels, Syncing, vars
<1>9. ASSUME NEW p \in Procs, WriteSources(p) PROVE SingleSource'
  BY <1>9, ZeroIsNoVersion
    DEF WriteSources, NewLines, Disturb, Goto, SingleSource, OneLine, IsApk,
        Shapes, Procs, Labels, Syncing, vars
<1>10. ASSUME NEW p \in Procs, RenameSources(p) PROVE SingleSource'
  BY <1>10, ZeroIsNoVersion
    DEF RenameSources, AfterRename, Result, Disturb, Goto, SingleSource,
        OneLine, IsApk, Shapes, Procs, Labels, Syncing, vars
<1>11. ASSUME NEW p \in Procs, RenameFails(p) PROVE SingleSource'
  BY <1>11, ZeroIsNoVersion
    DEF RenameFails, Fails, Result, Goto, SingleSource, OneLine, IsApk,
        Shapes, Procs, Labels, Syncing, vars
<1>12. ASSUME NEW p \in Procs, ReadFails(p) PROVE SingleSource'
  BY <1>12, ZeroIsNoVersion
    DEF ReadFails, NewLines, Disturb, Goto, SingleSource, OneLine, IsApk,
        Shapes, Procs, Labels, Syncing, vars
<1>13. ASSUME NEW p \in Procs, WriteFails(p) PROVE SingleSource'
  BY <1>13, ZeroIsNoVersion
    DEF WriteFails, Fails, Result, Goto, SingleSource, OneLine, IsApk, Shapes,
        Procs, Labels, Syncing, vars
<1>14. ASSUME NEW p \in Procs, Dies(p) PROVE SingleSource'
  BY <1>14, ZeroIsNoVersion
    DEF Dies, Blank, Goto, SingleSource, OneLine, IsApk, Shapes, Procs,
        Labels, Syncing, vars
<1>15. ASSUME AlreadyConfigured PROVE SingleSource'
  BY <1>15, ZeroIsNoVersion
    DEF AlreadyConfigured, UpToDate, SourcesMatch, Result, Goto, SingleSource,
        OneLine, IsApk, Shapes, Procs, Labels, Syncing, vars
<1>16. ASSUME Mismatch PROVE SingleSource'
  BY <1>16, ZeroIsNoVersion
    DEF Mismatch, Goto, SingleSource, OneLine, IsApk, Shapes, Procs, Labels,
        Syncing, vars
<1>17. ASSUME Wake PROVE SingleSource'
  BY <1>17, ZeroIsNoVersion
    DEF Wake, Goto, SingleSource, OneLine, IsApk, Shapes, Procs, Labels,
        Syncing, vars
<1>18. ASSUME Rotate PROVE SingleSource'
  BY <1>18, ZeroIsNoVersion
    DEF Rotate, SingleSource, OneLine, IsApk, Shapes, Procs, Labels, Syncing,
        vars
<1>19. ASSUME Enroll PROVE SingleSource'
  BY <1>19, ZeroIsNoVersion
    DEF Enroll, Goto, SingleSource, OneLine, IsApk, Shapes, Procs, Labels,
        Syncing, vars
<1>20. ASSUME Lost PROVE SingleSource'
  BY <1>20, ZeroIsNoVersion
    DEF Lost, Disturb, NoFile, SingleSource, OneLine, IsApk, Shapes, Procs,
        Labels, Syncing, vars
<1>21. ASSUME UNCHANGED vars PROVE SingleSource'
  BY <1>21, ZeroIsNoVersion
    DEF vars, SingleSource, OneLine, IsApk, Shapes, Procs, Labels, Syncing,
        vars
<1>. QED
  BY <1>1, <1>2, <1>3, <1>4, <1>5, <1>6, <1>7, <1>8, <1>9, <1>10, <1>11,
     <1>12, <1>13, <1>14, <1>15, <1>16, <1>17, <1>18, <1>19, <1>20, <1>21
    DEF Next, Provision

\* Every append keeps the administrator's lines.
LEMMA AppendedStep ==
    ASSUME Shapes, Appended, [Next]_vars
    PROVE  Appended'
<1>1. ASSUME NEW p \in Procs, Fetch(p) PROVE Appended'
  BY <1>1, ZeroIsNoVersion
    DEF Fetch, Goto, Appended, IsApk, Shapes, Procs, Labels, Syncing, vars
<1>2. ASSUME NEW p \in Procs, FetchFails(p) PROVE Appended'
  BY <1>2, ZeroIsNoVersion
    DEF FetchFails, Fails, Result, Goto, Appended, IsApk, Shapes, Procs,
        Labels, Syncing, vars
<1>3. ASSUME NEW p \in Procs, UnknownDistro(p) PROVE Appended'
  BY <1>3, ZeroIsNoVersion
    DEF UnknownDistro, Fails, Result, Goto, Appended, IsApk, Shapes, Procs,
        Labels, Syncing, vars
<1>4. ASSUME NEW p \in Procs, SkipKey(p) PROVE Appended'
  BY <1>4, ZeroIsNoVersion
    DEF SkipKey, Goto, Appended, IsApk, Shapes, Procs, Labels, Syncing, vars
<1>5. ASSUME NEW p \in Procs, WriteKey(p) PROVE Appended'
  BY <1>5, ZeroIsNoVersion
    DEF WriteKey, Disturb, Goto, Appended, IsApk, Shapes, Procs, Labels,
        Syncing, vars
<1>6. ASSUME NEW p \in Procs, KeyClash(p) PROVE Appended'
  BY <1>6, ZeroIsNoVersion
    DEF KeyClash, Fails, Result, Goto, Appended, IsApk, Shapes, Procs, Labels,
        Syncing, vars
<1>7. ASSUME NEW p \in Procs, RenameKey(p) PROVE Appended'
  BY <1>7, ZeroIsNoVersion
    DEF RenameKey, AfterRename, Disturb, Goto, Appended, IsApk, Shapes, Procs,
        Labels, Syncing, vars
<1>8. ASSUME NEW p \in Procs, LineThere(p) PROVE Appended'
  BY <1>8, ZeroIsNoVersion
    DEF LineThere, Result, Goto, Appended, IsApk, Shapes, Procs, Labels,
        Syncing, vars
<1>9. ASSUME NEW p \in Procs, WriteSources(p) PROVE Appended'
  BY <1>9, ZeroIsNoVersion
    DEF WriteSources, NewLines, Disturb, Goto, Appended, IsApk, Shapes, Procs,
        Labels, Syncing, vars
<1>10. ASSUME NEW p \in Procs, RenameSources(p) PROVE Appended'
  BY <1>10, ZeroIsNoVersion
    DEF RenameSources, AfterRename, Result, Disturb, Goto, Appended, IsApk,
        Shapes, Procs, Labels, Syncing, vars
<1>11. ASSUME NEW p \in Procs, RenameFails(p) PROVE Appended'
  BY <1>11, ZeroIsNoVersion
    DEF RenameFails, Fails, Result, Goto, Appended, IsApk, Shapes, Procs,
        Labels, Syncing, vars
<1>12. ASSUME NEW p \in Procs, ReadFails(p) PROVE Appended'
  BY <1>12, ZeroIsNoVersion
    DEF ReadFails, NewLines, Disturb, Goto, Appended, IsApk, Shapes, Procs,
        Labels, Syncing, vars
<1>13. ASSUME NEW p \in Procs, WriteFails(p) PROVE Appended'
  BY <1>13, ZeroIsNoVersion
    DEF WriteFails, Fails, Result, Goto, Appended, IsApk, Shapes, Procs,
        Labels, Syncing, vars
<1>14. ASSUME NEW p \in Procs, Dies(p) PROVE Appended'
  BY <1>14, ZeroIsNoVersion
    DEF Dies, Blank, Goto, Appended, IsApk, Shapes, Procs, Labels, Syncing,
        vars
<1>15. ASSUME AlreadyConfigured PROVE Appended'
  BY <1>15, ZeroIsNoVersion
    DEF AlreadyConfigured, UpToDate, SourcesMatch, Result, Goto, Appended,
        IsApk, Shapes, Procs, Labels, Syncing, vars
<1>16. ASSUME Mismatch PROVE Appended'
  BY <1>16, ZeroIsNoVersion
    DEF Mismatch, Goto, Appended, IsApk, Shapes, Procs, Labels, Syncing, vars
<1>17. ASSUME Wake PROVE Appended'
  BY <1>17, ZeroIsNoVersion
    DEF Wake, Goto, Appended, IsApk, Shapes, Procs, Labels, Syncing, vars
<1>18. ASSUME Rotate PROVE Appended'
  BY <1>18, ZeroIsNoVersion
    DEF Rotate, Appended, IsApk, Shapes, Procs, Labels, Syncing, vars
<1>19. ASSUME Enroll PROVE Appended'
  BY <1>19, ZeroIsNoVersion
    DEF Enroll, Goto, Appended, IsApk, Shapes, Procs, Labels, Syncing, vars
<1>20. ASSUME Lost PROVE Appended'
  BY <1>20, ZeroIsNoVersion
    DEF Lost, Disturb, NoFile, Appended, IsApk, Shapes, Procs, Labels,
        Syncing, vars
<1>21. ASSUME UNCHANGED vars PROVE Appended'
  BY <1>21, ZeroIsNoVersion
    DEF vars, Appended, IsApk, Shapes, Procs, Labels, Syncing, vars
<1>. QED
  BY <1>1, <1>2, <1>3, <1>4, <1>5, <1>6, <1>7, <1>8, <1>9, <1>10, <1>11,
     <1>12, <1>13, <1>14, <1>15, <1>16, <1>17, <1>18, <1>19, <1>20, <1>21
    DEF Next, Provision

\* A host without a key file never gets one.
LEMMA KeylessStep ==
    ASSUME Shapes, KeylessInv, [Next]_vars
    PROVE  KeylessInv'
<1>1. ASSUME NEW p \in Procs, Fetch(p) PROVE KeylessInv'
  BY <1>1
    DEF Fetch, Goto, KeylessInv, Keyless, Shapes, Procs, Labels, Syncing, vars
<1>2. ASSUME NEW p \in Procs, FetchFails(p) PROVE KeylessInv'
  BY <1>2
    DEF FetchFails, Fails, Result, Goto, KeylessInv, Keyless, Shapes, Procs,
        Labels, Syncing, vars
<1>3. ASSUME NEW p \in Procs, UnknownDistro(p) PROVE KeylessInv'
  BY <1>3
    DEF UnknownDistro, Fails, Result, Goto, KeylessInv, Keyless, Shapes,
        Procs, Labels, Syncing, vars
<1>4. ASSUME NEW p \in Procs, SkipKey(p) PROVE KeylessInv'
  BY <1>4
    DEF SkipKey, Goto, KeylessInv, Keyless, Shapes, Procs, Labels, Syncing,
        vars
<1>5. ASSUME NEW p \in Procs, WriteKey(p) PROVE KeylessInv'
  BY <1>5
    DEF WriteKey, Disturb, Goto, KeylessInv, Keyless, Shapes, Procs, Labels,
        Syncing, vars
<1>6. ASSUME NEW p \in Procs, KeyClash(p) PROVE KeylessInv'
  BY <1>6
    DEF KeyClash, Fails, Result, Goto, KeylessInv, Keyless, Shapes, Procs,
        Labels, Syncing, vars
<1>7. ASSUME NEW p \in Procs, RenameKey(p) PROVE KeylessInv'
  BY <1>7
    DEF RenameKey, AfterRename, Disturb, Goto, KeylessInv, Keyless, Shapes,
        Procs, Labels, Syncing, vars
<1>8. ASSUME NEW p \in Procs, LineThere(p) PROVE KeylessInv'
  BY <1>8
    DEF LineThere, Result, Goto, KeylessInv, Keyless, Shapes, Procs, Labels,
        Syncing, vars
<1>9. ASSUME NEW p \in Procs, WriteSources(p) PROVE KeylessInv'
  BY <1>9
    DEF WriteSources, NewLines, Disturb, Goto, KeylessInv, Keyless, Shapes,
        Procs, Labels, Syncing, vars
<1>10. ASSUME NEW p \in Procs, RenameSources(p) PROVE KeylessInv'
  BY <1>10
    DEF RenameSources, AfterRename, Result, Disturb, Goto, KeylessInv,
        Keyless, Shapes, Procs, Labels, Syncing, vars
<1>11. ASSUME NEW p \in Procs, RenameFails(p) PROVE KeylessInv'
  BY <1>11
    DEF RenameFails, Fails, Result, Goto, KeylessInv, Keyless, Shapes, Procs,
        Labels, Syncing, vars
<1>12. ASSUME NEW p \in Procs, ReadFails(p) PROVE KeylessInv'
  BY <1>12
    DEF ReadFails, NewLines, Disturb, Goto, KeylessInv, Keyless, Shapes,
        Procs, Labels, Syncing, vars
<1>13. ASSUME NEW p \in Procs, WriteFails(p) PROVE KeylessInv'
  BY <1>13
    DEF WriteFails, Fails, Result, Goto, KeylessInv, Keyless, Shapes, Procs,
        Labels, Syncing, vars
<1>14. ASSUME NEW p \in Procs, Dies(p) PROVE KeylessInv'
  BY <1>14
    DEF Dies, Blank, Goto, KeylessInv, Keyless, Shapes, Procs, Labels,
        Syncing, vars
<1>15. ASSUME AlreadyConfigured PROVE KeylessInv'
  BY <1>15
    DEF AlreadyConfigured, UpToDate, SourcesMatch, Result, Goto, KeylessInv,
        Keyless, Shapes, Procs, Labels, Syncing, vars
<1>16. ASSUME Mismatch PROVE KeylessInv'
  BY <1>16
    DEF Mismatch, Goto, KeylessInv, Keyless, Shapes, Procs, Labels, Syncing,
        vars
<1>17. ASSUME Wake PROVE KeylessInv'
  BY <1>17
    DEF Wake, Goto, KeylessInv, Keyless, Shapes, Procs, Labels, Syncing, vars
<1>18. ASSUME Rotate PROVE KeylessInv'
  BY <1>18 DEF Rotate, KeylessInv, Keyless, Shapes, Procs, Labels, Syncing, vars
<1>19. ASSUME Enroll PROVE KeylessInv'
  BY <1>19
    DEF Enroll, Goto, KeylessInv, Keyless, Shapes, Procs, Labels, Syncing,
        vars
<1>20. ASSUME Lost PROVE KeylessInv'
  BY <1>20
    DEF Lost, Disturb, NoFile, KeylessInv, Keyless, Shapes, Procs, Labels,
        Syncing, vars
<1>21. ASSUME UNCHANGED vars PROVE KeylessInv'
  BY <1>21 DEF vars, KeylessInv, Keyless, Shapes, Procs, Labels, Syncing, vars
<1>. QED
  BY <1>1, <1>2, <1>3, <1>4, <1>5, <1>6, <1>7, <1>8, <1>9, <1>10, <1>11,
     <1>12, <1>13, <1>14, <1>15, <1>16, <1>17, <1>18, <1>19, <1>20, <1>21
    DEF Next, Provision

\* An undisturbed sync stays so, until somebody else writes.
LEMMA UndisturbedStep ==
    ASSUME Shapes, KeylessInv, Undisturbed, [Next]_vars
    PROVE  Undisturbed'
<1>1. ASSUME NEW p \in Procs, Fetch(p) PROVE Undisturbed'
  BY <1>1
    DEF Fetch, Goto, Undisturbed, Keyless, KeylessInv, Shapes, Procs, Labels,
        Syncing, vars
<1>2. ASSUME NEW p \in Procs, FetchFails(p) PROVE Undisturbed'
  BY <1>2
    DEF FetchFails, Fails, Result, Goto, Undisturbed, Keyless, KeylessInv,
        Shapes, Procs, Labels, Syncing, vars
<1>3. ASSUME NEW p \in Procs, UnknownDistro(p) PROVE Undisturbed'
  BY <1>3
    DEF UnknownDistro, Fails, Result, Goto, Undisturbed, Keyless, KeylessInv,
        Shapes, Procs, Labels, Syncing, vars
<1>4. ASSUME NEW p \in Procs, SkipKey(p) PROVE Undisturbed'
  BY <1>4
    DEF SkipKey, Goto, Undisturbed, Keyless, KeylessInv, Shapes, Procs,
        Labels, Syncing, vars
<1>5. ASSUME NEW p \in Procs, WriteKey(p) PROVE Undisturbed'
  BY <1>5
    DEF WriteKey, Disturb, Goto, Undisturbed, Keyless, KeylessInv, Shapes,
        Procs, Labels, Syncing, vars
<1>6. ASSUME NEW p \in Procs, KeyClash(p) PROVE Undisturbed'
  BY <1>6
    DEF KeyClash, Fails, Result, Goto, Undisturbed, Keyless, KeylessInv,
        Shapes, Procs, Labels, Syncing, vars
<1>7. ASSUME NEW p \in Procs, RenameKey(p) PROVE Undisturbed'
  <2>. SUFFICES ASSUME mem'["svc"].clean PROVE Undisturbed'
    BY DEF Undisturbed
  <2>1. mem["svc"].clean /\ p = "svc" /\ mem'["svc"].ver = mem["svc"].ver
    BY <1>7, DisturbEffect DEF RenameKey, Procs
  <2>2. pc["svc"] = "keyRename" /\ pc'["svc"] = "src"
    BY <1>7, <2>1 DEF RenameKey, Goto, Shapes, Procs
  <2>3. tmp.key = {mem["svc"].ver}
    BY <2>1, <2>2 DEF Undisturbed
  <2>. DEFINE v == CHOOSE x \in tmp.key : TRUE
  <2>4. v = mem["svc"].ver
    BY <2>3
  <2>5. ~ Keyless => key'.ver = mem["svc"].ver
    <3>. HIDE DEF v
    <3>1. host # "aptNoGpg" =>
             key' = [ver |-> v, form |-> IF host = "apt" THEN "binary" ELSE "text"]
      BY <1>7 DEF RenameKey, v
    <3>. QED
      BY <2>4, <3>1 DEF Keyless
  <2>6. host' = host
    BY <1>7 DEF RenameKey
  <2>. QED
    BY <2>1, <2>2, <2>5, <2>6 DEF Undisturbed, Keyless
<1>8. ASSUME NEW p \in Procs, LineThere(p) PROVE Undisturbed'
  BY <1>8
    DEF LineThere, Result, Goto, Undisturbed, Keyless, KeylessInv, Shapes,
        Procs, Labels, Syncing, vars
<1>9. ASSUME NEW p \in Procs, WriteSources(p) PROVE Undisturbed'
  BY <1>9
    DEF WriteSources, NewLines, Disturb, Goto, Undisturbed, Keyless,
        KeylessInv, Shapes, Procs, Labels, Syncing, vars
<1>10. ASSUME NEW p \in Procs, RenameSources(p) PROVE Undisturbed'
  <2>1. CASE p = "svc"
    <3>1. pc'["svc"] \in {"fetch", "sleep"}
      BY <1>10, <2>1 DEF RenameSources, Result, Goto, Shapes, Procs
    <3>. QED
      BY <3>1 DEF Undisturbed
  <2>2. CASE p = "cli"
    <3>1. ~ mem'["svc"].clean
      BY <1>10, <2>2, DisturbEffect DEF RenameSources
    <3>. QED
      BY <3>1 DEF Undisturbed
  <2>. QED
    BY <2>1, <2>2 DEF Procs
<1>11. ASSUME NEW p \in Procs, RenameFails(p) PROVE Undisturbed'
  BY <1>11
    DEF RenameFails, Fails, Result, Goto, Undisturbed, Keyless, KeylessInv,
        Shapes, Procs, Labels, Syncing, vars
<1>12. ASSUME NEW p \in Procs, ReadFails(p) PROVE Undisturbed'
  BY <1>12
    DEF ReadFails, NewLines, Disturb, Goto, Undisturbed, Keyless, KeylessInv,
        Shapes, Procs, Labels, Syncing, vars
<1>13. ASSUME NEW p \in Procs, WriteFails(p) PROVE Undisturbed'
  BY <1>13
    DEF WriteFails, Fails, Result, Goto, Undisturbed, Keyless, KeylessInv,
        Shapes, Procs, Labels, Syncing, vars
<1>14. ASSUME NEW p \in Procs, Dies(p) PROVE Undisturbed'
  BY <1>14
    DEF Dies, Blank, Goto, Undisturbed, Keyless, KeylessInv, Shapes, Procs,
        Labels, Syncing, vars
<1>15. ASSUME AlreadyConfigured PROVE Undisturbed'
  BY <1>15
    DEF AlreadyConfigured, UpToDate, SourcesMatch, Result, Goto, Undisturbed,
        Keyless, KeylessInv, Shapes, Procs, Labels, Syncing, vars
<1>16. ASSUME Mismatch PROVE Undisturbed'
  BY <1>16
    DEF Mismatch, Goto, Undisturbed, Keyless, KeylessInv, Shapes, Procs,
        Labels, Syncing, vars
<1>17. ASSUME Wake PROVE Undisturbed'
  BY <1>17
    DEF Wake, Goto, Undisturbed, Keyless, KeylessInv, Shapes, Procs, Labels,
        Syncing, vars
<1>18. ASSUME Rotate PROVE Undisturbed'
  BY <1>18
    DEF Rotate, Undisturbed, Keyless, KeylessInv, Shapes, Procs, Labels,
        Syncing, vars
<1>19. ASSUME Enroll PROVE Undisturbed'
  BY <1>19
    DEF Enroll, Goto, Undisturbed, Keyless, KeylessInv, Shapes, Procs, Labels,
        Syncing, vars
<1>20. ASSUME Lost PROVE Undisturbed'
  BY <1>20
    DEF Lost, Disturb, NoFile, Undisturbed, Keyless, KeylessInv, Shapes,
        Procs, Labels, Syncing, vars
<1>21. ASSUME UNCHANGED vars PROVE Undisturbed'
  BY <1>21
    DEF vars, Undisturbed, Keyless, KeylessInv, Shapes, Procs, Labels,
        Syncing, vars
<1>. QED
  BY <1>1, <1>2, <1>3, <1>4, <1>5, <1>6, <1>7, <1>8, <1>9, <1>10, <1>11,
     <1>12, <1>13, <1>14, <1>15, <1>16, <1>17, <1>18, <1>19, <1>20, <1>21
    DEF Next, Provision

\* The end of an undisturbed sync leaves the key and the sources of one
\* version, and they stay until somebody else writes.
LEMMA HealthyStep ==
    ASSUME Shapes, KeylessInv, Undisturbed, HealthyMeansInstalled, [Next]_vars
    PROVE  HealthyMeansInstalled'
<1>1. ASSUME NEW p \in Procs, Fetch(p) PROVE HealthyMeansInstalled'
  BY <1>1, ZeroIsNoVersion
    DEF Fetch, Goto, HealthyMeansInstalled, Healthy, Installed, Undisturbed,
        Keyless, KeylessInv, Shapes, Procs, Labels, Syncing, vars
<1>2. ASSUME NEW p \in Procs, FetchFails(p) PROVE HealthyMeansInstalled'
  BY <1>2, ZeroIsNoVersion
    DEF FetchFails, Fails, Result, Goto, HealthyMeansInstalled, Healthy,
        Installed, Undisturbed, Keyless, KeylessInv, Shapes, Procs, Labels,
        Syncing, vars
<1>3. ASSUME NEW p \in Procs, UnknownDistro(p) PROVE HealthyMeansInstalled'
  BY <1>3, ZeroIsNoVersion
    DEF UnknownDistro, Fails, Result, Goto, HealthyMeansInstalled, Healthy,
        Installed, Undisturbed, Keyless, KeylessInv, Shapes, Procs, Labels,
        Syncing, vars
<1>4. ASSUME NEW p \in Procs, SkipKey(p) PROVE HealthyMeansInstalled'
  BY <1>4, ZeroIsNoVersion
    DEF SkipKey, Goto, HealthyMeansInstalled, Healthy, Installed, Undisturbed,
        Keyless, KeylessInv, Shapes, Procs, Labels, Syncing, vars
<1>5. ASSUME NEW p \in Procs, WriteKey(p) PROVE HealthyMeansInstalled'
  BY <1>5, ZeroIsNoVersion
    DEF WriteKey, Disturb, Goto, HealthyMeansInstalled, Healthy, Installed,
        Undisturbed, Keyless, KeylessInv, Shapes, Procs, Labels, Syncing, vars
<1>6. ASSUME NEW p \in Procs, KeyClash(p) PROVE HealthyMeansInstalled'
  BY <1>6, ZeroIsNoVersion
    DEF KeyClash, Fails, Result, Goto, HealthyMeansInstalled, Healthy,
        Installed, Undisturbed, Keyless, KeylessInv, Shapes, Procs, Labels,
        Syncing, vars
<1>7. ASSUME NEW p \in Procs, RenameKey(p) PROVE HealthyMeansInstalled'
  BY <1>7, ZeroIsNoVersion
    DEF RenameKey, AfterRename, Disturb, Goto, HealthyMeansInstalled, Healthy,
        Installed, Undisturbed, Keyless, KeylessInv, Shapes, Procs, Labels,
        Syncing, vars
<1>8. ASSUME NEW p \in Procs, LineThere(p) PROVE HealthyMeansInstalled'
  BY <1>8, ZeroIsNoVersion
    DEF LineThere, Result, Goto, HealthyMeansInstalled, Healthy, Installed,
        Undisturbed, Keyless, KeylessInv, Shapes, Procs, Labels, Syncing, vars
<1>9. ASSUME NEW p \in Procs, WriteSources(p) PROVE HealthyMeansInstalled'
  BY <1>9, ZeroIsNoVersion
    DEF WriteSources, NewLines, Disturb, Goto, HealthyMeansInstalled, Healthy,
        Installed, Undisturbed, Keyless, KeylessInv, Shapes, Procs, Labels,
        Syncing, vars
<1>10. ASSUME NEW p \in Procs, RenameSources(p) PROVE HealthyMeansInstalled'
  BY <1>10, ZeroIsNoVersion
    DEF RenameSources, AfterRename, Result, Disturb, Goto,
        HealthyMeansInstalled, Healthy, Installed, Undisturbed, Keyless,
        KeylessInv, Shapes, Procs, Labels, Syncing, vars
<1>11. ASSUME NEW p \in Procs, RenameFails(p) PROVE HealthyMeansInstalled'
  BY <1>11, ZeroIsNoVersion
    DEF RenameFails, Fails, Result, Goto, HealthyMeansInstalled, Healthy,
        Installed, Undisturbed, Keyless, KeylessInv, Shapes, Procs, Labels,
        Syncing, vars
<1>12. ASSUME NEW p \in Procs, ReadFails(p) PROVE HealthyMeansInstalled'
  BY <1>12, ZeroIsNoVersion
    DEF ReadFails, NewLines, Disturb, Goto, HealthyMeansInstalled, Healthy,
        Installed, Undisturbed, Keyless, KeylessInv, Shapes, Procs, Labels,
        Syncing, vars
<1>13. ASSUME NEW p \in Procs, WriteFails(p) PROVE HealthyMeansInstalled'
  BY <1>13, ZeroIsNoVersion
    DEF WriteFails, Fails, Result, Goto, HealthyMeansInstalled, Healthy,
        Installed, Undisturbed, Keyless, KeylessInv, Shapes, Procs, Labels,
        Syncing, vars
<1>14. ASSUME NEW p \in Procs, Dies(p) PROVE HealthyMeansInstalled'
  BY <1>14, ZeroIsNoVersion
    DEF Dies, Blank, Goto, HealthyMeansInstalled, Healthy, Installed,
        Undisturbed, Keyless, KeylessInv, Shapes, Procs, Labels, Syncing, vars
<1>15. ASSUME AlreadyConfigured PROVE HealthyMeansInstalled'
  BY <1>15, ZeroIsNoVersion
    DEF AlreadyConfigured, UpToDate, SourcesMatch, Result, Goto,
        HealthyMeansInstalled, Healthy, Installed, Undisturbed, Keyless,
        KeylessInv, Shapes, Procs, Labels, Syncing, vars
<1>16. ASSUME Mismatch PROVE HealthyMeansInstalled'
  BY <1>16, ZeroIsNoVersion
    DEF Mismatch, Goto, HealthyMeansInstalled, Healthy, Installed,
        Undisturbed, Keyless, KeylessInv, Shapes, Procs, Labels, Syncing, vars
<1>17. ASSUME Wake PROVE HealthyMeansInstalled'
  BY <1>17, ZeroIsNoVersion
    DEF Wake, Goto, HealthyMeansInstalled, Healthy, Installed, Undisturbed,
        Keyless, KeylessInv, Shapes, Procs, Labels, Syncing, vars
<1>18. ASSUME Rotate PROVE HealthyMeansInstalled'
  BY <1>18, ZeroIsNoVersion
    DEF Rotate, HealthyMeansInstalled, Healthy, Installed, Undisturbed,
        Keyless, KeylessInv, Shapes, Procs, Labels, Syncing, vars
<1>19. ASSUME Enroll PROVE HealthyMeansInstalled'
  BY <1>19, ZeroIsNoVersion
    DEF Enroll, Goto, HealthyMeansInstalled, Healthy, Installed, Undisturbed,
        Keyless, KeylessInv, Shapes, Procs, Labels, Syncing, vars
<1>20. ASSUME Lost PROVE HealthyMeansInstalled'
  BY <1>20, ZeroIsNoVersion
    DEF Lost, Disturb, NoFile, HealthyMeansInstalled, Healthy, Installed,
        Undisturbed, Keyless, KeylessInv, Shapes, Procs, Labels, Syncing, vars
<1>21. ASSUME UNCHANGED vars PROVE HealthyMeansInstalled'
  BY <1>21, ZeroIsNoVersion
    DEF vars, HealthyMeansInstalled, Healthy, Installed, Undisturbed, Keyless,
        KeylessInv, Shapes, Procs, Labels, Syncing, vars
<1>. QED
  BY <1>1, <1>2, <1>3, <1>4, <1>5, <1>6, <1>7, <1>8, <1>9, <1>10, <1>11,
     <1>12, <1>13, <1>14, <1>15, <1>16, <1>17, <1>18, <1>19, <1>20, <1>21
    DEF Next, Provision

\* The initial state satisfies the invariant.
LEMMA RepoInit == Init => RepoInv
BY RepoAssumption
   DEF Init, RepoInv, Shapes, SingleSource, OneLine, Appended, KeylessInv, Keyless,
       Undisturbed, HealthyMeansInstalled, Healthy, IsApk, NoFile, Blank, Procs, Labels, Syncing

\* The invariant holds in every reachable state.
LEMMA RepoInvHolds == Spec => []RepoInv
<1>1. RepoInv /\ [Next]_vars => RepoInv'
  BY ShapesStep, SingleStep, AppendedStep, KeylessStep, UndisturbedStep, HealthyStep
     DEF RepoInv
<1>. QED
  BY <1>1, RepoInit, PTL DEF Spec

\* Every reachable state is well typed, and no sources file but Alpine's ever
\* has more than one line.
THEOREM RepoTypes == Spec => []TypeOK
<1>1. ASSUME NEW s, OneLine(s) PROVE Cardinality(s) <= 1
  <2>1. Cardinality({}) = 0 /\ \A v : Cardinality({v}) = 1
    BY FS_EmptySet, FS_Singleton
  <2>. QED
    BY <1>1, <2>1 DEF OneLine
<1>2. RepoInv => TypeOK
  BY <1>1 DEF RepoInv, Shapes, SingleSource, TypeOK, Labels
<1>. QED
  BY <1>2, RepoInvHolds, PTL

\* provision_alpine_repo_config keeps the other repositories of an Alpine host,
\* however syncs and enrollments interleave and die, unless the file once could
\* not be read.
THEOREM AdminLinesAreKept == Spec => []AdminLinesKept
<1>1. RepoInv => AdminLinesKept
  BY DEF RepoInv, Appended, AdminLinesKept
<1>. QED
  BY <1>1, RepoInvHolds, PTL

\* A host that reports itself healthy has the key of the repository in its
\* sources, if nobody else touched the files since its last sync began.
THEOREM HealthyIsInstalled == Spec => []HealthyMeansInstalled
<1>1. RepoInv => HealthyMeansInstalled
  BY DEF RepoInv
<1>. QED
  BY <1>1, RepoInvHolds, PTL

=============================================================================
