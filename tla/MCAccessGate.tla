---------------------------- MODULE MCAccessGate -----------------------------
(* AccessGate for TLC. *)
EXTENDS AccessGate, TLC

CONSTANTS a, b, w1, w2

MCBackoff  == <<1, 2>>
MCBurst    == ("destructive" :> 2) @@ ("read" :> 1)
Yaml(S)    == [kind |-> "yaml", entries |-> S]

\* Networks of every prefix length, also one too long; names; no file.
MCFiles ==
    { Yaml({CidrEntry(5, 2), IpEntry(1)}), Yaml({CidrEntry(6, 0)}),
      Yaml({CidrEntry(5, 1), HostEntry}), Yaml({CidrEntry(4, 3)}),
      Yaml({IpEntry(1), CidrEntry(5, 4)}), [kind |-> "missing", entries |-> {}] }
MCFile     == {Yaml({IpEntry(1)})}
MCLater    == Yaml({CidrEntry(0, 1)})

Scenario(m, r, d, n, x, i, c, q, e) ==
    [manager |-> m, revokes |-> r, damages |-> d, renews |-> n, deaths |-> x,
     ioErrors |-> i, connects |-> c, requests |-> q, edits |-> e]

\* The list under every fault, and the gate of an agent without a manager.
MCBudgets ==
    { Scenario({"url", "slow"}, 1, 1, 0, 1, 0, 0, 0, 0),
      Scenario({"url", "cached"}, 2, 0, 0, 2, 1, 0, 0, 0),
      Scenario({"url"}, 1, 0, 1, 1, 1, 0, 0, 0),
      Scenario({}, 0, 0, 0, 0, 0, 2, 3, 0), Scenario({}, 0, 0, 0, 1, 0, 2, 1, 1) }
MCQuiet == {Scenario({"url"}, 0, 0, 0, 0, 0, 0, 0, 0)}

\* Only the gate's scenario varies the allow list and the file of the list.
MCInit ==
    /\ Init
    /\ HasManager => wlFile = CHOOSE f \in FirstFiles : TRUE
    /\ ~ HasManager => disk = Missing
MCSpec == MCInit /\ [][Next]_vars /\ Fairness

\* Minutes, as in the code: 1, 5, 15 and 60 of backoff.
CodeBackoff == <<1, 5, 15, 60>>

=============================================================================
