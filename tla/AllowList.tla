------------------------------ MODULE AllowList ------------------------------
(***************************************************************************)
(* What WhitelistManager::append_entry promises of the file it shares with *)
(* every other process of the host: an append happens at once, adds one    *)
(* address to all that are there, and is reported only when it has         *)
(* happened.  Nothing else changes the file.                               *)
(***************************************************************************)
CONSTANT Ips

VARIABLES
    entries,    \* the addresses in the file
    confirmed   \* the addresses whose append was reported

listVars == <<entries, confirmed>>

Init == entries = {} /\ confirmed = {}

Append(i) ==
    /\ entries' = entries \cup {i}
    /\ confirmed' = confirmed \cup {i}

\* The address was there already.
Confirm(i) ==
    /\ i \in entries
    /\ confirmed' = confirmed \cup {i}
    /\ UNCHANGED entries

Next == \E i \in Ips : Append(i) \/ Confirm(i)

Spec == Init /\ [][Next]_listVars

=============================================================================
