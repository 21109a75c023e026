------------------------------ MODULE Whitelist ------------------------------
(***************************************************************************)
(* The IP allow list (src/auth/whitelist.rs): its entries, how the file is *)
(* parsed into the set in memory, and the check of an address.  Addresses  *)
(* have Width bits where the code has 32; the arithmetic is the code's.    *)
(***************************************************************************)
EXTENDS Integers, FiniteSets

CONSTANTS
    Width,      \* bits of an address (32)
    HostAddrs   \* the addresses a host name may resolve to

ASSUME WhitelistAssumption ==
    /\ Width \in Nat \ {0}
    /\ HostAddrs \subseteq 0 .. 2^Width - 1

Addresses == 0 .. 2^Width - 1

\* Entries as they stand in the file: an address, a network with a prefix (any
\* 8-bit number), or a host name.  Names that stay unresolved are dropped.
IpEntry(a)      == [kind |-> "ip", addr |-> a, prefix |-> Width]
CidrEntry(a, p) == [kind |-> "cidr", addr |-> a, prefix |-> p]
HostEntry       == [kind |-> "host", addr |-> 0, prefix |-> Width]
Entries         == [kind : {"ip", "cidr", "host"}, addr : Addresses, prefix : 0 .. 255]

\* As Mask, but one bit short.
MaskOneShort(p) == IF p = 0 THEN 0 ELSE ((2^Width - 1) * 2^(Width - p + 1)) % 2^Width

\* u32 arithmetic: a shift by the full width is not defined, hence the case of
\* prefix 0.
Mask(p) == IF p = 0 THEN 0 ELSE ((2^Width - 1) * 2^(Width - p)) % 2^Width

\* The bits of a number that are set; AND of two numbers is their intersection.
Bits(n) == {k \in 0 .. Width - 1 : (n \div 2^k) % 2 = 1}

IpInSubnet(ip, network, p) == Bits(ip) \cap Bits(Mask(p)) = Bits(network) \cap Bits(Mask(p))

\* WhitelistManager::is_allowed on the parsed entries.
IsAllowed(entries, ip) ==
    \E e \in entries :
        CASE e.kind = "cidr" -> IpInSubnet(ip, e.addr, e.prefix)
          [] OTHER           -> ip = e.addr

\* parse_entries: one bad network fails the whole file; a name becomes one of
\* its addresses, or nothing.
ParseFails(file) ==
    file.kind # "yaml" \/ \E e \in file.entries : e.kind = "cidr" /\ e.prefix > Width

Parsed(file) ==
    LET fixed == {e \in file.entries : e.kind # "host"}
    IN  IF fixed = file.entries
          THEN {fixed}
          ELSE {fixed} \cup {fixed \cup {[HostEntry EXCEPT !.addr = a]} : a \in HostAddrs}

\* main: WhitelistManager::new, or new_deny_all when it fails.
Loaded(file) == IF ParseFails(file) THEN {{}} ELSE Parsed(file)

-----------------------------------------------------------------------------
(* Reference: the addresses an entry stands for, as a range of numbers. *)

RangeOf(e) ==
    CASE e.kind = "ip"   -> {e.addr}
      [] e.kind = "host" -> HostAddrs
      [] e.kind = "cidr" ->
            LET size  == 2^(Width - e.prefix)
                first == e.addr - (e.addr % size)
            IN  first .. (first + size - 1)

=============================================================================
