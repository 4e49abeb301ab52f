----------------------------- MODULE DhcpLeases -----------------------------
(***************************************************************************)
(* The lease table of the access point's DHCP server (dhcp_server_process of    *)
(* src/dhcpserver.c) and the clients that ask it.                             *)
(*                                                                         *)
(* Time is in ticks of a clock that wraps at Wrap (2^32 ms); the server keeps   *)
(* the end of a lease in blocks of Block ticks (65536 ms) and compares by a      *)
(* signed difference.  X_Variant is X with a plausible mistake.                *)
(***************************************************************************)
EXTENDS Integers

CONSTANTS
    Clients,    \* hardware addresses
    Addresses,  \* DHCPS_MAX_IP: the slots of the table are 0..Addresses-1
    Lease,      \* length of a lease
    Block, Wrap,
    MaxClock    \* bound: how long it is looked at

ASSUME DhcpLeasesAssumption ==
    /\ Addresses \in Nat \ {0} /\ Block \in Nat \ {0} /\ Lease \in Nat \ {0}
    /\ Wrap \in Nat \ {0} /\ Wrap % (2 * Block) = 0 /\ 2 * (Lease + Block) < Wrap
    /\ MaxClock \in Nat

VARIABLES
    leases,  \* per slot: the client, {} if it is free, and the block it ends in
    holds,   \* per client: the address it uses, {} if none, and until when
    offered, \* per client: what the server offered it last
    clock    \* time since the start

leaseVars == <<leases, holds, offered, clock>>

Slot == 0..(Addresses - 1)
Nothing == [slot |-> {}, until |-> 0]

DhcpInit ==
    /\ leases = [i \in Slot |-> [mac |-> {}, expiry |-> 0]]
    /\ holds = [c \in Clients |-> Nothing] /\ offered = [c \in Clients |-> {}] /\ clock = 0

Now == clock % Wrap

(* (int32_t)((expiry << 16 | 0xffff) - now) < 0                               *)
Expired_Variant(i) == (leases[i].expiry * Block - Now) % Wrap >= Wrap \div 2
Expired(i) == (leases[i].expiry * Block + (Block - 1) - Now) % Wrap >= Wrap \div 2

OfClient(c) == {i \in Slot : leases[i].mac = {c}}
FreeSlots == {i \in Slot : leases[i].mac = {} \/ Expired(i)}
FirstOf(S) == {i \in S : \A j \in S : i <= j}

(* Until the client's own slot is met or a slot is chosen, expired leases are    *)
(* struck out; the client's own slot wins also over a chosen one.             *)
Discover(c) ==
    LET own == FirstOf(OfClient(c))
        yi  == IF own # {} THEN own ELSE FirstOf(FreeSlots)
        met == {i \in Slot : /\ \A j \in FirstOf(FreeSlots) : i <= j
                             /\ \A j \in own : i < j}
    IN /\ leases' = [i \in Slot |-> IF i \in met /\ Expired(i)
                                    THEN [leases[i] EXCEPT !.mac = {}] ELSE leases[i]]
       /\ offered' = [offered EXCEPT ![c] = yi]
       /\ UNCHANGED <<holds, clock>>

(* A request for the slot that was offered or that the client already uses; the   *)
(* acknowledgement may be lost, and what is refused is not answered.            *)
DhcpRequest(c, i, arrives) ==
    /\ i \in offered[c] \cup holds[c].slot
    /\ leases[i].mac \subseteq {c}
    /\ leases' = [leases EXCEPT ![i] =
                    [mac |-> {c}, expiry |-> ((Now + Lease) % Wrap) \div Block]]
    /\ holds' = IF arrives THEN [holds EXCEPT ![c] = [slot |-> {i}, until |-> clock + Lease]]
                ELSE holds
    /\ UNCHANGED <<offered, clock>>

(* Time passes; a client gives its address up when the lease has ended.         *)
Tick ==
    /\ clock < MaxClock /\ clock' = clock + 1
    /\ holds' = [c \in Clients |-> IF holds[c].until <= clock' THEN Nothing ELSE holds[c]]
    /\ UNCHANGED <<leases, offered>>

DhcpNext ==
    \/ Tick
    \/ \E c \in Clients : Discover(c)
    \/ \E c \in Clients, i \in Slot, arrives \in BOOLEAN : DhcpRequest(c, i, arrives)
DhcpSpec == DhcpInit /\ [][DhcpNext]_leaseVars

-----------------------------------------------------------------------------
(* No two clients use one address at the same time, also when offers cross,     *)
(* acknowledgements are lost, leases end, and the clock wraps                  *)
(* (dhcp_server_process, the rounding and the comparison of the expiry).        *)
OneHolder ==
    \A c, d \in Clients : c # d => holds[c].slot \cap holds[d].slot = {}

(* An address nobody uses can be had: not so in this code, where a lease that    *)
(* nobody asked about for half a turn of the clock looks valid again.            *)
AddressesReturn ==
    (\A c \in Clients : holds[c] = Nothing) /\ clock > 2 * (Lease + Block) => FreeSlots # {}
=============================================================================
