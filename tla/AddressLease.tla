---------------------------- MODULE AddressLease -----------------------------
(***************************************************************************)
(* What the address pool of the SMF promises the PDU sessions, without its *)
(* bit map: an address that is free may be leased to a session, and is     *)
(* free again only once that session has returned it.  A session that is   *)
(* dropped without returning its address keeps it.  When the SMF restarts  *)
(* every lease ends.                                                       *)
(***************************************************************************)
CONSTANTS
    Holders,    \* PDU session objects
    Addresses,
    NoAddr

VARIABLES
    held,   \* the address each session holds, or NoAddr
    free    \* the addresses that can be leased

lvars == <<held, free>>

LeaseInit ==
    /\ held = [h \in Holders |-> NoAddr]
    /\ free = Addresses

Lease(h) ==
    /\ held[h] = NoAddr
    /\ \E a \in free :
          /\ held' = [held EXCEPT ![h] = a]
          /\ free' = free \ {a}

Return(h) ==
    /\ held[h] # NoAddr
    /\ held' = [held EXCEPT ![h] = NoAddr]
    /\ free' = free \cup {held[h]}

EndLeases ==
    /\ held' = [h \in Holders |-> NoAddr]
    /\ free' = Addresses

LeaseNext == EndLeases \/ \E h \in Holders : Lease(h) \/ Return(h)

LeaseSpec == LeaseInit /\ [][LeaseNext]_lvars
------------------------------------------------------------------------------
(* No address is held by two sessions, and none that is held is free       *)
(* (alloc_address and free_address of ipv4_pool).                          *)
Exclusive ==
    /\ \A h \in Holders : held[h] # NoAddr => held[h] \notin free
    /\ \A g, h \in Holders : held[g] = held[h] /\ held[g] # NoAddr => g = h
==============================================================================
