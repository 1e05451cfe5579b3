-------------------------------- MODULE Ipam --------------------------------
(***************************************************************************)
(* The address allocator of a node (src/ipam.rs), as operators on its      *)
(* state.  An address is its last octet: a node has one /24 slice, and the *)
(* addresses that reach the allocator are of that slice.                   *)
(***************************************************************************)
EXTENDS Integers

CONSTANTS
    BroadcastHost,   \* BROADCAST_HOST: the first octet past the usable ones
    NoIp             \* Option::None for addresses

(* FIRST_HOST *)
FirstHost == 2

ASSUME PoolAssumption == BroadcastHost \in Nat /\ BroadcastHost >= FirstHost /\ NoIp \notin Nat

Host == FirstHost .. BroadcastHost - 1

Smallest(S) == CHOOSE h \in S : \A g \in S : h <= g

(* from_cidr *)
FreshPool == [next |-> FirstHost, released |-> {}, allocated |-> {}]

(* What the cursor has not passed and nobody holds.                        *)
Ahead(a) == {h \in a.next .. BroadcastHost - 1 : h \notin a.allocated}

(* allocate: a released address first, else the cursor moves on.  With     *)
(* nothing left it has moved to the end, and the call fails.               *)
Allocate(a) ==
    IF a.released # {}
    THEN LET h == Smallest(a.released)
         IN  [ip |-> h, pool |-> [a EXCEPT !.released = @ \ {h}, !.allocated = @ \cup {h}]]
    ELSE IF Ahead(a) # {}
    THEN LET h == Smallest(Ahead(a))
         IN  [ip |-> h, pool |-> [a EXCEPT !.next = h + 1, !.allocated = @ \cup {h}]]
    ELSE [ip |-> NoIp, pool |-> [a EXCEPT !.next = BroadcastHost]]

(* reserve *)
ReserveKeepsFree(a, h) == [a EXCEPT !.allocated = @ \cup {h}]
Reserve(a, h) == [a EXCEPT !.released = @ \ {h}, !.allocated = @ \cup {h}]

(* release, of one address or several; what is not allocated is left alone *)
ReleaseAll(a, H) == [a EXCEPT !.allocated = @ \ H, !.released = @ \cup (H \cap a.allocated)]
Release(a, h) == ReleaseAll(a, {h})

(* No address is both free and in use, and none that the cursor has passed *)
(* is lost: it is in use or waits to be used again.                        *)
Sound(a) ==
    /\ a.next \in FirstHost .. BroadcastHost
    /\ a.released \subseteq Host /\ a.allocated \subseteq Host
    /\ a.released \cap a.allocated = {}
    /\ FirstHost .. a.next - 1 \subseteq a.released \cup a.allocated
=============================================================================
