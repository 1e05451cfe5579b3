---------------------------- MODULE ReplicatedLog ----------------------------
(***************************************************************************)
(* What the raft layer promises the API server.  There is one growing      *)
(* sequence of chosen entries; every replica consumes, in order, a prefix  *)
(* of it.  A replica that restarts starts consuming again from the first   *)
(* entry, because commit_index and last_applied are volatile.              *)
(*                                                                         *)
(* The header of src/raft/sim_tests.rs calls this State Machine Safety:    *)
(* "all apply streams are prefixes of each other".                         *)
(***************************************************************************)
EXTENDS Naturals, Sequences

CONSTANTS Replica,      \* the API server replicas
          Item          \* what may be chosen

VARIABLES chosen,       \* every entry applied anywhere so far, in order
          stream        \* replica -> what it has applied since it booted

Prefix(s, t) == Len(s) <= Len(t) /\ \A i \in 1..Len(s) : s[i] = t[i]

Init ==
    /\ chosen = << >>
    /\ stream = [r \in Replica |-> << >>]

(* A replica consumes more entries; entries nobody has applied before are  *)
(* thereby chosen.                                                         *)
Deliver(r) ==
    /\ stream'[r] \in Seq(Item)
    /\ Prefix(stream[r], stream'[r])
    /\ stream' = [stream EXCEPT ![r] = stream'[r]]
    /\ Prefix(chosen, chosen')
    /\ Prefix(stream'[r], chosen')
    /\ chosen' \in {chosen, stream'[r]}

(* A replica restarts and forgets how far it had come.                     *)
Reset(r) ==
    /\ stream' = [stream EXCEPT ![r] = << >>]
    /\ UNCHANGED chosen

Next == \E r \in Replica : Deliver(r) \/ Reset(r)

Spec == Init /\ [][Next]_<<chosen, stream>>
==============================================================================
