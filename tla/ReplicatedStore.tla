-------------------------- MODULE ReplicatedStore --------------------------
(***************************************************************************)
(* The API server in Raft mode: raft_glue.rs, applier.rs and command.rs on *)
(* top of the replicated log.                                              *)
(*                                                                         *)
(* A handler turns a write into a command with a fresh id, registers a     *)
(* mailbox under that id, proposes the command and waits.  Each replica's  *)
(* apply loop takes committed commands in log order, applies them to its   *)
(* own store and resolves the mailbox if it holds one.                     *)
(*                                                                         *)
(* The raft layer appears through what it promises (ReplicatedLog, which   *)
(* Raft implements): one growing sequence `chosen`, of which every replica *)
(* consumes a prefix, from the start again after a restart.  An accepted   *)
(* proposal may be chosen late or never; one that reaches a replica which  *)
(* is not the leader any more is dropped with a warning.                   *)
(*                                                                         *)
(* The stores are in the same sled database as the raft log and survive a  *)
(* restart.                                                                *)
(***************************************************************************)
EXTENDS Store, Sequences

CONSTANTS
    Replica,      \* API server replicas
    MaxRequests,  \* bound: write requests in one behaviour
    MaxRv,        \* bound: highest resourceVersion a client sends back
    MaxRestarts   \* bound: restarts in one behaviour

ASSUME RequestAssumption == {MaxRequests, MaxRv, MaxRestarts} \subseteq Nat

VARIABLES
    store,      \* [Replica -> its ResourceStore]
    delivered,  \* [Replica -> commands applied since it booted]
    pending,    \* [Replica -> ids that have a mailbox]
    chosen,     \* the replicated log
    proposed,   \* commands that some leader has accepted
    requests,   \* the write requests so far, a sequence; the id is the index
    restarts

vars == <<store, delivered, pending, chosen, proposed, requests, restarts>>

-----------------------------------------------------------------------------
(* Commands *)

(* rv is what the client believes, 0 where the operation has none.         *)
Commands(id) ==
    [id : {id}, op : {"Create"}, name : Name, rv : {0}, value : Value]
    \cup [id : {id}, op : {"ReplaceSpec", "ReplaceStatus"}, name : Name,
          rv : 1..MaxRv, value : Value]
    \cup [id : {id}, op : {"Delete"}, name : Name, rv : 1..MaxRv, value : {NoValue}]

(* What replica r makes of the object in a command.  It is the same on     *)
(* every r: the object was stamped before it was proposed, so its uid      *)
(* comes with the command.                                                 *)
StampedAtApply(r, c) == [uid |-> r, spec |-> c.value, status |-> NoValue, rv |-> c.rv]
Payload(r, c) == [uid |-> c.id, spec |-> c.value, status |-> NoValue, rv |-> c.rv]

(* Applier::apply on replica r.                                            *)
Apply(r, st, c) ==
    CASE c.op = "Create"        -> CreatePrestamped(st, c.name, Payload(r, c))
      [] c.op = "ReplaceSpec"   -> ReplaceSpec(st, c.name, Payload(r, c))
      [] c.op = "ReplaceStatus" -> ReplaceStatus(st, c.name, c.rv, c.value)
      [] c.op = "Delete"        -> Delete(st, c.name, c.rv)

-----------------------------------------------------------------------------
(* RaftProposer::submit *)

Open(id) == requests[id].state \in {"registered", "waiting"}

SetState(id, s) == requests' = [requests EXCEPT ![id].state = s]

(* ensure_leader lets the request pass (its hint may be stale), and the    *)
(* mailbox is registered before anything is proposed.                      *)
RegisterNothing(r) ==
    /\ Len(requests) < MaxRequests
    /\ \E c \in Commands(Len(requests) + 1) :
          requests' = Append(requests, [cmd |-> c, replica |-> r, state |-> "registered"])
    /\ UNCHANGED <<store, delivered, pending, chosen, proposed, restarts>>
Register(r) ==
    /\ Len(requests) < MaxRequests
    /\ pending' = [pending EXCEPT ![r] = @ \cup {Len(requests) + 1}]
    /\ \E c \in Commands(Len(requests) + 1) :
          requests' = Append(requests, [cmd |-> c, replica |-> r, state |-> "registered"])
    /\ UNCHANGED <<store, delivered, chosen, proposed, restarts>>

(* The proposal reaches the raft shell, which takes it or, not leading,    *)
(* drops it.                                                               *)
Propose(id) ==
    /\ requests[id].state = "registered"
    /\ SetState(id, "waiting")
    /\ proposed' \in {proposed, proposed \cup {requests[id].cmd}}
    /\ UNCHANGED <<store, delivered, pending, chosen, restarts>>

(* WRITE_TIMEOUT: the mailbox is swept and the client told "write timed    *)
(* out (not committed)".                                                   *)
TimeoutLeaks(id) ==
    /\ requests[id].state = "waiting"
    /\ SetState(id, "TimedOut")
    /\ UNCHANGED <<store, delivered, pending, chosen, proposed, restarts>>
Timeout(id) ==
    /\ requests[id].state = "waiting"
    /\ SetState(id, "TimedOut")
    /\ pending' = [pending EXCEPT ![requests[id].replica] = @ \ {id}]
    /\ UNCHANGED <<store, delivered, chosen, proposed, restarts>>

-----------------------------------------------------------------------------
(* apply_loop *)

(* Resolve the mailbox of command id, if this replica has one.             *)
ResolveAny(r, id, result) ==
    IF pending[r] # {}
    THEN LET p == CHOOSE i \in pending[r] : TRUE
         IN  /\ pending' = [pending EXCEPT ![r] = @ \ {p}]
             /\ SetState(p, result)
    ELSE UNCHANGED <<pending, requests>>
Resolve(r, id, result) ==
    IF id \in pending[r]
    THEN /\ pending' = [pending EXCEPT ![r] = @ \ {id}]
         /\ SetState(id, result)
    ELSE UNCHANGED <<pending, requests>>

Consume(r, c) ==
    LET outcome == Apply(r, store[r], c)
    IN  /\ store' = [store EXCEPT ![r] = outcome.store]
        /\ delivered' = [delivered EXCEPT ![r] = @ + 1]
        /\ Resolve(r, c.id, outcome.result)
        /\ UNCHANGED <<proposed, restarts>>

(* The next command somebody has already applied.                          *)
Follow(r) ==
    /\ delivered[r] < Len(chosen)
    /\ Consume(r, chosen[delivered[r] + 1])
    /\ UNCHANGED chosen

(* The first to apply a command: which proposal comes next is raft's       *)
(* choice, and each is chosen at most once.                                *)
Lead(r) ==
    /\ delivered[r] = Len(chosen)
    /\ \E c \in proposed :
          /\ \A i \in 1..Len(chosen) : chosen[i] # c
          /\ chosen' = Append(chosen, c)
          /\ Consume(r, c)

(* The process restarts.  Mailboxes, and the position in the log, are      *)
(* gone; requests end with their connections; the store is what it was.    *)
Restart(r) ==
    /\ restarts < MaxRestarts
    /\ restarts' = restarts + 1
    /\ delivered' = [delivered EXCEPT ![r] = 0]
    /\ pending' = [pending EXCEPT ![r] = {}]
    /\ requests' = [id \in 1..Len(requests) |->
          IF requests[id].replica = r /\ Open(id)
          THEN [requests[id] EXCEPT !.state = "Broken"] ELSE requests[id]]
    /\ UNCHANGED <<store, chosen, proposed>>

-----------------------------------------------------------------------------
Init ==
    /\ store = [r \in Replica |-> EmptyStore]
    /\ delivered = [r \in Replica |-> 0]
    /\ pending = [r \in Replica |-> {}]
    /\ chosen = << >>
    /\ proposed = {}
    /\ requests = << >>
    /\ restarts = 0

Next ==
    \/ \E r \in Replica : Register(r) \/ Follow(r) \/ Lead(r) \/ Restart(r)
    \/ \E id \in 1..Len(requests) : Propose(id) \/ Timeout(id)

Spec == Init /\ [][Next]_vars

-----------------------------------------------------------------------------
(* Properties *)

(* The store that the first i commands of the log define.                  *)
StateAfter ==
    LET f[i \in 0..Len(chosen)] ==
          IF i = 0 THEN EmptyStore
          ELSE Apply(requests[chosen[i].id].replica, f[i - 1], chosen[i]).store
    IN  f

(* Type invariant.                                                         *)
TypeOK ==
    /\ \A r \in Replica : /\ store[r].rv \in Nat
                          /\ store[r].objs \in [Name -> Object \cup {Absent}]
                          /\ delivered[r] \in 0..Len(chosen)
                          /\ pending[r] \subseteq 1..Len(requests)
    /\ \A c \in proposed : c \in Commands(c.id)
    /\ \A i \in 1..Len(chosen) : chosen[i] \in proposed
    /\ restarts \in 0..MaxRestarts

(* As long as nobody has restarted every replica's store is the replay of  *)
(* the prefix of the log it has applied: applying depends on nothing but   *)
(* the command and the store (applier.rs, "Deterministic by construction").*)
StoresFollowTheLog ==
    restarts = 0 => \A r \in Replica : store[r] = StateAfter[delivered[r]]

(* A client that got an answer got the outcome of its own command at its   *)
(* place in the log, though other commands were chosen in between and      *)
(* however late the command is applied (as long as nobody has restarted).  *)
AnswersAreTrue ==
    restarts = 0 => \A id \in 1..Len(requests) :
        requests[id].state \in {"Ok", "NotFound", "AlreadyExists", "Conflict"} =>
            \E i \in 1..Len(chosen) :
                /\ chosen[i] = requests[id].cmd
                /\ requests[id].state =
                      Apply(requests[id].replica, StateAfter[i - 1], chosen[i]).result

(* Mailboxes are exactly those of the open requests: none leaks when a     *)
(* request times out or its command is applied.                            *)
MailboxesMatchRequests ==
    \A r \in Replica :
        pending[r] = {id \in 1..Len(requests) : requests[id].replica = r /\ Open(id)}

(* "Register the mailbox BEFORE proposing, so the apply loop can never     *)
(* resolve it before we're listening": no request waits for a command that *)
(* its replica has already applied.                                        *)
NoMissedOutcome ==
    \A id \in 1..Len(requests) : Open(id) =>
        \A i \in 1..delivered[requests[id].replica] : chosen[i] # requests[id].cmd

(* command.rs: "every replica applies the same commands in the same order  *)
(* -> identical stores".  Two replicas that have both applied the whole    *)
(* log hold the same objects.                                              *)
IdenticalStores ==
    \A a, b \in Replica :
        delivered[a] = Len(chosen) /\ delivered[b] = Len(chosen) =>
            store[a].objs = store[b].objs
=============================================================================
