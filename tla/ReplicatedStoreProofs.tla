----------------------- MODULE ReplicatedStoreProofs -----------------------
(***************************************************************************)
(* The safety properties of ReplicatedStore.tla for any number of          *)
(* replicas, requests, names, values and restarts.                         *)
(***************************************************************************)
EXTENDS ReplicatedStore, WellFoundedInduction, TLAPS

-----------------------------------------------------------------------------
(* Applying a command *)

StoreType == [rv : Nat, objs : [Name -> Object \cup {Absent}]]
Results == {"Ok", "NotFound", "AlreadyExists", "Conflict"}

(* The four kinds of commands.                                             *)
LEMMA CommandFields ==
    ASSUME NEW id, NEW c \in Commands(id)
    PROVE  /\ c.id = id /\ c.name \in Name
           /\ c.op \in {"Create", "ReplaceSpec", "ReplaceStatus", "Delete"}
           /\ c.op # "Delete" => c.value \in Value
BY DEF Commands

(* A transaction that commits leaves a store.                              *)
LEMMA StoredIsStore ==
    ASSUME NEW st \in StoreType, NEW n \in Name, NEW obj \in Object, NEW type
    PROVE  /\ Stored(st, n, type, obj).result = "Ok"
           /\ Stored(st, n, type, obj).store \in StoreType
<1> DEFINE o == [obj EXCEPT !.rv = BumpRv(st, n)]
<1>1. o \in Object /\ o.rv = st.rv + 1 /\ o.rv \in Nat
  BY DEF BumpRv, StoreType, Object
<1>2. [rv |-> o.rv, objs |-> [st.objs EXCEPT ![n] = o]] \in StoreType
  <2> HIDE DEF o
  <2> QED
    BY <1>1 DEF StoreType
<1> HIDE DEF o
<1> QED
  BY <1>2 DEF Stored, o

LEMMA CheckRvResult ==
    ASSUME NEW st, NEW n, NEW rv
    PROVE  /\ CheckRv(st, n, rv) \in Results
           /\ CheckRv(st, n, rv) = "Ok" => st.objs[n] # Absent
BY DEF CheckRv, Results

LEMMA DeleteIsStore ==
    ASSUME NEW st \in StoreType, NEW n \in Name, NEW rv
    PROVE  Delete(st, n, rv).result \in Results /\ Delete(st, n, rv).store \in StoreType
<1>1. CASE CheckRv(st, n, rv) # "Ok"
  BY <1>1, CheckRvResult DEF Delete, Refused
<1>2. CASE CheckRv(st, n, rv) = "Ok"
  <2> DEFINE s == Stored(st, n, "Deleted", st.objs[n])
  <2>1. st.objs[n] \in Object
    BY <1>2, CheckRvResult DEF StoreType
  <2>2. s.result = "Ok" /\ s.store \in StoreType
    BY <2>1, StoredIsStore
  <2>3. s = [result |-> s.result, store |-> s.store, event |-> s.event]
    BY DEF Stored
  <2>4. Delete(st, n, rv) = [s EXCEPT !.store.objs[n] = Absent]
    BY <1>2 DEF Delete
  <2> HIDE DEF s
  <2>5. /\ Delete(st, n, rv).result = s.result
        /\ Delete(st, n, rv).store = [s.store EXCEPT !.objs[n] = Absent]
    BY <2>3, <2>4
  <2>6. [s.store EXCEPT !.objs[n] = Absent] \in StoreType
    BY <2>2 DEF StoreType
  <2> QED
    BY <2>2, <2>5, <2>6 DEF Results
<1> QED
  BY <1>1, <1>2

(* Applier::apply answers with one of four results and leaves a store.     *)
LEMMA ApplyIsStore ==
    ASSUME NEW r, NEW st \in StoreType, NEW id \in Nat, NEW c \in Commands(id)
    PROVE  Apply(r, st, c).result \in Results /\ Apply(r, st, c).store \in StoreType
<1>1. CASE c.op = "Create"
  <2>1. Payload(r, c) \in Object
    BY <1>1 DEF Payload, Object, Commands
  <2>2. Apply(r, st, c) = CreatePrestamped(st, c.name, Payload(r, c))
    BY <1>1 DEF Apply
  <2> QED
    BY <2>1, <2>2, StoredIsStore, CommandFields DEF CreatePrestamped, Refused, Results
<1>2. CASE c.op = "ReplaceSpec"
  <2>1. Payload(r, c) \in Object
    BY <1>2, RequestAssumption DEF Payload, Object, Commands
  <2>2. Apply(r, st, c) = ReplaceSpec(st, c.name, Payload(r, c))
    BY <1>2 DEF Apply
  <2>3. CASE CheckRv(st, c.name, Payload(r, c).rv) # "Ok"
    BY <2>2, <2>3, CheckRvResult DEF ReplaceSpec, Refused
  <2>4. CASE CheckRv(st, c.name, Payload(r, c).rv) = "Ok"
    <3> DEFINE obj == [Payload(r, c) EXCEPT !.uid = st.objs[c.name].uid,
                                            !.status = st.objs[c.name].status]
    <3>1. st.objs[c.name] \in Object
      BY <2>4, CheckRvResult, CommandFields DEF StoreType
    <3>2. obj \in Object
      BY <2>1, <3>1 DEF Object
    <3>3. Apply(r, st, c) = Stored(st, c.name, "Modified", obj)
      BY <2>2, <2>4 DEF ReplaceSpec
    <3> QED
      BY <3>2, <3>3, StoredIsStore, CommandFields DEF Results
  <2> QED
    BY <2>3, <2>4
<1>3. CASE c.op = "ReplaceStatus"
  <2>1. Apply(r, st, c) = ReplaceStatus(st, c.name, c.rv, c.value)
    BY <1>3 DEF Apply
  <2>2. CASE CheckRv(st, c.name, c.rv) # "Ok"
    BY <2>1, <2>2, CheckRvResult DEF ReplaceStatus, Refused
  <2>3. CASE CheckRv(st, c.name, c.rv) = "Ok"
    <3> DEFINE obj == [st.objs[c.name] EXCEPT !.status = c.value]
    <3>1. st.objs[c.name] \in Object
      BY <2>3, CheckRvResult, CommandFields DEF StoreType
    <3>2. obj \in Object
      BY <1>3, <3>1, CommandFields DEF Object
    <3>3. Apply(r, st, c) = Stored(st, c.name, "Modified", obj)
      BY <2>1, <2>3 DEF ReplaceStatus
    <3> QED
      BY <3>2, <3>3, StoredIsStore, CommandFields DEF Results
  <2> QED
    BY <2>2, <2>3
<1>4. CASE c.op = "Delete"
  BY <1>4, DeleteIsStore, CommandFields DEF Apply
<1> QED
  BY <1>1, <1>2, <1>3, <1>4, CommandFields

(* It does not matter on which replica a command is applied.               *)
LEMMA ApplyIsDeterministic ==
    ASSUME NEW r, NEW q, NEW st, NEW c
    PROVE  Apply(r, st, c) = Apply(q, st, c)
<1>1. Payload(r, c) = Payload(q, c)
  BY DEF Payload
<1> QED
  BY <1>1 DEF Apply

-----------------------------------------------------------------------------
(* Replaying the log.  g replays log l when it maps every number of        *)
(* commands to the store that they define.                                 *)

Outcome(st, c) == Apply(c.id, st, c)
Replays(g, l) ==
    g = [i \in 0..Len(l) |-> IF i = 0 THEN EmptyStore ELSE Outcome(g[i - 1], l[i]).store]

(* The recursion of StateAfter picks such a map, if there is one, whatever *)
(* the requests say about the replicas.                                    *)
LEMMA RecursionReplays ==
    ASSUME NEW l, NEW reqs, NEW g, Replays(g, l)
    PROVE  Replays(CHOOSE h : h = [i \in 0..Len(l) |->
                       IF i = 0 THEN EmptyStore
                       ELSE Apply(reqs[l[i].id].replica, h[i - 1], l[i]).store], l)
<1> DEFINE Body(h) == [i \in 0..Len(l) |->
                          IF i = 0 THEN EmptyStore
                          ELSE Apply(reqs[l[i].id].replica, h[i - 1], l[i]).store]
<1>1. ASSUME NEW h PROVE h = Body(h) <=> Replays(h, l)
  <2>1. \A i \in 0..Len(l) :
          Apply(reqs[l[i].id].replica, h[i - 1], l[i]) = Outcome(h[i - 1], l[i])
    BY ApplyIsDeterministic DEF Outcome
  <2> QED
    BY <2>1 DEF Replays
<1>2. g = Body(g)
  BY <1>1
<1>3. (CHOOSE h : h = Body(h)) = Body(CHOOSE h : h = Body(h))
  <2> HIDE DEF Body
  <2> QED
    BY <1>2
<1>4. Replays(CHOOSE h : h = Body(h), l)
  <2> HIDE DEF Body
  <2> QED
    BY <1>1, <1>3
<1> QED
  BY <1>4

(* Before and after a step, whichever variables it changes.                *)
LEMMA StateAfterReplays ==
    /\ (\E g : Replays(g, chosen)) => Replays(StateAfter, chosen)
    /\ (\E g : Replays(g, chosen')) => Replays(StateAfter', chosen')
BY RecursionReplays DEF StateAfter

(* A non-empty set of numbers has a least one.                             *)
LEMMA LeastExists ==
    ASSUME NEW S \in SUBSET Nat, S # {}
    PROVE  \E h \in S : \A g \in S : h <= g
<1> DEFINE Less == {ss \in Nat \X Nat : ss[1] < ss[2]}
<1>1. IsWellFoundedOn(Less, Nat)
  BY NatLessThanWellFounded, Zenon DEF OpToRel
<1>2. PICK h \in S : \A g \in S : <<g, h>> \notin Less
  <2> HIDE DEF Less
  <2> QED
    BY <1>1, WFMin, Zenon
<1>3. ASSUME NEW g \in S PROVE h <= g
  <2>1. ~(g < h)
    BY <1>2
  <2> QED
    BY <2>1
<1> QED
  BY <1>3

(* A log and one that extends it define the same stores as far as the      *)
(* shorter one goes: otherwise there were a first number of commands after *)
(* which they differ, and it is neither 0 nor the successor of another.    *)
LEMMA ReplaysAgree ==
    ASSUME NEW C, NEW l \in Seq(C), NEW m \in Seq(C), Len(l) <= Len(m),
           \A i \in 1..Len(l) : m[i] = l[i],
           NEW g, Replays(g, l), NEW h, Replays(h, m)
    PROVE  \A i \in 0..Len(l) : g[i] = h[i]
<1>0. Len(l) \in Nat /\ Len(m) \in Nat
  OBVIOUS
<1>1. \A i \in 0..Len(l) :
        /\ g[i] = IF i = 0 THEN EmptyStore ELSE Outcome(g[i - 1], l[i]).store
        /\ h[i] = IF i = 0 THEN EmptyStore ELSE Outcome(h[i - 1], m[i]).store
  <2>1. \A i \in 0..Len(l) : i \in 0..Len(m)
    BY <1>0
  <2> QED
    BY <2>1 DEF Replays
<1> DEFINE S == {i \in 0..Len(l) : g[i] # h[i]}
<1>2. ASSUME S # {} PROVE FALSE
  <2>1. S \in SUBSET Nat
    BY <1>0
  <2>2. PICK i \in S : \A j \in S : i <= j
    <3> HIDE DEF S
    <3> QED
      BY <1>2, <2>1, LeastExists
  <2>3. i \in 0..Len(l) /\ g[i] # h[i]
    BY <2>2
  <2>4. CASE i = 0
    BY <1>1, <2>3, <2>4
  <2>5. CASE i # 0
    <3>1. i - 1 \in 0..Len(l) /\ i \in 1..Len(l) /\ ~(i <= i - 1)
      BY <1>0, <2>3, <2>5
    <3>2. g[i - 1] = h[i - 1]
      BY <2>2, <3>1
    <3> QED
      BY <1>1, <2>3, <2>5, <3>1, <3>2
  <2> QED
    BY <2>4, <2>5
<1> QED
  BY <1>2

(* A log that can be replayed can be replayed with one command more.       *)
LEMMA ReplayExtends ==
    ASSUME NEW C, NEW l \in Seq(C), NEW c \in C, NEW g, Replays(g, l)
    PROVE  \E h : Replays(h, Append(l, c))
<1> DEFINE k == Len(l)
           m == Append(l, c)
           h == [i \in 0..k + 1 |-> IF i = k + 1 THEN Outcome(g[k], c).store ELSE g[i]]
<1>1. /\ k \in Nat /\ Len(m) = k + 1 /\ m[k + 1] = c
      /\ \A i \in 1..k : m[i] = l[i]
  OBVIOUS
<1>2. \A i \in 0..k : g[i] = IF i = 0 THEN EmptyStore ELSE Outcome(g[i - 1], l[i]).store
  BY DEF Replays
<1>3. ASSUME NEW i \in 0..k + 1
      PROVE  h[i] = IF i = 0 THEN EmptyStore ELSE Outcome(h[i - 1], m[i]).store
  <2>1. CASE i = k + 1
    <3>1. h[i] = Outcome(g[k], c).store /\ i # 0 /\ i - 1 = k /\ k \in 0..k + 1 /\ k # k + 1
      BY <1>1, <2>1
    <3>2. h[k] = g[k]
      BY <3>1
    <3> QED
      BY <1>1, <2>1, <3>1, <3>2
  <2>2. CASE i # k + 1
    <3>1. i \in 0..k /\ h[i] = g[i]
      BY <1>1, <2>2
    <3>2. CASE i = 0
      BY <1>2, <3>1, <3>2
    <3>3. CASE i # 0
      <4>1. i \in 1..k /\ i - 1 \in 0..k + 1 /\ i - 1 # k + 1
        BY <1>1, <3>1, <3>3
      <4>2. h[i - 1] = g[i - 1]
        BY <4>1
      <4> QED
        BY <1>1, <1>2, <3>1, <3>3, <4>1, <4>2
    <3> QED
      BY <3>2, <3>3
  <2> QED
    BY <2>1, <2>2
<1>4. Replays(h, m)
  <2>1. DOMAIN h = 0..Len(m)
    BY <1>1
  <2>2. h = [i \in 0..k + 1 |-> h[i]]
    OBVIOUS
  <2> HIDE DEF h, m
  <2> QED
    BY <1>1, <1>3, <2>1, <2>2 DEF Replays
<1> QED
  BY <1>4

(* What the recursion says of the steps.                                   *)
LEMMA ReplayStep ==
    ASSUME NEW l, NEW g, Replays(g, l)
    PROVE  /\ Len(l) \in Nat => g[0] = EmptyStore
           /\ \A i \in 1..Len(l) : g[i] = Outcome(g[i - 1], l[i]).store
<1>1. \A i \in 0..Len(l) : g[i] = IF i = 0 THEN EmptyStore ELSE Outcome(g[i - 1], l[i]).store
  BY DEF Replays
<1> QED
  BY <1>1

-----------------------------------------------------------------------------
(* The inductive invariant *)

Command == UNION {Commands(id) : id \in Nat}
RequestState == {"registered", "waiting", "TimedOut", "Broken"} \cup Results
Request == [cmd : Command, replica : Replica, state : RequestState]

Typed ==
    /\ store \in [Replica -> StoreType]
    /\ delivered \in [Replica -> Nat]
    /\ \A r \in Replica : delivered[r] <= Len(chosen)
    /\ pending \in [Replica -> SUBSET Nat]
    /\ chosen \in Seq(Command)
    /\ proposed \subseteq Command
    /\ requests \in Seq(Request)
    /\ restarts \in 0..MaxRestarts

(* A command carries the number of its request, and only commands of       *)
(* requests are proposed, and only proposals chosen.                       *)
CommandsBelongToRequests ==
    /\ \A id \in 1..Len(requests) : requests[id].cmd \in Commands(id)
    /\ \A c \in proposed : c.id \in 1..Len(requests) /\ c = requests[c.id].cmd
    /\ \A i \in 1..Len(chosen) : chosen[i] \in proposed

(* The replay of the log is defined.                                       *)
LogCanBeReplayed == \E g : Replays(g, chosen)

MailInv == Typed /\ CommandsBelongToRequests /\ MailboxesMatchRequests /\ NoMissedOutcome
LogInv == LogCanBeReplayed /\ StoresFollowTheLog /\ AnswersAreTrue
Inv == MailInv /\ LogInv

-----------------------------------------------------------------------------
(* The mailboxes *)

(* One request changes its state, and nothing else of the requests does.   *)
LEMMA SetStateChangesOne ==
    ASSUME Typed, NEW id \in 1..Len(requests), NEW s \in RequestState, SetState(id, s)
    PROVE  /\ requests' \in Seq(Request) /\ Len(requests') = Len(requests)
           /\ requests'[id].state = s
           /\ \A i \in 1..Len(requests) :
                 /\ requests'[i].cmd = requests[i].cmd
                 /\ requests'[i].replica = requests[i].replica
                 /\ i # id => requests'[i] = requests[i]
<1> DEFINE q == [requests[id] EXCEPT !.state = s]
<1>1. requests' = [requests EXCEPT ![id] = q]
  BY DEF SetState
<1>2. requests \in Seq(Request) /\ requests[id] \in Request
  BY DEF Typed
<1>3. q \in Request /\ q.state = s /\ q.cmd = requests[id].cmd /\ q.replica = requests[id].replica
  BY <1>2 DEF Request
<1> HIDE DEF q
<1>4. requests' \in Seq(Request) /\ Len(requests') = Len(requests) /\ requests'[id] = q
      /\ \A i \in 1..Len(requests) : i # id => requests'[i] = requests[i]
  BY <1>1, <1>2, <1>3
<1> QED
  BY <1>3, <1>4

LEMMA RegisterKeepsMailInv ==
    ASSUME MailInv, NEW r \in Replica, Register(r)
    PROVE  MailInv'
<1> USE DEF MailInv
<1>0. PICK k : k = Len(requests) + 1
  OBVIOUS
<1>1. PICK c \in Commands(k) :
        requests' = Append(requests, [cmd |-> c, replica |-> r, state |-> "registered"])
  BY <1>0 DEF Register
<1>2. /\ pending' = [pending EXCEPT ![r] = @ \cup {k}]
      /\ UNCHANGED <<store, delivered, chosen, proposed, restarts>>
  BY <1>0 DEF Register
<1>3. k \in Nat /\ requests \in Seq(Request) /\ Len(requests) \in Nat
  BY <1>0 DEF Typed
<1>4. [cmd |-> c, replica |-> r, state |-> "registered"] \in Request
  BY <1>3 DEF Request, Command, RequestState
<1>5. /\ requests' \in Seq(Request) /\ Len(requests') = k
      /\ requests'[k] = [cmd |-> c, replica |-> r, state |-> "registered"]
      /\ \A i \in 1..Len(requests) : requests'[i] = requests[i]
      /\ \A i \in 1..k : i = k \/ i \in 1..Len(requests)
  BY <1>0, <1>1, <1>3, <1>4
<1>6. Typed'
  BY <1>2, <1>3, <1>5 DEF Typed
<1>7. CommandsBelongToRequests'
  <2>1. \A id \in 1..Len(requests') : requests'[id].cmd \in Commands(id)
    BY <1>5 DEF CommandsBelongToRequests
  <2>2. \A d \in proposed : d.id \in 1..Len(requests') /\ d = requests'[d.id].cmd
    BY <1>0, <1>3, <1>5 DEF CommandsBelongToRequests
  <2> QED
    BY <1>2, <2>1, <2>2 DEF CommandsBelongToRequests
<1>8. MailboxesMatchRequests'
  <2> SUFFICES ASSUME NEW q \in Replica
               PROVE  pending'[q] = {id \in 1..k : requests'[id].replica = q /\ Open(id)'}
    BY <1>5 DEF MailboxesMatchRequests
  <2>1. pending[q] = {id \in 1..Len(requests) : requests[id].replica = q /\ Open(id)}
    BY DEF MailboxesMatchRequests
  <2>2. \A id \in 1..Len(requests) : Open(id)' <=> Open(id)
    BY <1>5 DEF Open
  <2>3. Open(k)' /\ requests'[k].replica = r
    BY <1>5 DEF Open
  <2>4. pending'[q] = IF q = r THEN pending[r] \cup {k} ELSE pending[q]
    BY <1>2 DEF Typed
  <2>5. \A id \in 1..Len(requests) : id # k /\ id \in 1..k
    BY <1>0, <1>3
  <2>6. k \in 1..k
    BY <1>0, <1>3
  <2>7. \A id : id \in pending'[q] <=> id \in {i \in 1..k : requests'[i].replica = q /\ Open(i)'}
    BY <1>5, <2>1, <2>2, <2>3, <2>4, <2>5, <2>6
  <2> QED
    BY <2>7
<1>9. NoMissedOutcome'
  <2> SUFFICES ASSUME NEW id \in 1..k, Open(id)',
                      NEW i \in 1..delivered[requests'[id].replica],
                      chosen[i] = requests'[id].cmd
               PROVE  FALSE
    BY <1>2, <1>5 DEF NoMissedOutcome
  <2>1. requests'[id].replica \in Replica
    <3>1. requests'[id] \in Request
      BY <1>5
    <3> QED
      BY <3>1 DEF Request
  <2>2. i \in 1..Len(chosen)
    BY <2>1 DEF Typed
  <2>3. chosen[i].id \in 1..Len(requests)
    BY <2>2 DEF CommandsBelongToRequests
  <2>4. CASE id = k
    <3>1. chosen[i].id = k
      BY <1>5, <2>4, CommandFields
    <3> QED
      BY <1>0, <1>3, <2>3, <3>1
  <2>5. CASE id # k
    BY <1>5, <2>5 DEF NoMissedOutcome, Open
  <2> QED
    BY <2>4, <2>5
<1> QED
  BY <1>6, <1>7, <1>8, <1>9

LEMMA ProposeKeepsMailInv ==
    ASSUME MailInv, NEW id \in 1..Len(requests), Propose(id)
    PROVE  MailInv'
<1> USE DEF MailInv
<1>1. /\ requests[id].state = "registered" /\ SetState(id, "waiting")
      /\ proposed' \in {proposed, proposed \cup {requests[id].cmd}}
      /\ UNCHANGED <<store, delivered, pending, chosen, restarts>>
  BY DEF Propose
<1>2. /\ requests' \in Seq(Request) /\ Len(requests') = Len(requests)
      /\ requests'[id].state = "waiting"
      /\ \A i \in 1..Len(requests) :
            /\ requests'[i].cmd = requests[i].cmd
            /\ requests'[i].replica = requests[i].replica
            /\ i # id => requests'[i] = requests[i]
  BY <1>1, SetStateChangesOne DEF RequestState
<1>3. \A i \in 1..Len(requests) : Open(i)' <=> Open(i)
  BY <1>1, <1>2 DEF Open
<1>4. requests[id].cmd \in Command /\ requests[id].cmd.id = id
  BY CommandFields DEF CommandsBelongToRequests, Command, Typed
<1>5. Typed'
  BY <1>1, <1>2, <1>4 DEF Typed
<1>6. CommandsBelongToRequests'
  BY <1>1, <1>2, <1>4 DEF CommandsBelongToRequests
<1>7. MailboxesMatchRequests'
  BY <1>1, <1>2, <1>3 DEF MailboxesMatchRequests
<1>8. NoMissedOutcome'
  BY <1>1, <1>2, <1>3 DEF NoMissedOutcome
<1> QED
  BY <1>5, <1>6, <1>7, <1>8

(* A request that is not open any more has no mailbox.                     *)
LEMMA CloseKeepsMailInv ==
    ASSUME MailInv, NEW id \in 1..Len(requests), NEW s \in RequestState,
           s \notin {"registered", "waiting"}, SetState(id, s),
           pending' = [pending EXCEPT ![requests[id].replica] = @ \ {id}]
    PROVE  /\ requests' \in Seq(Request) /\ pending' \in [Replica -> SUBSET Nat]
           /\ Len(requests') = Len(requests)
           /\ \A i \in 1..Len(requests) : /\ requests'[i].cmd = requests[i].cmd
                                          /\ requests'[i].replica = requests[i].replica
                                          /\ Open(i)' <=> Open(i) /\ i # id
           /\ MailboxesMatchRequests'
<1> USE DEF MailInv
<1>1. /\ requests' \in Seq(Request) /\ Len(requests') = Len(requests)
      /\ requests'[id].state = s
      /\ \A i \in 1..Len(requests) :
            /\ requests'[i].cmd = requests[i].cmd
            /\ requests'[i].replica = requests[i].replica
            /\ i # id => requests'[i] = requests[i]
  BY SetStateChangesOne
<1>2. pending' \in [Replica -> SUBSET Nat]
  BY DEF Typed
<1>3. \A i \in 1..Len(requests) : Open(i)' <=> Open(i) /\ i # id
  BY <1>1 DEF Open
<1>4. MailboxesMatchRequests'
  <2> SUFFICES ASSUME NEW q \in Replica
               PROVE  pending'[q] = {i \in 1..Len(requests) : requests'[i].replica = q /\ Open(i)'}
    BY <1>1 DEF MailboxesMatchRequests
  <2>1. pending[q] = {i \in 1..Len(requests) : requests[i].replica = q /\ Open(i)}
    BY DEF MailboxesMatchRequests
  <2>2. pending'[q] = IF q = requests[id].replica THEN pending[q] \ {id} ELSE pending[q]
    BY DEF Typed
  <2> QED
    BY <1>1, <1>3, <2>1, <2>2
<1> QED
  BY <1>1, <1>2, <1>3, <1>4

LEMMA TimeoutKeepsMailInv ==
    ASSUME MailInv, NEW id \in 1..Len(requests), Timeout(id)
    PROVE  MailInv'
<1> USE DEF MailInv
<1>1. /\ SetState(id, "TimedOut")
      /\ pending' = [pending EXCEPT ![requests[id].replica] = @ \ {id}]
      /\ UNCHANGED <<store, delivered, chosen, proposed, restarts>>
  BY DEF Timeout
<1>2. /\ requests' \in Seq(Request) /\ pending' \in [Replica -> SUBSET Nat]
      /\ Len(requests') = Len(requests)
      /\ \A i \in 1..Len(requests) : /\ requests'[i].cmd = requests[i].cmd
                                     /\ requests'[i].replica = requests[i].replica
                                     /\ Open(i)' <=> Open(i) /\ i # id
      /\ MailboxesMatchRequests'
  BY <1>1, CloseKeepsMailInv DEF RequestState
<1>3. Typed'
  BY <1>1, <1>2 DEF Typed
<1>4. CommandsBelongToRequests' /\ NoMissedOutcome'
  BY <1>1, <1>2 DEF CommandsBelongToRequests, NoMissedOutcome
<1> QED
  BY <1>2, <1>3, <1>4

-----------------------------------------------------------------------------
(* The apply loop.  Whether a command was applied elsewhere before or not, *)
(* a replica takes the next command of a log that only grows.              *)

Takes(r, c) ==
    /\ c \in proposed /\ Consume(r, c)
    /\ chosen' \in Seq(Command) /\ Len(chosen) <= Len(chosen')
    /\ \A i \in 1..Len(chosen) : chosen'[i] = chosen[i]
    /\ \A i \in 1..Len(chosen') : chosen'[i] \in proposed
    /\ delivered[r] + 1 <= Len(chosen') /\ chosen'[delivered[r] + 1] = c
    /\ \E g : Replays(g, chosen')

LEMMA FollowTakes ==
    ASSUME Inv, NEW r \in Replica, Follow(r)
    PROVE  \E c \in proposed : Takes(r, c)
<1>1. delivered[r] + 1 \in 1..Len(chosen)
  BY DEF Follow, Inv, MailInv, Typed
<1>2. chosen[delivered[r] + 1] \in proposed
  BY <1>1 DEF Inv, MailInv, CommandsBelongToRequests
<1>3. \E g : Replays(g, chosen')
  BY DEF Follow, Inv, LogInv, LogCanBeReplayed
<1>4. Takes(r, chosen[delivered[r] + 1])
  BY <1>1, <1>2, <1>3 DEF Takes, Follow, Inv, MailInv, Typed, CommandsBelongToRequests
<1> QED
  BY <1>2, <1>4

LEMMA LeadTakes ==
    ASSUME Inv, NEW r \in Replica, Lead(r)
    PROVE  \E c \in proposed : Takes(r, c)
<1>1. PICK c \in proposed : chosen' = Append(chosen, c) /\ Consume(r, c)
  BY DEF Lead
<1>2. c \in Command /\ chosen \in Seq(Command) /\ Len(chosen) \in Nat
  BY DEF Inv, MailInv, Typed
<1>3. delivered[r] = Len(chosen)
  BY DEF Lead
<1>4. /\ chosen' \in Seq(Command) /\ Len(chosen') = Len(chosen) + 1
      /\ chosen'[Len(chosen) + 1] = c
      /\ \A i \in 1..Len(chosen) : chosen'[i] = chosen[i]
      /\ \A i \in 1..Len(chosen') : i = Len(chosen) + 1 \/ i \in 1..Len(chosen)
  BY <1>1, <1>2
<1>5. \E g : Replays(g, chosen')
  BY <1>1, <1>2, ReplayExtends DEF Inv, LogInv, LogCanBeReplayed
<1>6. \A i \in 1..Len(chosen') : chosen'[i] \in proposed
  BY <1>4 DEF Inv, MailInv, CommandsBelongToRequests
<1>7. Len(chosen) <= Len(chosen') /\ delivered[r] + 1 <= Len(chosen')
  BY <1>2, <1>3, <1>4
<1>8. Takes(r, c)
  BY <1>1, <1>3, <1>4, <1>5, <1>6, <1>7 DEF Takes
<1> QED
  BY <1>8

(* The answer goes to the request of the command, if its mailbox is here.  *)
LEMMA TakeAnswersItsRequest ==
    ASSUME MailInv, NEW r \in Replica, NEW c \in proposed, Takes(r, c)
    PROVE  /\ requests' \in Seq(Request) /\ pending' \in [Replica -> SUBSET Nat]
           /\ Len(requests') = Len(requests)
           /\ \A i \in 1..Len(requests) :
                 /\ requests'[i].cmd = requests[i].cmd
                 /\ requests'[i].replica = requests[i].replica
                 /\ Open(i)' <=> Open(i) /\ ~(i = c.id /\ c.id \in pending[r])
                 /\ ~(i = c.id /\ c.id \in pending[r]) => requests'[i] = requests[i]
                 /\ i = c.id /\ c.id \in pending[r] =>
                       requests'[i].state = Apply(r, store[r], c).result
           /\ MailboxesMatchRequests'
<1> USE DEF MailInv
<1> DEFINE s == Apply(r, store[r], c).result
<1>1. c.id \in 1..Len(requests) /\ c = requests[c.id].cmd
  BY DEF CommandsBelongToRequests
<1>2. s \in Results
  BY <1>1, ApplyIsStore DEF CommandsBelongToRequests, Typed
<1>3. Resolve(r, c.id, s)
  BY DEF Takes, Consume
<1>4. CASE c.id \in pending[r]
  <2>1. requests[c.id].replica = r
    BY <1>4 DEF MailboxesMatchRequests
  <2>2. SetState(c.id, s) /\ pending' = [pending EXCEPT ![requests[c.id].replica] = @ \ {c.id}]
    BY <1>3, <1>4, <2>1 DEF Resolve
  <2>3. s \in RequestState /\ s \notin {"registered", "waiting"}
    BY <1>2 DEF RequestState, Results
  <2> HIDE DEF s
  <2>4. /\ requests' \in Seq(Request) /\ pending' \in [Replica -> SUBSET Nat]
        /\ Len(requests') = Len(requests)
        /\ \A i \in 1..Len(requests) : /\ requests'[i].cmd = requests[i].cmd
                                       /\ requests'[i].replica = requests[i].replica
                                       /\ Open(i)' <=> Open(i) /\ i # c.id
        /\ MailboxesMatchRequests'
    BY <1>1, <2>2, <2>3, CloseKeepsMailInv
  <2>5. requests'[c.id].state = s /\ \A i \in 1..Len(requests) : i # c.id => requests'[i] = requests[i]
    BY <1>1, <2>2, <2>3, SetStateChangesOne
  <2> QED
    BY <1>4, <2>4, <2>5 DEF s
<1>5. CASE c.id \notin pending[r]
  <2>1. UNCHANGED <<pending, requests>>
    BY <1>3, <1>5 DEF Resolve
  <2> QED
    BY <1>5, <2>1 DEF Typed, MailboxesMatchRequests, Open
<1> QED
  BY <1>4, <1>5

LEMMA TakeKeepsMailInv ==
    ASSUME MailInv, NEW r \in Replica, NEW c \in proposed, Takes(r, c)
    PROVE  MailInv'
<1> USE DEF MailInv
<1>1. /\ requests' \in Seq(Request) /\ pending' \in [Replica -> SUBSET Nat]
      /\ Len(requests') = Len(requests)
      /\ \A i \in 1..Len(requests) :
            /\ requests'[i].cmd = requests[i].cmd
            /\ requests'[i].replica = requests[i].replica
            /\ Open(i)' <=> Open(i) /\ ~(i = c.id /\ c.id \in pending[r])
      /\ MailboxesMatchRequests'
  BY TakeAnswersItsRequest
<1>2. /\ store' = [store EXCEPT ![r] = Apply(r, store[r], c).store]
      /\ delivered' = [delivered EXCEPT ![r] = @ + 1]
      /\ UNCHANGED <<proposed, restarts>>
  BY DEF Takes, Consume
<1>3. Apply(r, store[r], c).store \in StoreType
  <2>1. c.id \in Nat /\ c \in Commands(c.id)
    BY CommandFields DEF CommandsBelongToRequests, Typed
  <2> QED
    BY <2>1, ApplyIsStore DEF Typed
<1>4. /\ delivered'[r] = delivered[r] + 1
      /\ \A q \in Replica : q # r => delivered'[q] = delivered[q]
  BY <1>2 DEF Typed
<1>5. Typed'
  <2>1. \A q \in Replica : delivered'[q] <= Len(chosen')
    <3> SUFFICES ASSUME NEW q \in Replica PROVE delivered'[q] <= Len(chosen')
      OBVIOUS
    <3>1. delivered[q] \in Nat /\ Len(chosen) \in Nat /\ Len(chosen') \in Nat
      BY DEF Typed, Takes
    <3>2. delivered[q] <= Len(chosen)
      BY DEF Typed
    <3>3. Len(chosen') >= Len(chosen) /\ delivered[r] < Len(chosen')
      BY DEF Takes, Typed
    <3> QED
      BY <1>4, <3>1, <3>2, <3>3
  <2>2. store' \in [Replica -> StoreType] /\ delivered' \in [Replica -> Nat]
    BY <1>2, <1>3 DEF Typed
  <2> QED
    BY <1>1, <1>2, <2>1, <2>2 DEF Typed, Takes
<1>6. CommandsBelongToRequests'
  BY <1>1, <1>2 DEF CommandsBelongToRequests, Takes
<1>7. NoMissedOutcome'
  <2> SUFFICES ASSUME NEW id \in 1..Len(requests), Open(id)',
                      NEW i \in 1..delivered'[requests[id].replica],
                      chosen'[i] = requests[id].cmd
               PROVE  FALSE
    BY <1>1 DEF NoMissedOutcome
  <2>1. Open(id) /\ ~(id = c.id /\ c.id \in pending[r]) /\ requests[id] \in Request
    BY <1>1 DEF Typed
  <2>2. requests[id].replica \in Replica
    BY <2>1 DEF Request
  <2>3. delivered[requests[id].replica] \in Nat /\ Len(chosen) \in Nat
        /\ delivered[requests[id].replica] <= Len(chosen)
    BY <2>2 DEF Typed
  <2>4. CASE i \in 1..delivered[requests[id].replica]
    <3>1. i \in 1..Len(chosen)
      BY <2>3, <2>4
    <3>2. chosen'[i] = chosen[i]
      BY <3>1 DEF Takes
    <3> QED
      BY <2>1, <2>4, <3>2 DEF NoMissedOutcome
  <2>5. CASE requests[id].replica = r /\ i = delivered[r] + 1
    <3>1. requests[id].cmd = c
      BY <2>5 DEF Takes
    <3>2. c.id = id
      BY <3>1, CommandFields DEF CommandsBelongToRequests
    <3> QED
      BY <2>1, <2>5, <3>2 DEF MailboxesMatchRequests
  <2> QED
    BY <1>4, <2>2, <2>3, <2>4, <2>5
<1> QED
  BY <1>1, <1>5, <1>6, <1>7

(* A restart closes the requests of the replica together with its          *)
(* mailboxes.                                                              *)
LEMMA RestartKeepsMailInv ==
    ASSUME MailInv, NEW r \in Replica, Restart(r)
    PROVE  MailInv'
<1> USE DEF MailInv
<1>1. /\ restarts < MaxRestarts /\ restarts' = restarts + 1
      /\ delivered' = [delivered EXCEPT ![r] = 0]
      /\ pending' = [pending EXCEPT ![r] = {}]
      /\ requests' = [id \in 1..Len(requests) |->
            IF requests[id].replica = r /\ Open(id)
            THEN [requests[id] EXCEPT !.state = "Broken"] ELSE requests[id]]
      /\ UNCHANGED <<store, chosen, proposed>>
  BY DEF Restart
<1>2. \A id \in 1..Len(requests) : requests[id] \in Request
  BY DEF Typed
<1>3. \A id \in 1..Len(requests) : requests'[id] \in Request
  BY <1>1, <1>2 DEF Request, RequestState
<1>4. requests' \in Seq(Request) /\ Len(requests') = Len(requests)
  <2>1. Len(requests) \in Nat
    BY DEF Typed
  <2>2. requests' \in [1..Len(requests) -> Request]
    BY <1>1, <1>3
  <2> QED
    BY <2>1, <2>2
<1>5. \A id \in 1..Len(requests) :
        /\ requests'[id].cmd = requests[id].cmd
        /\ requests'[id].replica = requests[id].replica
        /\ Open(id)' <=> Open(id) /\ requests[id].replica # r
  BY <1>1, <1>2 DEF Request, Open
<1>6. Typed'
  BY <1>1, <1>4, RequestAssumption DEF Typed
<1>7. CommandsBelongToRequests'
  BY <1>1, <1>4, <1>5 DEF CommandsBelongToRequests
<1>8. MailboxesMatchRequests'
  <2> SUFFICES ASSUME NEW q \in Replica
               PROVE  pending'[q] = {id \in 1..Len(requests) : requests[id].replica = q /\ Open(id)'}
    BY <1>4, <1>5 DEF MailboxesMatchRequests
  <2>1. pending'[q] = IF q = r THEN {} ELSE pending[q]
    BY <1>1 DEF Typed
  <2> QED
    BY <1>5, <2>1 DEF MailboxesMatchRequests
<1>9. NoMissedOutcome'
  <2> SUFFICES ASSUME NEW id \in 1..Len(requests), Open(id)',
                      NEW i \in 1..delivered'[requests[id].replica]
               PROVE  chosen[i] # requests[id].cmd
    BY <1>1, <1>4, <1>5 DEF NoMissedOutcome
  <2>1. Open(id) /\ requests[id].replica # r
    BY <1>5
  <2>2. delivered'[requests[id].replica] = delivered[requests[id].replica]
    BY <1>1, <2>1 DEF Typed
  <2> QED
    BY <2>1, <2>2 DEF NoMissedOutcome
<1> QED
  BY <1>6, <1>7, <1>8, <1>9

-----------------------------------------------------------------------------
(* Stores and answers *)

(* A longer log does not change what the commands before define.           *)
LEMMA PrefixesStay ==
    ASSUME Typed, LogCanBeReplayed, chosen' \in Seq(Command), Len(chosen) <= Len(chosen'),
           \A i \in 1..Len(chosen) : chosen'[i] = chosen[i],
           \E g : Replays(g, chosen')
    PROVE  \A i \in 0..Len(chosen) : StateAfter'[i] = StateAfter[i]
<1>1. chosen \in Seq(Command)
  BY DEF Typed
<1>2. Replays(StateAfter, chosen) /\ Replays(StateAfter', chosen')
  BY StateAfterReplays DEF LogCanBeReplayed
<1>3. \A i \in 0..Len(chosen) : StateAfter[i] = StateAfter'[i]
  BY <1>1, <1>2, ReplaysAgree
<1> QED
  BY <1>3

(* Steps of the requests leave the log, the stores and the answers alone.  *)
LEMMA RequestsKeepLogInv ==
    ASSUME Inv, UNCHANGED <<store, delivered, chosen, restarts>>,
           \A id \in 1..Len(requests') : requests'[id].state \in Results =>
               id \in 1..Len(requests) /\ requests'[id] = requests[id]
    PROVE  LogInv'
<1>1. Typed /\ chosen' \in Seq(Command) /\ Len(chosen) \in Nat
  BY DEF Inv, MailInv, Typed
<1>2. LogCanBeReplayed /\ LogCanBeReplayed'
  BY DEF Inv, LogInv, LogCanBeReplayed
<1>3. \A i \in 0..Len(chosen) : StateAfter'[i] = StateAfter[i]
  BY <1>1, <1>2, PrefixesStay DEF LogCanBeReplayed
<1>4. StoresFollowTheLog'
  <2> SUFFICES ASSUME restarts = 0, NEW r \in Replica
               PROVE  store[r] = StateAfter'[delivered[r]]
    BY DEF StoresFollowTheLog
  <2>1. delivered[r] \in 0..Len(chosen)
    BY <1>1 DEF Typed
  <2> QED
    BY <1>3, <2>1 DEF Inv, LogInv, StoresFollowTheLog
<1>5. AnswersAreTrue'
  <2> SUFFICES ASSUME restarts = 0, NEW id \in 1..Len(requests'),
                      requests'[id].state \in Results
               PROVE  \E i \in 1..Len(chosen) :
                        /\ chosen[i] = requests'[id].cmd
                        /\ requests'[id].state =
                              Apply(requests'[id].replica, StateAfter'[i - 1], chosen[i]).result
    BY DEF AnswersAreTrue, Results
  <2>1. id \in 1..Len(requests) /\ requests'[id] = requests[id]
    OBVIOUS
  <2>2. PICK i \in 1..Len(chosen) :
          /\ chosen[i] = requests[id].cmd
          /\ requests[id].state = Apply(requests[id].replica, StateAfter[i - 1], chosen[i]).result
    BY <2>1 DEF Inv, LogInv, AnswersAreTrue, Results
  <2>3. StateAfter'[i - 1] = StateAfter[i - 1]
    BY <1>1, <1>3
  <2> QED
    BY <2>1, <2>2, <2>3
<1> QED
  BY <1>2, <1>4, <1>5 DEF LogInv

(* Applying the next command keeps the store in line with the log, and the *)
(* answer is the outcome of the command at its place.                      *)
LEMMA TakeKeepsLogInv ==
    ASSUME Inv, NEW r \in Replica, NEW c \in proposed, Takes(r, c)
    PROVE  LogInv'
<1>0. MailInv /\ Typed /\ Len(chosen) \in Nat /\ chosen' \in Seq(Command) /\ Len(chosen') \in Nat
  BY DEF Inv, MailInv, Typed, Takes
<1>1. /\ store' = [store EXCEPT ![r] = Apply(r, store[r], c).store]
      /\ delivered' = [delivered EXCEPT ![r] = @ + 1]
      /\ restarts' = restarts
  BY DEF Takes, Consume
<1>2. LogCanBeReplayed /\ LogCanBeReplayed'
  BY DEF Inv, LogInv, LogCanBeReplayed, Takes
<1>3. \A i \in 0..Len(chosen) : StateAfter'[i] = StateAfter[i]
  BY <1>0, <1>2, PrefixesStay DEF Takes, LogCanBeReplayed
<1>4. \A i \in 1..Len(chosen') : StateAfter'[i] = Outcome(StateAfter'[i - 1], chosen'[i]).store
  BY <1>2, StateAfterReplays, ReplayStep DEF LogCanBeReplayed
<1>5. /\ delivered[r] \in 0..Len(chosen) /\ delivered[r] + 1 \in 1..Len(chosen')
      /\ chosen'[delivered[r] + 1] = c /\ (delivered[r] + 1) - 1 = delivered[r]
  BY <1>0 DEF Typed, Takes
<1>6. ASSUME restarts = 0
      PROVE  store[r] = StateAfter'[delivered[r]]
  BY <1>3, <1>5, <1>6 DEF Inv, LogInv, StoresFollowTheLog
<1>7. StoresFollowTheLog'
  <2> SUFFICES ASSUME restarts = 0, NEW q \in Replica
               PROVE  store'[q] = StateAfter'[delivered'[q]]
    BY <1>1 DEF StoresFollowTheLog
  <2>1. CASE q = r
    <3>1. store'[q] = Apply(r, store[r], c).store /\ delivered'[q] = delivered[r] + 1
      BY <1>0, <1>1, <2>1 DEF Typed
    <3>2. StateAfter'[delivered[r] + 1] = Outcome(StateAfter'[delivered[r]], c).store
      BY <1>4, <1>5
    <3>3. Apply(r, store[r], c) = Outcome(store[r], c)
      BY ApplyIsDeterministic DEF Outcome
    <3> QED
      BY <1>6, <3>1, <3>2, <3>3
  <2>2. CASE q # r
    <3>1. store'[q] = store[q] /\ delivered'[q] = delivered[q]
      BY <1>0, <1>1, <2>2 DEF Typed
    <3>2. delivered[q] \in 0..Len(chosen)
      BY <1>0 DEF Typed
    <3> QED
      BY <1>3, <3>1, <3>2 DEF Inv, LogInv, StoresFollowTheLog
  <2> QED
    BY <2>1, <2>2
<1>8. AnswersAreTrue'
  <2> SUFFICES ASSUME restarts = 0, NEW id \in 1..Len(requests'),
                      requests'[id].state \in Results
               PROVE  \E i \in 1..Len(chosen') :
                        /\ chosen'[i] = requests'[id].cmd
                        /\ requests'[id].state =
                              Apply(requests'[id].replica, StateAfter'[i - 1], chosen'[i]).result
    BY <1>1 DEF AnswersAreTrue, Results
  <2>1. /\ Len(requests') = Len(requests)
        /\ requests'[id].cmd = requests[id].cmd
        /\ requests'[id].replica = requests[id].replica
        /\ ~(id = c.id /\ c.id \in pending[r]) => requests'[id] = requests[id]
        /\ id = c.id /\ c.id \in pending[r] => requests'[id].state = Apply(r, store[r], c).result
    BY <1>0, TakeAnswersItsRequest
  <2>2. CASE id = c.id /\ c.id \in pending[r]
    <3>1. c = requests'[id].cmd
      BY <1>0, <2>1, <2>2 DEF MailInv, CommandsBelongToRequests
    <3>2. requests'[id].state = Apply(requests'[id].replica, StateAfter'[delivered[r]], c).result
      BY <1>6, <2>1, <2>2, ApplyIsDeterministic
    <3> QED
      BY <1>5, <3>1, <3>2
  <2>3. CASE ~(id = c.id /\ c.id \in pending[r])
    <3>1. requests'[id] = requests[id] /\ id \in 1..Len(requests)
      BY <2>1, <2>3
    <3>2. PICK i \in 1..Len(chosen) :
            /\ chosen[i] = requests[id].cmd
            /\ requests[id].state = Apply(requests[id].replica, StateAfter[i - 1], chosen[i]).result
      BY <3>1 DEF Inv, LogInv, AnswersAreTrue, Results
    <3>3. StateAfter'[i - 1] = StateAfter[i - 1] /\ chosen'[i] = chosen[i] /\ i \in 1..Len(chosen')
      BY <1>0, <1>3 DEF Takes
    <3> QED
      BY <3>1, <3>2, <3>3
  <2> QED
    BY <2>2, <2>3
<1> QED
  BY <1>2, <1>7, <1>8 DEF LogInv

-----------------------------------------------------------------------------
(* The theorems *)

LEMMA InitEstablishesInv == Init => Inv
<1> SUFFICES ASSUME Init PROVE Inv
  OBVIOUS
<1>1. /\ chosen = << >> /\ Len(chosen) = 0 /\ requests = << >> /\ Len(requests) = 0
      /\ proposed = {} /\ restarts = 0
      /\ \A r \in Replica : store[r] = EmptyStore /\ delivered[r] = 0 /\ pending[r] = {}
  BY DEF Init
<1>2. Typed
  <2>1. EmptyStore \in StoreType
    BY DEF EmptyStore, StoreType
  <2> QED
    BY <2>1, RequestAssumption DEF Init, Typed
<1>3. MailInv
  BY <1>1, <1>2 DEF MailInv, CommandsBelongToRequests, MailboxesMatchRequests, NoMissedOutcome
<1>4. LogCanBeReplayed
  <2> DEFINE g == [i \in 0..0 |-> EmptyStore]
  <2>1. Replays(g, chosen)
    BY <1>1 DEF Replays
  <2> QED
    BY <2>1 DEF LogCanBeReplayed
<1>5. StateAfter[0] = EmptyStore
  BY <1>1, <1>4, StateAfterReplays, ReplayStep DEF LogCanBeReplayed
<1>6. LogInv
  BY <1>1, <1>4, <1>5 DEF LogInv, StoresFollowTheLog, AnswersAreTrue
<1> QED
  BY <1>3, <1>6 DEF Inv

LEMMA NextKeepsInv == Inv /\ [Next]_vars => Inv'
<1> SUFFICES ASSUME Inv, [Next]_vars PROVE Inv'
  OBVIOUS
<1>0. MailInv /\ Typed
  BY DEF Inv, MailInv
<1>1. ASSUME NEW r \in Replica, Register(r) PROVE Inv'
  <2>1. PICK c \in Commands(Len(requests) + 1) :
          requests' = Append(requests, [cmd |-> c, replica |-> r, state |-> "registered"])
    BY <1>1 DEF Register
  <2> DEFINE q == [cmd |-> c, replica |-> r, state |-> "registered"]
  <2>2. requests \in Seq(Request) /\ q \in Request /\ q.state = "registered"
    BY <1>0 DEF Typed, Request, RequestState, Command
  <2> HIDE DEF q
  <2>3. \A id \in 1..Len(requests') :
          \/ id \in 1..Len(requests) /\ requests'[id] = requests[id]
          \/ requests'[id] = q
    BY <2>1, <2>2 DEF q
  <2>4. \A id \in 1..Len(requests') : requests'[id].state \in Results =>
          id \in 1..Len(requests) /\ requests'[id] = requests[id]
    BY <2>2, <2>3 DEF Results
  <2>5. LogInv'
    BY <1>1, <2>4, RequestsKeepLogInv DEF Register
  <2> QED
    BY <1>0, <1>1, <2>5, RegisterKeepsMailInv DEF Inv
<1>2. ASSUME NEW r \in Replica, Follow(r) \/ Lead(r) PROVE Inv'
  <2>1. PICK c \in proposed : Takes(r, c)
    BY <1>2, FollowTakes, LeadTakes
  <2> QED
    BY <1>0, <2>1, TakeKeepsMailInv, TakeKeepsLogInv DEF Inv
<1>3. ASSUME NEW r \in Replica, Restart(r) PROVE Inv'
  <2>1. chosen' = chosen /\ restarts' # 0
    BY <1>0, <1>3 DEF Restart, Typed
  <2>2. LogInv'
    BY <2>1 DEF Inv, LogInv, LogCanBeReplayed, StoresFollowTheLog, AnswersAreTrue
  <2> QED
    BY <1>0, <1>3, <2>2, RestartKeepsMailInv DEF Inv
<1>4. ASSUME NEW id \in 1..Len(requests), NEW s \in RequestState, s \notin Results,
             SetState(id, s), UNCHANGED <<store, delivered, chosen, restarts>>
      PROVE  LogInv'
  <2>1. /\ Len(requests') = Len(requests) /\ requests'[id].state = s
        /\ \A i \in 1..Len(requests) : i # id => requests'[i] = requests[i]
    BY <1>0, <1>4, SetStateChangesOne
  <2> QED
    BY <1>4, <2>1, RequestsKeepLogInv
<1>5. ASSUME NEW id \in 1..Len(requests), Propose(id) PROVE Inv'
  <2>1. LogInv'
    BY <1>4, <1>5 DEF Propose, RequestState, Results
  <2> QED
    BY <1>0, <1>5, <2>1, ProposeKeepsMailInv DEF Inv
<1>6. ASSUME NEW id \in 1..Len(requests), Timeout(id) PROVE Inv'
  <2>1. LogInv'
    BY <1>4, <1>6 DEF Timeout, RequestState, Results
  <2> QED
    BY <1>0, <1>6, <2>1, TimeoutKeepsMailInv DEF Inv
<1>7. CASE UNCHANGED vars
  <2>1. UNCHANGED <<store, delivered, pending, chosen, proposed, requests, restarts>>
    BY <1>7 DEF vars
  <2>2. LogInv'
    BY <2>1, RequestsKeepLogInv
  <2>3. MailInv'
    BY <1>0, <2>1 DEF MailInv, Typed, CommandsBelongToRequests, MailboxesMatchRequests,
                      NoMissedOutcome, Open
  <2> QED
    BY <2>2, <2>3 DEF Inv
<1> QED
  BY <1>1, <1>2, <1>3, <1>5, <1>6, <1>7 DEF Next

(* The inductive invariant holds in every state that the replicas, their   *)
(* clients and their apply loops reach.                                    *)
THEOREM InvHolds == Spec => []Inv
BY InitEstablishesInv, NextKeepsInv, PTL DEF Spec

(* Type correctness: nobody has applied more commands than were chosen.    *)
THEOREM TypeCorrect == Spec => []TypeOK
<1>1. Inv => TypeOK
  <2> SUFFICES ASSUME Inv PROVE TypeOK
    OBVIOUS
  <2>1. \A r \in Replica : pending[r] \subseteq 1..Len(requests)
    BY DEF Inv, MailInv, MailboxesMatchRequests
  <2>2. \A c \in proposed : c \in Commands(c.id)
    BY CommandFields DEF Inv, MailInv, CommandsBelongToRequests
  <2>3. \A r \in Replica : store[r] \in StoreType /\ delivered[r] \in 0..Len(chosen)
    BY DEF Inv, MailInv, Typed
  <2> QED
    BY <2>1, <2>2, <2>3 DEF Inv, MailInv, Typed, StoreType, CommandsBelongToRequests, TypeOK
<1> QED
  BY <1>1, InvHolds, PTL

(* The mailboxes are those of the open requests: none leaks when a request *)
(* times out, is answered or ends with its replica.                        *)
THEOREM NoMailboxLeaks == Spec => []MailboxesMatchRequests
<1>1. Inv => MailboxesMatchRequests
  BY DEF Inv, MailInv
<1> QED
  BY <1>1, InvHolds, PTL

(* Registering before proposing works: no request waits for a command that *)
(* its replica has applied, so no outcome is missed.                       *)
THEOREM OutcomesAreNotMissed == Spec => []NoMissedOutcome
<1>1. Inv => NoMissedOutcome
  BY DEF Inv, MailInv
<1> QED
  BY <1>1, InvHolds, PTL

(* Until a replica restarts every store is the replay of the commands that *)
(* its apply loop has taken, in log order.                                 *)
THEOREM StoresAreReplays == Spec => []StoresFollowTheLog
<1>1. Inv => StoresFollowTheLog
  BY DEF Inv, LogInv
<1> QED
  BY <1>1, InvHolds, PTL

(* Until a replica restarts the answer that submit gives is the outcome of *)
(* the client's own command at its place in the log.                       *)
THEOREM ClientsAreToldTheTruth == Spec => []AnswersAreTrue
<1>1. Inv => AnswersAreTrue
  BY DEF Inv, LogInv
<1> QED
  BY <1>1, InvHolds, PTL

(* "every replica applies the same commands in the same order -> identical *)
(* stores" (command.rs) is true as long as no replica has restarted; that  *)
(* it is false afterwards is what the run of IdenticalStores shows.        *)
THEOREM StoresAreIdenticalUntilARestart == Spec => [](restarts = 0 => IdenticalStores)
<1>1. Inv => (restarts = 0 => IdenticalStores)
  BY DEF Inv, LogInv, StoresFollowTheLog, IdenticalStores
<1> QED
  BY <1>1, InvHolds, PTL
=============================================================================
