---------------------------- MODULE WatchProofs ----------------------------
(***************************************************************************)
(* The safety properties of Watch.tla for any number of writers, watchers, *)
(* names and values, any channel capacity and any number of writes.        *)
(*                                                                         *)
(* Everything rests on the resourceVersion: it grows with every            *)
(* transaction, so it identifies the event that a transaction commits, and *)
(* the version of an object that a client has read.                        *)
(***************************************************************************)
EXTENDS Watch, TLAPS

(* The stronger form of TypeOK that the proofs need: the store is a record *)
(* of exactly two fields.                                                  *)
Typed ==
    /\ store \in [rv : Nat, objs : [Name -> Object \cup {Absent}]]
    /\ writer \in [Writer -> [read : Reading, event : Event \cup {NoEvent}]]
    /\ sent \in Seq(Event)
    /\ committed \subseteq Event
    /\ uids \in Nat

(* No version is ahead of the counter.                                     *)
RvsAreReached ==
    /\ \A n \in Name : store.objs[n] # Absent => store.objs[n].rv \in 1..store.rv
    /\ \A e \in committed : e.object.rv \in 1..store.rv
    /\ \A w \in Writer : writer[w].read # Nothing => writer[w].read.object.rv \in 1..store.rv

(* A version that a client has read and that is still the current one is   *)
(* the object that the client has read.                                    *)
ReadsAreVersions ==
    \A w \in Writer : \A n \in Name :
        /\ writer[w].read # Nothing /\ writer[w].read.name = n
        /\ store.objs[n] # Absent /\ store.objs[n].rv = writer[w].read.object.rv
        => store.objs[n] = writer[w].read.object

(* An event is identified by its version.                                  *)
EventsHaveTheirRv ==
    \A e, f \in committed : e.object.rv = f.object.rv => e = f

(* What is sent or about to be sent has been committed, and every event is *)
(* sent once, by one writer.                                               *)
SentOnce ==
    /\ \A i \in 1..Len(sent) : sent[i] \in committed
    /\ \A i, j \in 1..Len(sent) : sent[i] = sent[j] => i = j
    /\ \A w \in Writer : Emitting(w) =>
          /\ writer[w].event \in committed
          /\ \A i \in 1..Len(sent) : sent[i] # writer[w].event
          /\ \A u \in Writer : writer[u].event = writer[w].event => u = w

(* The last change of an object left it as it is.                          *)
ShownRv(e) == IF e.type = "Deleted" THEN 0 ELSE e.object.rv
StoreIsLastChange ==
    \A n \in Name : \A e \in LastChange(n) : CurrentRv(n) = ShownRv(e)

WriteInv ==
    /\ Typed /\ RvsAreReached /\ ReadsAreVersions
    /\ EventsHaveTheirRv /\ SentOnce /\ StoreIsLastChange

(* A receiver is never ahead of the channel, nor a list of the counter.    *)
StreamsAreBehind ==
    /\ watcher \in [Watcher -> Stream]
    /\ \A x \in Watcher :
        /\ watcher[x].pos <= Len(sent)
        /\ watcher[x].snapshotRv <= store.rv
        /\ \A o \in watcher[x].snapshot : o.rv <= store.rv

(* What a stream has delivered was in its snapshot or has been received.   *)
DeliveredWasReceived ==
    \A x \in Watcher : Streaming(x) => \A rv \in watcher[x].delivered :
        rv <= watcher[x].snapshotRv
        \/ \E i \in 1..watcher[x].pos : sent[i].object.rv = rv

(* A client's view of an object is that of the last event about it that    *)
(* was forwarded.                                                          *)
LastForwarded(x, i) ==
    /\ NewerThanSnapshot(watcher[x], sent[i])
    /\ \A j \in i + 1 .. watcher[x].pos :
          sent[j].name = sent[i].name => ~NewerThanSnapshot(watcher[x], sent[j])
ViewIsLastForwarded ==
    \A x \in Watcher : Streaming(x) => \A i \in 1..watcher[x].pos :
        LastForwarded(x, i) => watcher[x].view[sent[i].name] = ShownRv(sent[i])

WatchInv ==
    /\ StreamsAreBehind /\ DeliveredWasReceived
    /\ LiveStreamIsComplete /\ ViewIsLastForwarded

Inv == WriteInv /\ WatchInv

-----------------------------------------------------------------------------
(* Transactions.  Whatever the operation, it commits one event under the   *)
(* next version or it changes nothing.                                     *)

Commits(w, e) ==
    /\ ~Emitting(w)
    /\ e.object.rv = store.rv + 1
    /\ store' = [rv |-> store.rv + 1,
                 objs |-> [store.objs EXCEPT ![e.name] =
                             IF e.type = "Deleted" THEN Absent ELSE e.object]]
    /\ store.objs[e.name] # Absent =>
          /\ writer[w].read # Nothing /\ writer[w].read.name = e.name
          /\ writer[w].read.object.rv = store.objs[e.name].rv
    /\ committed' = committed \cup {e}
    /\ writer' = [writer EXCEPT ![w] = [read |-> Nothing, event |-> e]]
    /\ UNCHANGED <<sent, watcher>>

Refuses(w) ==
    /\ ~Emitting(w)
    /\ store' = store
    /\ writer' = [writer EXCEPT ![w] = [read |-> Nothing, event |-> NoEvent]]
    /\ UNCHANGED <<sent, watcher, committed>>

(* Stored with its event.                                                  *)
LEMMA StoredCommits ==
    ASSUME Typed, NEW w \in Writer, NEW n \in Name, NEW obj \in Object,
           NEW type \in {"Added", "Modified"},
           store.objs[n] # Absent =>
               /\ writer[w].read # Nothing /\ writer[w].read.name = n
               /\ writer[w].read.object.rv = store.objs[n].rv,
           Transact(w, Stored(store, n, type, obj))
    PROVE  \E e \in Event : Commits(w, e)
<1> DEFINE o == [obj EXCEPT !.rv = store.rv + 1]
           e == [type |-> type, name |-> n, object |-> o]
<1>1. store.rv + 1 \in Nat
  BY DEF Typed
<1>2. o \in Object /\ o.rv = store.rv + 1
  BY <1>1 DEF Object
<1>3. e \in Event
  BY <1>2 DEF Event
<1>4. Stored(store, n, type, obj) =
        [result |-> "Ok", store |-> [rv |-> store.rv + 1, objs |-> [store.objs EXCEPT ![n] = o]],
         event |-> e]
  BY <1>2 DEF Stored, BumpRv
<1>5. e.name = n /\ e.type # "Deleted" /\ e.object = o
  OBVIOUS
<1>6. /\ ~Emitting(w)
      /\ store' = [rv |-> store.rv + 1, objs |-> [store.objs EXCEPT ![n] = o]]
      /\ committed' = committed \cup {e}
      /\ writer' = [writer EXCEPT ![w] = [read |-> Nothing, event |-> e]]
      /\ UNCHANGED <<sent, watcher>>
  <2> HIDE DEF e, o
  <2> QED
    BY <1>4 DEF Transact, Step
<1>7. Commits(w, e)
  <2> HIDE DEF e, o
  <2> QED
    BY <1>2, <1>5, <1>6 DEF Commits
<1> QED
  BY <1>3, <1>7

LEMMA RefusedRefuses ==
    ASSUME NEW w \in Writer, NEW error, error # "Ok", Transact(w, Refused(store, error))
    PROVE  Refuses(w)
BY DEF Transact, Refused, Refuses, Step

LEMMA CreateCommitsOrRefuses ==
    ASSUME Typed, NEW w \in Writer, NEW n \in Name, Create(w, n)
    PROVE  /\ Refuses(w) \/ \E e \in Event : Commits(w, e)
           /\ uids' \in Nat
<1>1. PICK v \in Value : Transact(w, CreatePrestamped(store, n,
                [uid |-> uids + 1, spec |-> v, status |-> NoValue, rv |-> 0]))
  BY DEF Create
<1> DEFINE obj == [uid |-> uids + 1, spec |-> v, status |-> NoValue, rv |-> 0]
<1>2. uids' \in Nat
  BY DEF Create, Typed
<1>3. obj \in Object
  BY DEF Typed, Object
<1>4. CASE store.objs[n] # Absent
  BY <1>1, <1>2, <1>4, RefusedRefuses DEF CreatePrestamped
<1>5. CASE store.objs[n] = Absent
  <2>1. Transact(w, Stored(store, n, "Added", obj))
    BY <1>1, <1>5 DEF CreatePrestamped
  <2> QED
    BY <1>2, <1>3, <1>5, <2>1, StoredCommits
<1> QED
  BY <1>4, <1>5

(* What a client has read is an object under a name.                       *)
LEMMA ReadIsObject ==
    ASSUME Typed, NEW w \in Writer, writer[w].read # Nothing
    PROVE  writer[w].read.name \in Name /\ writer[w].read.object \in Object
<1>1. writer[w].read \in [name : Name, object : Object]
  BY DEF Typed, Reading
<1> QED
  BY <1>1

LEMMA CheckRvOk ==
    ASSUME NEW n, NEW rv, CheckRv(store, n, rv) = "Ok"
    PROVE  store.objs[n] # Absent /\ store.objs[n].rv = rv
BY DEF CheckRv

LEMMA UpdateSpecCommitsOrRefuses ==
    ASSUME Typed, NEW w \in Writer, UpdateSpec(w)
    PROVE  Refuses(w) \/ \E e \in Event : Commits(w, e)
<1> DEFINE r == writer[w].read
<1>1. r # Nothing /\ r.name \in Name /\ r.object \in Object
  BY ReadIsObject DEF UpdateSpec
<1>2. PICK v \in Value : Transact(w, ReplaceSpec(store, r.name, [r.object EXCEPT !.spec = v]))
  BY DEF UpdateSpec
<1> DEFINE new == [r.object EXCEPT !.spec = v]
           obj == [new EXCEPT !.uid = store.objs[r.name].uid,
                              !.status = store.objs[r.name].status]
<1>3. new \in Object /\ new.rv = r.object.rv
  BY <1>1 DEF Object
<1>4. CASE CheckRv(store, r.name, new.rv) # "Ok"
  <2>1. Transact(w, Refused(store, CheckRv(store, r.name, new.rv)))
    BY <1>2, <1>4 DEF ReplaceSpec
  <2> QED
    BY <1>4, <2>1, RefusedRefuses
<1>5. CASE CheckRv(store, r.name, new.rv) = "Ok"
  <2>1. store.objs[r.name] # Absent /\ store.objs[r.name].rv = r.object.rv
    BY <1>3, <1>5, CheckRvOk
  <2>2. store.objs[r.name] \in Object
    BY <1>1, <2>1 DEF Typed
  <2>3. obj \in Object
    BY <1>3, <2>2 DEF Object
  <2>4. Transact(w, Stored(store, r.name, "Modified", obj))
    BY <1>2, <1>5 DEF ReplaceSpec
  <2> QED
    BY <1>1, <2>1, <2>3, <2>4, StoredCommits
<1> QED
  BY <1>4, <1>5

LEMMA UpdateStatusCommitsOrRefuses ==
    ASSUME Typed, NEW w \in Writer, UpdateStatus(w)
    PROVE  Refuses(w) \/ \E e \in Event : Commits(w, e)
<1> DEFINE r == writer[w].read
<1>1. r # Nothing /\ r.name \in Name /\ r.object \in Object
  BY ReadIsObject DEF UpdateStatus
<1>2. PICK v \in Value : Transact(w, ReplaceStatus(store, r.name, r.object.rv, v))
  BY DEF UpdateStatus
<1> DEFINE obj == [store.objs[r.name] EXCEPT !.status = v]
<1>4. CASE CheckRv(store, r.name, r.object.rv) # "Ok"
  <2>1. Transact(w, Refused(store, CheckRv(store, r.name, r.object.rv)))
    BY <1>2, <1>4 DEF ReplaceStatus
  <2> QED
    BY <1>4, <2>1, RefusedRefuses
<1>5. CASE CheckRv(store, r.name, r.object.rv) = "Ok"
  <2>1. store.objs[r.name] # Absent /\ store.objs[r.name].rv = r.object.rv
    BY <1>5, CheckRvOk
  <2>2. store.objs[r.name] \in Object
    BY <1>1, <2>1 DEF Typed
  <2>3. obj \in Object
    BY <2>2 DEF Object
  <2>4. Transact(w, Stored(store, r.name, "Modified", obj))
    BY <1>2, <1>5 DEF ReplaceStatus
  <2> QED
    BY <1>1, <2>1, <2>3, <2>4, StoredCommits
<1> QED
  BY <1>4, <1>5

LEMMA RemoveCommitsOrRefuses ==
    ASSUME Typed, NEW w \in Writer, Remove(w)
    PROVE  Refuses(w) \/ \E e \in Event : Commits(w, e)
<1> DEFINE r == writer[w].read
           n == r.name
           o == [store.objs[n] EXCEPT !.rv = store.rv + 1]
           e == [type |-> "Deleted", name |-> n, object |-> o]
<1>1. r # Nothing /\ n \in Name /\ r.object \in Object
  BY ReadIsObject DEF Remove
<1>2. Transact(w, Delete(store, n, r.object.rv))
  BY DEF Remove
<1>3. CASE CheckRv(store, n, r.object.rv) # "Ok"
  <2>1. Transact(w, Refused(store, CheckRv(store, n, r.object.rv)))
    BY <1>2, <1>3 DEF Delete
  <2> QED
    BY <1>3, <2>1, RefusedRefuses
<1>4. CASE CheckRv(store, n, r.object.rv) = "Ok"
  <2>1. store.objs[n] # Absent /\ store.objs[n].rv = r.object.rv
    BY <1>4, CheckRvOk
  <2>2. store.objs[n] \in Object /\ store.rv + 1 \in Nat
    BY <1>1, <2>1 DEF Typed
  <2>3. o \in Object /\ o.rv = store.rv + 1
    BY <2>2 DEF Object
  <2>4. e \in Event
    BY <1>1, <2>3 DEF Event
  <2>5. Delete(store, n, r.object.rv) =
          [result |-> "Ok",
           store |-> [rv |-> store.rv + 1, objs |-> [store.objs EXCEPT ![n] = Absent]],
           event |-> e]
    <3>1. Stored(store, n, "Deleted", store.objs[n]) =
            [result |-> "Ok",
             store |-> [rv |-> store.rv + 1, objs |-> [store.objs EXCEPT ![n] = o]],
             event |-> e]
      BY <2>3 DEF Stored, BumpRv
    <3>2. [[store.objs EXCEPT ![n] = o] EXCEPT ![n] = Absent] = [store.objs EXCEPT ![n] = Absent]
      BY <1>1 DEF Typed
    <3>3. Delete(store, n, r.object.rv) =
            [Stored(store, n, "Deleted", store.objs[n]) EXCEPT !.store.objs[n] = Absent]
      BY <1>4 DEF Delete
    <3>4. ASSUME NEW a, NEW g, NEW f
          PROVE  [[result |-> "Ok", store |-> [rv |-> a, objs |-> g], event |-> f]
                     EXCEPT !.store.objs[n] = Absent] =
                 [result |-> "Ok", store |-> [rv |-> a, objs |-> [g EXCEPT ![n] = Absent]],
                  event |-> f]
      OBVIOUS
    <3> HIDE DEF e, o
    <3>5. Delete(store, n, r.object.rv) =
            [[result |-> "Ok",
              store |-> [rv |-> store.rv + 1, objs |-> [store.objs EXCEPT ![n] = o]],
              event |-> e] EXCEPT !.store.objs[n] = Absent]
      BY <3>1, <3>3, Zenon
    <3>6. Delete(store, n, r.object.rv) =
            [result |-> "Ok",
             store |-> [rv |-> store.rv + 1,
                        objs |-> [[store.objs EXCEPT ![n] = o] EXCEPT ![n] = Absent]],
             event |-> e]
      BY <3>4, <3>5, Zenon
    <3> QED
      BY <3>2, <3>6, Zenon
  <2>6. e.name = n /\ e.type = "Deleted" /\ e.object = o
    OBVIOUS
  <2>7. /\ ~Emitting(w)
        /\ store' = [rv |-> store.rv + 1, objs |-> [store.objs EXCEPT ![n] = Absent]]
        /\ committed' = committed \cup {e}
        /\ writer' = [writer EXCEPT ![w] = [read |-> Nothing, event |-> e]]
        /\ UNCHANGED <<sent, watcher>>
    <3> HIDE DEF e, o
    <3> QED
      BY <1>2, <2>5 DEF Transact, Step
  <2>8. Commits(w, e)
    <3> HIDE DEF e, o
    <3> QED
      BY <1>1, <2>1, <2>3, <2>6, <2>7 DEF Commits
  <2> QED
    BY <2>4, <2>8
<1> QED
  BY <1>3, <1>4

-----------------------------------------------------------------------------
(* The writers' half of the invariant.                                     *)

(* A commit: the new version is above all that exist.                      *)
LEMMA CommitKeepsWriteInv ==
    ASSUME WriteInv, NEW w \in Writer, NEW e \in Event, Commits(w, e), uids' \in Nat
    PROVE  WriteInv'
<1> USE DEF WriteInv
<1> DEFINE n == e.name
           left == IF e.type = "Deleted" THEN Absent ELSE e.object
<1>1. /\ e.object.rv = store.rv + 1
      /\ store' = [rv |-> store.rv + 1, objs |-> [store.objs EXCEPT ![n] = left]]
      /\ committed' = committed \cup {e}
      /\ writer' = [writer EXCEPT ![w] = [read |-> Nothing, event |-> e]]
      /\ sent' = sent
  BY DEF Commits
<1>2. n \in Name /\ e.object \in Object /\ e # NoEvent /\ left \in Object \cup {Absent}
  BY AbsentAssumption DEF Event, NoEvent
<1>3. store.rv \in Nat /\ store'.rv = store.rv + 1
  BY <1>1 DEF Typed
<1>4. /\ store'.objs[n] = left
      /\ \A m \in Name : m # n => store'.objs[m] = store.objs[m]
  BY <1>1, <1>2 DEF Typed
<1>5. /\ writer'[w].read = Nothing /\ writer'[w].event = e
      /\ \A u \in Writer : u # w => writer'[u] = writer[u]
  BY <1>1 DEF Typed
<1>6. Typed'
  <2>1. store' \in [rv : Nat, objs : [Name -> Object \cup {Absent}]]
    BY <1>1, <1>2, <1>3 DEF Typed
  <2>2. writer' \in [Writer -> [read : Reading, event : Event \cup {NoEvent}]]
    BY <1>1 DEF Typed, Reading
  <2> QED
    BY <1>1, <2>1, <2>2 DEF Typed
<1>7. e \notin committed /\ \A f \in committed : f.object.rv < e.object.rv /\ f.object.rv # e.object.rv
  BY <1>1, <1>3 DEF RvsAreReached
<1>8. RvsAreReached'
  <2>1. ASSUME NEW m \in Name, store'.objs[m] # Absent
        PROVE  store'.objs[m].rv \in 1..store'.rv
    <3>1. CASE m = n
      BY <1>1, <1>3, <1>4, <2>1, <3>1
    <3>2. CASE m # n
      BY <1>3, <1>4, <2>1, <3>2 DEF RvsAreReached
    <3> QED
      BY <3>1, <3>2
  <2>2. ASSUME NEW f \in committed' PROVE f.object.rv \in 1..store'.rv
    BY <1>1, <1>3, <2>2 DEF RvsAreReached
  <2>3. ASSUME NEW u \in Writer, writer'[u].read # Nothing
        PROVE  writer'[u].read.object.rv \in 1..store'.rv
    BY <1>3, <1>5, <2>3 DEF RvsAreReached
  <2> QED
    BY <2>1, <2>2, <2>3 DEF RvsAreReached
<1>9. ReadsAreVersions'
  <2> SUFFICES ASSUME NEW u \in Writer, NEW m \in Name,
                      writer'[u].read # Nothing, writer'[u].read.name = m,
                      store'.objs[m] # Absent, store'.objs[m].rv = writer'[u].read.object.rv
               PROVE  store'.objs[m] = writer'[u].read.object
    BY DEF ReadsAreVersions
  <2>1. u # w /\ writer'[u].read = writer[u].read
    BY <1>5
  <2>2. writer[u].read.object.rv \in 1..store.rv
    BY <2>1 DEF RvsAreReached
  <2>3. m # n
    BY <1>1, <1>3, <1>4, <2>1, <2>2
  <2> QED
    BY <1>4, <2>1, <2>3 DEF ReadsAreVersions
<1>10. EventsHaveTheirRv'
  BY <1>1, <1>7 DEF EventsHaveTheirRv
<1>11. SentOnce'
  <2>1. \A i \in 1..Len(sent) : sent[i] \in committed' /\ sent[i] # e
    BY <1>1, <1>7 DEF SentOnce
  <2>2. ASSUME NEW u \in Writer, writer'[u].event # NoEvent
        PROVE  /\ writer'[u].event \in committed'
               /\ \A i \in 1..Len(sent) : sent[i] # writer'[u].event
               /\ \A z \in Writer : writer'[z].event = writer'[u].event => z = u
    <3>1. \A z \in Writer : z # w => writer'[z].event = writer[z].event /\ writer[z].event # e
      BY <1>2, <1>5, <1>7 DEF SentOnce, Emitting
    <3>2. CASE u = w
      BY <1>1, <1>5, <2>1, <3>1, <3>2
    <3>3. CASE u # w
      <4>1. writer'[u].event = writer[u].event /\ Emitting(u)
        BY <2>2, <3>1, <3>3 DEF Emitting
      <4> QED
        BY <1>1, <1>5, <3>1, <3>3, <4>1 DEF SentOnce
    <3> QED
      BY <3>2, <3>3
  <2> QED
    BY <1>1, <2>1, <2>2 DEF SentOnce, Emitting
<1>12. StoreIsLastChange'
  <2> SUFFICES ASSUME NEW m \in Name, NEW f \in LastChange(m)'
               PROVE  CurrentRv(m)' = ShownRv(f)
    BY DEF StoreIsLastChange, ShownRv
  <2>1. f \in committed' /\ f.name = m /\ \A g \in committed' : g.name = m => g.object.rv <= f.object.rv
    BY DEF LastChange
  <2>2. CASE m = n
    <3>1. f.object.rv \in Nat /\ e.object.rv \in Nat
      BY <1>6, <2>1 DEF Typed, Event, Object
    <3>2. e.object.rv <= f.object.rv
      BY <1>1, <2>1, <2>2
    <3>3. f = e
      BY <1>1, <1>7, <2>1, <3>1, <3>2
    <3>4. e.object # Absent
      BY <1>2, AbsentAssumption
    <3> QED
      BY <1>4, <2>2, <3>3, <3>4 DEF CurrentRv, ShownRv
  <2>3. CASE m # n
    <3>1. f \in LastChange(m)
      BY <1>1, <2>1, <2>3 DEF LastChange
    <3>2. CurrentRv(m)' = CurrentRv(m)
      BY <1>4, <2>3 DEF CurrentRv
    <3> QED
      BY <3>1, <3>2 DEF StoreIsLastChange
  <2> QED
    BY <2>2, <2>3
<1> QED
  BY <1>6, <1>8, <1>9, <1>10, <1>11, <1>12

(* A read or a refused request: only what the client has read changes.     *)
LEMMA ReadKeepsWriteInv ==
    ASSUME WriteInv, NEW w \in Writer, ~Emitting(w),
           NEW r \in Reading,
           r # Nothing => store.objs[r.name] # Absent /\ r.object = store.objs[r.name],
           writer' = [writer EXCEPT ![w] = [read |-> r, event |-> NoEvent]],
           UNCHANGED <<store, sent, committed>>, uids' \in Nat
    PROVE  WriteInv'
<1> USE DEF WriteInv
<1>1. /\ writer'[w].read = r /\ writer'[w].event = NoEvent
      /\ \A u \in Writer : u # w => writer'[u] = writer[u]
  BY DEF Typed
<1>2. \A u \in Writer : writer'[u].event = writer[u].event
  BY <1>1 DEF Emitting
<1>3. r # Nothing => r.name \in Name
  BY DEF Reading
<1>4. Typed'
  BY DEF Typed
<1>5. RvsAreReached'
  <2>1. ASSUME NEW u \in Writer, writer'[u].read # Nothing
        PROVE  writer'[u].read.object.rv \in 1..store.rv
    <3>1. CASE u = w
      BY <1>1, <1>3, <2>1, <3>1 DEF RvsAreReached
    <3>2. CASE u # w
      BY <1>1, <2>1, <3>2 DEF RvsAreReached
    <3> QED
      BY <3>1, <3>2
  <2> QED
    BY <2>1 DEF RvsAreReached
<1>6. ReadsAreVersions'
  <2> SUFFICES ASSUME NEW u \in Writer, NEW m \in Name,
                      writer'[u].read # Nothing, writer'[u].read.name = m,
                      store.objs[m] # Absent, store.objs[m].rv = writer'[u].read.object.rv
               PROVE  store.objs[m] = writer'[u].read.object
    BY DEF ReadsAreVersions
  <2>1. CASE u = w
    BY <1>1, <2>1
  <2>2. CASE u # w
    BY <1>1, <2>2 DEF ReadsAreVersions
  <2> QED
    BY <2>1, <2>2
<1>7. EventsHaveTheirRv'
  BY DEF EventsHaveTheirRv
<1>8. SentOnce'
  BY <1>2 DEF SentOnce, Emitting
<1>9. StoreIsLastChange'
  BY DEF StoreIsLastChange, LastChange, CurrentRv, ShownRv
<1> QED
  BY <1>4, <1>5, <1>6, <1>7, <1>8, <1>9

(* An emit: the event moves from the writer to the channel.                *)
LEMMA EmitKeepsWriteInv ==
    ASSUME WriteInv, NEW w \in Writer, Emit(w)
    PROVE  WriteInv'
<1> USE DEF WriteInv
<1> DEFINE e == writer[w].event
<1>1. /\ Emitting(w)
      /\ sent' = Append(sent, e)
      /\ writer' = [writer EXCEPT ![w] = [read |-> writer[w].read, event |-> NoEvent]]
      /\ UNCHANGED <<store, committed, uids>>
  BY DEF Emit, Step
<1>2. e \in Event /\ e # NoEvent
  BY <1>1 DEF Typed, Emitting
<1>3. /\ writer'[w].event = NoEvent
      /\ \A u \in Writer : writer'[u].read = writer[u].read
      /\ \A u \in Writer : u # w => writer'[u].event = writer[u].event
  BY <1>1 DEF Typed
<1>4. /\ Len(sent') = Len(sent) + 1 /\ sent'[Len(sent) + 1] = e /\ Len(sent) \in Nat
      /\ \A i \in 1..Len(sent) : sent'[i] = sent[i]
  BY <1>1, <1>2 DEF Typed
<1>5. Typed'
  <2>1. sent' \in Seq(Event)
    BY <1>1, <1>2 DEF Typed
  <2>2. writer' \in [Writer -> [read : Reading, event : Event \cup {NoEvent}]]
    BY <1>1 DEF Typed
  <2> QED
    BY <1>1, <2>1, <2>2 DEF Typed
<1>6. RvsAreReached' /\ ReadsAreVersions' /\ EventsHaveTheirRv'
  BY <1>1, <1>3 DEF RvsAreReached, ReadsAreVersions, EventsHaveTheirRv
<1>7. SentOnce'
  <2>1. e \in committed /\ \A i \in 1..Len(sent) : sent[i] # e
    BY <1>1 DEF SentOnce
  <2>2. \A i \in 1..Len(sent') : i = Len(sent) + 1 \/ i \in 1..Len(sent)
    BY <1>4
  <2>3. \A i \in 1..Len(sent') : sent'[i] \in committed'
    BY <1>1, <1>4, <2>1, <2>2 DEF SentOnce
  <2>4. \A i, j \in 1..Len(sent') : sent'[i] = sent'[j] => i = j
    BY <1>4, <2>1, <2>2 DEF SentOnce
  <2>5. ASSUME NEW u \in Writer, writer'[u].event # NoEvent
        PROVE  /\ writer'[u].event \in committed'
               /\ \A i \in 1..Len(sent') : sent'[i] # writer'[u].event
               /\ \A z \in Writer : writer'[z].event = writer'[u].event => z = u
    <3>1. u # w /\ writer'[u].event = writer[u].event /\ Emitting(u)
      BY <1>3, <2>5 DEF Emitting
    <3>2. writer[u].event # e
      BY <1>1, <3>1 DEF SentOnce
    <3> QED
      BY <1>1, <1>3, <1>4, <2>2, <2>5, <3>1, <3>2 DEF SentOnce
  <2> QED
    BY <2>3, <2>4, <2>5 DEF SentOnce, Emitting
<1>8. StoreIsLastChange'
  BY <1>1 DEF StoreIsLastChange, LastChange, CurrentRv, ShownRv
<1> QED
  BY <1>5, <1>6, <1>7, <1>8

(* A write to another kind takes a version.                                *)
LEMMA OtherKindKeepsWriteInv ==
    ASSUME WriteInv, OtherKind
    PROVE  WriteInv'
<1> USE DEF WriteInv
<1>1. /\ store.rv \in Nat /\ store'.rv = store.rv + 1 /\ store'.objs = store.objs
      /\ store' \in [rv : Nat, objs : [Name -> Object \cup {Absent}]]
  BY DEF OtherKind, Typed
<1>2. UNCHANGED <<writer, sent, committed, uids>>
  BY DEF OtherKind
<1>3. Typed'
  BY <1>1, <1>2 DEF Typed
<1>4. RvsAreReached'
  BY <1>1, <1>2 DEF RvsAreReached
<1>5. ReadsAreVersions' /\ EventsHaveTheirRv' /\ SentOnce'
  BY <1>1, <1>2 DEF ReadsAreVersions, EventsHaveTheirRv, SentOnce, Emitting
<1>6. StoreIsLastChange'
  BY <1>1, <1>2 DEF StoreIsLastChange, LastChange, CurrentRv, ShownRv
<1> QED
  BY <1>3, <1>4, <1>5, <1>6

(* The watchers write nothing of it.                                       *)
LEMMA WatchersKeepWriteInv ==
    ASSUME WriteInv, UNCHANGED <<store, writer, sent, committed, uids>>
    PROVE  WriteInv'
<1> USE DEF WriteInv
<1>1. Typed' /\ RvsAreReached' /\ ReadsAreVersions' /\ EventsHaveTheirRv'
  BY DEF Typed, RvsAreReached, ReadsAreVersions, EventsHaveTheirRv
<1>2. SentOnce' /\ StoreIsLastChange'
  BY DEF SentOnce, Emitting, StoreIsLastChange, LastChange, CurrentRv, ShownRv
<1> QED
  BY <1>1, <1>2

-----------------------------------------------------------------------------
(* The watchers' half.                                                     *)

(* A write, or nothing: what is in flight or buffered stays, and the new   *)
(* event, if there is one, is in flight.                                   *)
LEMMA WriteKeepsWatchInv ==
    ASSUME WriteInv, WatchInv,
           UNCHANGED <<sent, watcher>>, store'.rv \in Nat, store.rv <= store'.rv,
           \A w \in Writer : Emitting(w) => writer'[w].event = writer[w].event,
           \A e \in committed' : e \in committed \/ \E w \in Writer : writer'[w].event = e
    PROVE  WatchInv'
<1> USE DEF WatchInv
<1>0. store.rv \in Nat
  BY DEF WriteInv, Typed
<1>1. StreamsAreBehind'
  <2>1. ASSUME NEW x \in Watcher
        PROVE  /\ watcher[x].pos <= Len(sent) /\ watcher[x].snapshotRv <= store'.rv
               /\ \A o \in watcher[x].snapshot : o.rv <= store'.rv
    <3>1. watcher[x] \in Stream
      BY DEF StreamsAreBehind
    <3>2. watcher[x].snapshotRv \in Nat /\ \A o \in watcher[x].snapshot : o.rv \in Nat
      BY <3>1 DEF Stream
    <3> QED
      BY <1>0, <3>2 DEF StreamsAreBehind
  <2> QED
    BY <2>1 DEF StreamsAreBehind
<1>2. DeliveredWasReceived'
  BY DEF DeliveredWasReceived, Streaming
<1>3. LiveStreamIsComplete'
  <2> SUFFICES ASSUME NEW x \in Watcher, Streaming(x), NEW e \in committed',
                      e.object.rv > watcher[x].snapshotRv
               PROVE  e.object.rv \in watcher[x].delivered \/ Buffered(x, e) \/ InFlight(e)'
    BY DEF LiveStreamIsComplete, Streaming, Buffered
  <2>1. CASE \E w \in Writer : writer'[w].event = e
    BY <2>1 DEF InFlight
  <2>2. CASE e \in committed
    <3>1. e # NoEvent
      BY <2>2, AbsentAssumption DEF WriteInv, Typed, NoEvent
    <3>2. InFlight(e) => InFlight(e)'
      BY <3>1 DEF InFlight, Emitting
    <3> QED
      BY <2>2, <3>2 DEF LiveStreamIsComplete
  <2> QED
    BY <2>1, <2>2
<1>4. ViewIsLastForwarded'
  BY DEF ViewIsLastForwarded, LastForwarded, NewerThanSnapshot, Streaming, ShownRv
<1> QED
  BY <1>1, <1>2, <1>3, <1>4

(* An emit appends an event that was in flight.                            *)
LEMMA EmitKeepsWatchInv ==
    ASSUME WriteInv, WatchInv, NEW w \in Writer, Emit(w)
    PROVE  WatchInv'
<1> USE DEF WatchInv
<1> DEFINE e == writer[w].event
<1>1. /\ sent' = Append(sent, e)
      /\ writer' = [writer EXCEPT ![w] = [read |-> writer[w].read, event |-> NoEvent]]
      /\ UNCHANGED <<store, committed, watcher>>
  BY DEF Emit, Step
<1>2. e \in Event
  BY DEF WriteInv, Typed, Emit, Emitting
<1>3. /\ Len(sent') = Len(sent) + 1 /\ sent'[Len(sent) + 1] = e /\ Len(sent) \in Nat
      /\ \A i \in 1..Len(sent) : sent'[i] = sent[i]
  BY <1>1, <1>2 DEF WriteInv, Typed
<1>4. \A x \in Watcher : watcher[x].pos \in 0..Len(sent)
  BY <1>3 DEF StreamsAreBehind, Stream
<1>5. StreamsAreBehind'
  BY <1>1, <1>3 DEF StreamsAreBehind, Stream
<1>6. DeliveredWasReceived'
  <2> SUFFICES ASSUME NEW x \in Watcher, Streaming(x), NEW rv \in watcher[x].delivered,
                      ~(rv <= watcher[x].snapshotRv)
               PROVE  \E i \in 1..watcher[x].pos : sent'[i].object.rv = rv
    BY <1>1 DEF DeliveredWasReceived, Streaming
  <2>1. PICK i \in 1..watcher[x].pos : sent[i].object.rv = rv
    BY DEF DeliveredWasReceived
  <2>2. i \in 1..Len(sent)
    BY <1>3, <1>4
  <2> QED
    BY <1>3, <2>1, <2>2
<1>7. LiveStreamIsComplete'
  <2> SUFFICES ASSUME NEW x \in Watcher, Streaming(x), NEW f \in committed,
                      f.object.rv > watcher[x].snapshotRv,
                      f.object.rv \notin watcher[x].delivered
               PROVE  Buffered(x, f)' \/ InFlight(f)'
    BY <1>1 DEF LiveStreamIsComplete, Streaming
  <2>1. CASE Buffered(x, f)
    <3>1. PICK i \in watcher[x].pos + 1 .. Len(sent) : sent[i] = f
      BY <2>1 DEF Buffered
    <3>2. i \in 1..Len(sent) /\ i \in watcher[x].pos + 1 .. Len(sent')
      BY <1>3, <1>4
    <3> QED
      BY <1>1, <1>3, <3>1, <3>2 DEF Buffered
  <2>2. ASSUME NEW u \in Writer, writer[u].event = f
        PROVE  Buffered(x, f)' \/ InFlight(f)'
    <3>1. CASE u = w
      <4>1. Len(sent) + 1 \in watcher[x].pos + 1 .. Len(sent')
        BY <1>3, <1>4
      <4> QED
        BY <1>1, <1>3, <2>2, <3>1, <4>1 DEF Buffered
    <3>2. CASE u # w
      <4>1. writer'[u].event = f
        BY <1>1, <2>2, <3>2 DEF WriteInv, Typed
      <4> QED
        BY <4>1 DEF InFlight
    <3> QED
      BY <3>1, <3>2
  <2> QED
    BY <2>1, <2>2 DEF LiveStreamIsComplete, InFlight
<1>8. ViewIsLastForwarded'
  <2> SUFFICES ASSUME NEW x \in Watcher, Streaming(x), NEW i \in 1..watcher[x].pos,
                      LastForwarded(x, i)'
               PROVE  watcher[x].view[sent'[i].name] = ShownRv(sent'[i])
    BY <1>1 DEF ViewIsLastForwarded, Streaming, ShownRv
  <2>1. \A j \in 1..watcher[x].pos : j \in 1..Len(sent) /\ sent'[j] = sent[j]
    BY <1>3, <1>4
  <2>2. \A j \in i + 1 .. watcher[x].pos : j \in 1..watcher[x].pos
    BY <1>4
  <2>3. LastForwarded(x, i)
    BY <1>1, <2>1, <2>2 DEF LastForwarded, NewerThanSnapshot
  <2> QED
    BY <2>1, <2>3 DEF ViewIsLastForwarded
<1> QED
  BY <1>5, <1>6, <1>7, <1>8

(* A watcher's own step: it is enough to look at the stream that changes.  *)
StreamInv(x) ==
    /\ watcher[x] \in Stream
    /\ watcher[x].pos <= Len(sent) /\ watcher[x].snapshotRv <= store.rv
    /\ \A o \in watcher[x].snapshot : o.rv <= store.rv
    /\ Streaming(x) =>
          /\ \A rv \in watcher[x].delivered :
                rv <= watcher[x].snapshotRv
                \/ \E i \in 1..watcher[x].pos : sent[i].object.rv = rv
          /\ \A e \in committed : e.object.rv > watcher[x].snapshotRv =>
                e.object.rv \in watcher[x].delivered \/ Buffered(x, e) \/ InFlight(e)
          /\ \A i \in 1..watcher[x].pos :
                LastForwarded(x, i) => watcher[x].view[sent[i].name] = ShownRv(sent[i])

LEMMA WatchInvIsOfEachStream ==
    WatchInv <=> watcher \in [Watcher -> Stream] /\ \A x \in Watcher : StreamInv(x)
BY DEF WatchInv, StreamInv, StreamsAreBehind, DeliveredWasReceived,
       LiveStreamIsComplete, ViewIsLastForwarded

LEMMA OneStreamKeepsWatchInv ==
    ASSUME WatchInv, NEW x \in Watcher, NEW s, watcher' = [watcher EXCEPT ![x] = s],
           UNCHANGED <<store, writer, sent, committed>>, StreamInv(x)'
    PROVE  WatchInv'
<1>1. watcher \in [Watcher -> Stream] /\ \A y \in Watcher : StreamInv(y)
  BY WatchInvIsOfEachStream
<1>2. watcher'[x] = s /\ s \in Stream
  BY <1>1 DEF StreamInv
<1>3. ASSUME NEW y \in Watcher PROVE StreamInv(y)'
  <2>1. CASE y # x
    <3>1. watcher'[y] = watcher[y]
      BY <1>1, <2>1
    <3> QED
      BY <1>1, <3>1 DEF StreamInv, Streaming, Buffered, InFlight, LastForwarded,
                        NewerThanSnapshot, ShownRv
  <2> QED
    BY <2>1
<1>4. watcher' \in [Watcher -> Stream]
  BY <1>1, <1>2
<1>5. WatchInv' <=> watcher' \in [Watcher -> Stream] /\ \A y \in Watcher : StreamInv(y)'
  BY DEF WatchInv, StreamInv, StreamsAreBehind, DeliveredWasReceived,
         LiveStreamIsComplete, ViewIsLastForwarded
<1> QED
  BY <1>3, <1>4, <1>5

(* A stream that ends or has not begun promises nothing.                   *)
LEMMA NoStreamKeepsWatchInv ==
    ASSUME WriteInv, WatchInv, NEW x \in Watcher,
           watcher' = [watcher EXCEPT ![x] = NoStream],
           UNCHANGED <<store, writer, sent, committed>>
    PROVE  WatchInv'
<1>1. watcher \in [Watcher -> Stream] /\ store.rv \in Nat /\ Len(sent) \in Nat
  BY DEF WatchInv, StreamsAreBehind, WriteInv, Typed
<1>2. watcher'[x] = NoStream /\ NoStream \in Stream
  BY <1>1 DEF NoStream, Stream
<1>3. StreamInv(x)'
  BY <1>1, <1>2 DEF StreamInv, NoStream, Streaming
<1> QED
  BY <1>3, OneStreamKeepsWatchInv

LEMMA SubscribeKeepsWatchInv ==
    ASSUME WriteInv, WatchInv, NEW x \in Watcher, Subscribe(x)
    PROVE  WatchInv'
<1>1. watcher \in [Watcher -> Stream] /\ store.rv \in Nat /\ Len(sent) \in Nat
  BY DEF WatchInv, StreamsAreBehind, WriteInv, Typed
<1>2. PICK rv \in FromRvs :
        watcher' = [watcher EXCEPT ![x] =
            [NoStream EXCEPT !.pc = "scan", !.fromRv = rv, !.pos = Len(sent), !.left = Name]]
  BY DEF Subscribe
<1> DEFINE s == [NoStream EXCEPT !.pc = "scan", !.fromRv = rv, !.pos = Len(sent), !.left = Name]
<1>3. /\ s \in Stream /\ s.pc = "scan" /\ s.pos = Len(sent)
      /\ s.snapshotRv = 0 /\ s.snapshot = {}
  BY <1>1, WatchAssumption DEF NoStream, Stream
<1>4. watcher'[x] = s
  BY <1>1, <1>2
<1>5. UNCHANGED <<store, writer, sent, committed>>
  BY DEF Subscribe
<1> HIDE DEF s
<1>6. StreamInv(x)'
  BY <1>1, <1>3, <1>4, <1>5 DEF StreamInv, Streaming
<1> QED
  BY <1>2, <1>5, <1>6, OneStreamKeepsWatchInv DEF s

LEMMA ScanKeyKeepsWatchInv ==
    ASSUME WriteInv, WatchInv, NEW x \in Watcher, NEW n \in Name, ScanKey(x, n)
    PROVE  WatchInv'
<1> DEFINE s == watcher[x]
           found == IF store.objs[n] = Absent THEN s.snapshot
                    ELSE s.snapshot \cup {[name |-> n, rv |-> store.objs[n].rv]}
           t == [s EXCEPT !.left = @ \ {n}, !.snapshot = found]
<1>1. watcher \in [Watcher -> Stream] /\ store.rv \in Nat /\ Len(sent) \in Nat
  BY DEF WatchInv, StreamsAreBehind, WriteInv, Typed
<1>2. s \in Stream /\ s.pc = "scan" /\ StreamInv(x)
  BY <1>1, WatchInvIsOfEachStream DEF ScanKey
<1>3. /\ found \in SUBSET [name : Name, rv : Nat]
      /\ \A o \in found : o.rv <= store.rv
  <2>1. store.objs[n] # Absent => store.objs[n].rv \in 1..store.rv
    BY DEF WriteInv, RvsAreReached
  <2>2. s.snapshot \in SUBSET [name : Name, rv : Nat] /\ \A o \in s.snapshot : o.rv <= store.rv
    BY <1>2 DEF Stream, StreamInv
  <2> QED
    BY <1>1, <2>1, <2>2
<1>4. watcher' = [watcher EXCEPT ![x] = t]
  BY <1>1, <1>2 DEF ScanKey
<1>5. UNCHANGED <<store, writer, sent, committed>>
  BY DEF ScanKey
<1>6. /\ t \in Stream /\ t.pc = "scan" /\ t.pos = s.pos
      /\ t.snapshotRv = s.snapshotRv /\ t.snapshot = found
  <2> HIDE DEF found
  <2> QED
    BY <1>2, <1>3 DEF Stream
<1>7. watcher'[x] = t
  BY <1>1, <1>4
<1> HIDE DEF t, found
<1>8. StreamInv(x)'
  BY <1>2, <1>3, <1>5, <1>6, <1>7 DEF StreamInv, Streaming
<1> QED
  BY <1>4, <1>5, <1>8, OneStreamKeepsWatchInv

(* The list is done: current_rv is read last, so nothing is newer yet, and *)
(* all that was received before the list is not newer either.              *)
LEMMA ListDoneKeepsWatchInv ==
    ASSUME WriteInv, WatchInv, NEW x \in Watcher, ListDone(x)
    PROVE  WatchInv'
<1> DEFINE s == watcher[x]
           seen == CatchUp(s)
           view == [n \in Name |-> IF \E o \in seen : o.name = n
                                   THEN (CHOOSE o \in seen : o.name = n).rv ELSE 0]
           t == [s EXCEPT !.pc = "live", !.snapshotRv = store.rv,
                          !.delivered = {o.rv : o \in seen}, !.view = view]
<1>1. watcher \in [Watcher -> Stream] /\ store.rv \in Nat /\ Len(sent) \in Nat
  BY DEF WatchInv, StreamsAreBehind, WriteInv, Typed
<1>2. s \in Stream /\ StreamInv(x)
  BY <1>1, WatchInvIsOfEachStream
<1>3. seen \in SUBSET [name : Name, rv : Nat] /\ \A o \in seen : o.rv <= store.rv
  BY <1>2 DEF CatchUp, Stream, StreamInv
<1>4. view \in [Name -> Nat]
  <2> SUFFICES ASSUME NEW n \in Name, \E o \in seen : o.name = n
               PROVE  (CHOOSE o \in seen : o.name = n).rv \in Nat
    OBVIOUS
  <2>1. (CHOOSE o \in seen : o.name = n) \in seen
    OBVIOUS
  <2> QED
    BY <1>3, <2>1
<1>5. {o.rv : o \in seen} \in SUBSET Nat /\ \A rv \in {o.rv : o \in seen} : rv <= store.rv
  BY <1>3
<1>6. watcher' = [watcher EXCEPT ![x] = t] /\ UNCHANGED <<store, writer, sent, committed>>
  BY DEF ListDone
<1>7. /\ t \in Stream /\ t.pos = s.pos /\ t.snapshotRv = store.rv
      /\ t.delivered = {o.rv : o \in seen} /\ t.snapshot = s.snapshot
  <2> HIDE DEF view, seen
  <2> QED
    BY <1>1, <1>2, <1>4, <1>5 DEF Stream
<1>8. watcher'[x] = t
  BY <1>1, <1>6
<1>9. \A e \in committed : ~(e.object.rv > store.rv)
  BY <1>1 DEF WriteInv, RvsAreReached
<1>10. \A i \in 1..s.pos : sent[i] \in committed
  <2>1. s.pos \in 0..Len(sent)
    BY <1>1, <1>2 DEF StreamInv, Stream
  <2> QED
    BY <1>1, <2>1 DEF WriteInv, SentOnce
<1> HIDE DEF t, seen
<1>11. StreamInv(x)'
  <2>1. \A i \in 1..t.pos : ~LastForwarded(x, i)'
    BY <1>6, <1>7, <1>8, <1>9, <1>10 DEF LastForwarded, NewerThanSnapshot
  <2> QED
    BY <1>1, <1>2, <1>5, <1>6, <1>7, <1>8, <1>9, <2>1 DEF StreamInv
<1> QED
  BY <1>6, <1>11, OneStreamKeepsWatchInv

(* An event is received and forwarded, or filtered out since it is not     *)
(* newer than the snapshot.                                                *)
LEMMA RecvKeepsWatchInv ==
    ASSUME WriteInv, WatchInv, NEW x \in Watcher, Recv(x)
    PROVE  WatchInv'
<1> DEFINE s == watcher[x]
           k == s.pos + 1
           e == sent[k]
           t == IF NewerThanSnapshot(s, e)
                THEN [s EXCEPT !.pos = @ + 1, !.delivered = @ \cup {e.object.rv},
                               !.view[e.name] = IF e.type = "Deleted" THEN 0 ELSE e.object.rv]
                ELSE [s EXCEPT !.pos = @ + 1]
<1>1. watcher \in [Watcher -> Stream] /\ store.rv \in Nat /\ Len(sent) \in Nat
  BY DEF WatchInv, StreamsAreBehind, WriteInv, Typed
<1>2. s \in Stream /\ StreamInv(x) /\ Streaming(x)
  BY <1>1, WatchInvIsOfEachStream DEF Recv
<1>3. s.pos \in Nat /\ s.snapshotRv \in Nat /\ k \in 1..Len(sent) /\ s.pos < Len(sent)
  BY <1>1, <1>2 DEF Recv, Stream
<1>4. e \in Event /\ e \in committed
  BY <1>3 DEF WriteInv, Typed, SentOnce
<1>5. e.name \in Name /\ e.object.rv \in Nat /\ ShownRv(e) \in Nat
  BY <1>4 DEF Event, Object, ShownRv
<1>6. watcher' = [watcher EXCEPT ![x] = t] /\ UNCHANGED <<store, writer, sent, committed>>
  BY DEF Recv
<1>7. /\ t \in Stream /\ t.pc = s.pc /\ t.pos = k /\ t.snapshotRv = s.snapshotRv
      /\ t.snapshot = s.snapshot
      /\ t.delivered = s.delivered \cup (IF NewerThanSnapshot(s, e) THEN {e.object.rv} ELSE {})
      /\ \A n \in Name : t.view[n] = IF NewerThanSnapshot(s, e) /\ n = e.name
                                     THEN ShownRv(e) ELSE s.view[n]
  <2> HIDE DEF e
  <2>1. CASE NewerThanSnapshot(s, e)
    <3> DEFINE seen == s.delivered \cup {e.object.rv}
               view == [s.view EXCEPT ![e.name] = ShownRv(e)]
    <3>1. t = [s EXCEPT !.pos = k, !.delivered = seen, !.view = view]
      BY <2>1 DEF ShownRv
    <3>2. /\ view \in [Name -> Nat] /\ seen \in SUBSET Nat
          /\ \A n \in Name : view[n] = IF n = e.name THEN ShownRv(e) ELSE s.view[n]
      BY <1>2, <1>5 DEF Stream
    <3>3. k \in Nat
      BY <1>3
    <3>4. seen = s.delivered \cup (IF NewerThanSnapshot(s, e) THEN {e.object.rv} ELSE {})
      BY <2>1
    <3> HIDE DEF t, seen, view, k
    <3>5. /\ t \in Stream /\ t.pc = s.pc /\ t.pos = k /\ t.snapshotRv = s.snapshotRv
          /\ t.snapshot = s.snapshot /\ t.delivered = seen /\ t.view = view
      BY <1>2, <3>1, <3>2, <3>3 DEF Stream
    <3> QED
      BY <2>1, <3>2, <3>4, <3>5
  <2>2. CASE ~NewerThanSnapshot(s, e)
    BY <1>2, <1>3, <2>2 DEF Stream
  <2> QED
    BY <2>1, <2>2
<1>8. watcher'[x] = t
  BY <1>1, <1>6
<1> HIDE DEF t
<1>9. ASSUME NEW rv \in t.delivered
      PROVE  rv <= t.snapshotRv \/ \E i \in 1..t.pos : sent[i].object.rv = rv
  <2>1. CASE rv \in s.delivered
    <3>1. rv <= s.snapshotRv \/ \E i \in 1..s.pos : sent[i].object.rv = rv
      BY <1>2, <2>1 DEF StreamInv
    <3> QED
      BY <1>3, <1>7, <3>1
  <2>2. CASE rv = e.object.rv
    BY <1>3, <1>7, <2>2
  <2> QED
    BY <1>7, <2>1, <2>2
<1>10. ASSUME NEW f \in committed, f.object.rv > t.snapshotRv,
              f.object.rv \notin t.delivered
       PROVE  Buffered(x, f)' \/ InFlight(f)'
  <2>1. f.object.rv \notin s.delivered /\ f # e
    BY <1>4, <1>7, <1>10 DEF NewerThanSnapshot
  <2>2. Buffered(x, f) \/ InFlight(f)
    BY <1>2, <1>7, <1>10, <2>1 DEF StreamInv
  <2>3. CASE Buffered(x, f)
    <3>1. PICK i \in k .. Len(sent) : sent[i] = f
      BY <2>3 DEF Buffered
    <3>2. i \in k + 1 .. Len(sent)
      BY <1>1, <1>3, <2>1, <3>1
    <3> QED
      BY <1>6, <1>7, <1>8, <3>1, <3>2 DEF Buffered
  <2>4. CASE InFlight(f)
    BY <1>6, <2>4 DEF InFlight
  <2> QED
    BY <2>2, <2>3, <2>4
<1>11. ASSUME NEW i \in 1..t.pos, LastForwarded(x, i)'
       PROVE  t.view[sent[i].name] = ShownRv(sent[i])
  <2>1. /\ NewerThanSnapshot(t, sent[i])
        /\ \A j \in i + 1 .. k : sent[j].name = sent[i].name => ~NewerThanSnapshot(t, sent[j])
    BY <1>6, <1>7, <1>8, <1>11 DEF LastForwarded, NewerThanSnapshot
  <2>2. \A f : NewerThanSnapshot(t, f) <=> NewerThanSnapshot(s, f)
    BY <1>7 DEF NewerThanSnapshot
  <2>3. CASE i = k
    BY <1>5, <1>7, <2>1, <2>2, <2>3
  <2>4. CASE i # k
    <3>1. i \in 1..s.pos /\ k \in i + 1 .. k
      BY <1>3, <1>7, <2>4
    <3>2. LastForwarded(x, i)
      BY <1>3, <2>1, <2>2, <3>1 DEF LastForwarded
    <3>3. s.view[sent[i].name] = ShownRv(sent[i])
      BY <1>2, <3>1, <3>2 DEF StreamInv
    <3>4. ~(NewerThanSnapshot(s, e) /\ sent[i].name = e.name)
      BY <2>1, <2>2, <3>1
    <3>5. sent[i].name \in Name
      <4>1. sent[i] \in Event
        BY <1>1, <1>3, <3>1 DEF WriteInv, Typed
      <4> QED
        BY <4>1 DEF Event
    <3> QED
      BY <1>7, <3>3, <3>4, <3>5
  <2> QED
    BY <2>3, <2>4
<1>12. StreamInv(x)'
  <2>1. t.pos <= Len(sent)
    BY <1>3, <1>7
  <2> QED
    BY <1>2, <1>6, <1>7, <1>8, <1>9, <1>10, <1>11, <2>1 DEF StreamInv, ShownRv
<1> QED
  BY <1>6, <1>12, OneStreamKeepsWatchInv

-----------------------------------------------------------------------------
(* The theorems *)

LEMMA InitEstablishesInv == Init => Inv
<1> SUFFICES ASSUME Init PROVE Inv
  OBVIOUS
<1>1. /\ store.rv = 0 /\ \A n \in Name : store.objs[n] = Absent
      /\ committed = {} /\ sent = << >> /\ Len(sent) = 0
  BY DEF Init, EmptyStore
<1>2. \A w \in Writer : writer[w].read = Nothing /\ writer[w].event = NoEvent
  BY DEF Init
<1>3. Typed
  BY DEF Init, EmptyStore, Typed, Reading
<1>4. RvsAreReached /\ ReadsAreVersions /\ EventsHaveTheirRv /\ SentOnce /\ StoreIsLastChange
  BY <1>1, <1>2 DEF RvsAreReached, ReadsAreVersions, EventsHaveTheirRv, SentOnce,
                    StoreIsLastChange, LastChange, Emitting
<1>5. watcher \in [Watcher -> Stream] /\ \A x \in Watcher : watcher[x] = NoStream
  BY DEF Init, NoStream, Stream
<1>6. \A x \in Watcher : StreamInv(x)
  BY <1>1, <1>5 DEF StreamInv, NoStream, Streaming
<1> QED
  BY <1>3, <1>4, <1>5, <1>6, WatchInvIsOfEachStream DEF Inv, WriteInv

(* What a writer's request is to the invariant.                            *)
LEMMA WriteKeepsInv ==
    ASSUME Inv, NEW w \in Writer, Write(w)
    PROVE  Inv'
<1> USE DEF Inv
<1>0. Typed
  BY DEF WriteInv
<1>1. ASSUME NEW n \in Name, Read(w, n)
      PROVE  Inv'
  <2> DEFINE r == [name |-> n, object |-> store.objs[n]]
  <2>1. /\ ~Emitting(w) /\ store.objs[n] # Absent
        /\ writer' = [writer EXCEPT ![w] = [read |-> r, event |-> NoEvent]]
        /\ UNCHANGED <<store, sent, committed, watcher, uids>>
    BY <1>1 DEF Read, Step
  <2>2. r \in Reading /\ uids' \in Nat /\ store.rv \in Nat
    BY <1>0, <2>1 DEF Typed, Reading
  <2>3. WriteInv'
    BY <2>1, <2>2, ReadKeepsWriteInv
  <2>4. \A u \in Writer : Emitting(u) => writer'[u].event = writer[u].event
    BY <1>0, <2>1 DEF Typed
  <2>5. WatchInv'
    BY <2>1, <2>2, <2>4, WriteKeepsWatchInv
  <2> QED
    BY <2>3, <2>5
<1>2. ASSUME Refuses(w), uids' \in Nat
      PROVE  Inv'
  <2>1. store' = store /\ Nothing \in Reading /\ store.rv \in Nat
    BY <1>0, <1>2 DEF Refuses, Reading, Typed
  <2>2. WriteInv'
    BY <1>2, <2>1, ReadKeepsWriteInv DEF Refuses
  <2>3. \A u \in Writer : Emitting(u) => writer'[u].event = writer[u].event
    BY <1>0, <1>2 DEF Typed, Refuses
  <2>4. WatchInv'
    BY <1>2, <2>1, <2>3, WriteKeepsWatchInv DEF Refuses
  <2> QED
    BY <2>2, <2>4
<1>3. ASSUME NEW e \in Event, Commits(w, e), uids' \in Nat
      PROVE  Inv'
  <2>1. WriteInv'
    BY <1>3, CommitKeepsWriteInv
  <2>2. store'.rv \in Nat /\ store.rv <= store'.rv
    BY <1>0, <1>3 DEF Commits, Typed
  <2>3. /\ \A u \in Writer : Emitting(u) => writer'[u].event = writer[u].event
        /\ writer'[w].event = e
    BY <1>0, <1>3 DEF Typed, Commits
  <2>4. WatchInv'
    BY <1>3, <2>2, <2>3, WriteKeepsWatchInv DEF Commits
  <2> QED
    BY <2>1, <2>4
<1>4. ASSUME NEW n \in Name, Create(w, n) PROVE Inv'
  BY <1>0, <1>2, <1>3, <1>4, CreateCommitsOrRefuses
<1>5. ASSUME UpdateSpec(w) \/ UpdateStatus(w) \/ Remove(w) PROVE Inv'
  <2>1. uids' \in Nat
    BY <1>0, <1>5 DEF Typed, UpdateSpec, UpdateStatus, Remove
  <2> QED
    BY <1>0, <1>2, <1>3, <1>5, <2>1, UpdateSpecCommitsOrRefuses,
       UpdateStatusCommitsOrRefuses, RemoveCommitsOrRefuses
<1> QED
  BY <1>1, <1>4, <1>5 DEF Write

LEMMA NextKeepsInv == Inv /\ [Next]_vars => Inv'
<1> SUFFICES ASSUME Inv, [Next]_vars PROVE Inv'
  OBVIOUS
<1> USE DEF Inv
<1>0. store.rv \in Nat /\ Typed
  BY DEF WriteInv, Typed
<1>1. ASSUME NEW w \in Writer, Write(w) PROVE Inv'
  BY <1>1, WriteKeepsInv
<1>2. ASSUME NEW w \in Writer, Emit(w) PROVE Inv'
  BY <1>2, EmitKeepsWriteInv, EmitKeepsWatchInv
<1>3. CASE OtherKind
  <2>1. store'.rv \in Nat /\ store.rv <= store'.rv
    BY <1>0, <1>3 DEF OtherKind, Typed
  <2> QED
    BY <1>3, <2>1, OtherKindKeepsWriteInv, WriteKeepsWatchInv DEF OtherKind
<1>4. ASSUME NEW x \in Watcher, Subscribe(x) PROVE Inv'
  BY <1>4, SubscribeKeepsWatchInv, WatchersKeepWriteInv DEF Subscribe
<1>5. ASSUME NEW x \in Watcher, NEW n \in Name, ScanKey(x, n) PROVE Inv'
  BY <1>5, ScanKeyKeepsWatchInv, WatchersKeepWriteInv DEF ScanKey
<1>6. ASSUME NEW x \in Watcher, ListDone(x) PROVE Inv'
  <2>1. UNCHANGED <<store, writer, sent, committed, uids>>
    BY <1>6 DEF ListDone
  <2> QED
    BY <1>6, <2>1, ListDoneKeepsWatchInv, WatchersKeepWriteInv
<1>7. ASSUME NEW x \in Watcher, Recv(x) PROVE Inv'
  <2>1. UNCHANGED <<store, writer, sent, committed, uids>>
    BY <1>7 DEF Recv
  <2> QED
    BY <1>7, <2>1, RecvKeepsWatchInv, WatchersKeepWriteInv
<1>8. ASSUME NEW x \in Watcher, Lagged(x) \/ Disconnect(x) PROVE Inv'
  <2>1. /\ watcher' = [watcher EXCEPT ![x] = NoStream]
        /\ UNCHANGED <<store, writer, sent, committed, uids>>
    BY <1>8 DEF Lagged, Disconnect
  <2> QED
    BY <2>1, NoStreamKeepsWatchInv, WatchersKeepWriteInv
<1>9. CASE UNCHANGED vars
  <2>1. UNCHANGED <<store, writer, sent, committed, uids, watcher>>
    BY <1>9 DEF vars
  <2> QED
    BY <1>0, <2>1, WatchersKeepWriteInv, WriteKeepsWatchInv
<1> QED
  BY <1>1, <1>2, <1>3, <1>4, <1>5, <1>6, <1>7, <1>8, <1>9 DEF Next, Forward

(* The inductive invariant holds in every state that the handlers, the     *)
(* apply loop and the watch streams reach.                                 *)
THEOREM InvHolds == Spec => []Inv
BY InitEstablishesInv, NextKeepsInv, PTL DEF Spec

(* Type correctness: no receiver is ahead of the broadcast channel and no  *)
(* object ahead of the rv counter of bump_rv.                              *)
THEOREM TypeCorrect == Spec => []TypeOK
<1>1. Inv => TypeOK
  BY DEF Inv, WriteInv, WatchInv, Typed, RvsAreReached, StreamsAreBehind, TypeOK
<1> QED
  BY <1>1, InvHolds, PTL

(* No event reaches a client twice, neither in both phases of              *)
(* stream_events nor live.                                                 *)
THEOREM EventsArriveOnce == Spec => []NoDuplicateDelivery
<1>1. Inv => NoDuplicateDelivery
  <2> SUFFICES ASSUME Inv, NEW x \in Watcher, Streaming(x),
                      NEW i \in watcher[x].pos + 1 .. Len(sent),
                      NewerThanSnapshot(watcher[x], sent[i]),
                      sent[i].object.rv \in watcher[x].delivered
               PROVE  FALSE
    BY DEF NoDuplicateDelivery
  <2>1. watcher[x].pos \in Nat /\ watcher[x].snapshotRv \in Nat /\ Len(sent) \in Nat
    BY DEF Inv, WatchInv, WriteInv, Typed, StreamsAreBehind, Stream
  <2>2. i \in 1..Len(sent) /\ sent[i] \in committed /\ sent[i].object.rv \in Nat
    BY <2>1 DEF Inv, WriteInv, SentOnce, RvsAreReached
  <2>3. PICK j \in 1..watcher[x].pos : sent[j].object.rv = sent[i].object.rv
    BY <2>1, <2>2 DEF Inv, WatchInv, DeliveredWasReceived, NewerThanSnapshot
  <2>4. j \in 1..Len(sent) /\ j # i
    BY <2>1
  <2> QED
    BY <2>2, <2>3, <2>4 DEF Inv, WriteInv, SentOnce, EventsHaveTheirRv
<1> QED
  BY <1>1, InvHolds, PTL

(* An open stream skips no event newer than its snapshot, however the      *)
(* handlers overtake each other between transaction and emit and however   *)
(* far behind the receiver is.                                             *)
THEOREM NothingIsSkipped == Spec => []LiveStreamIsComplete
<1>1. Inv => LiveStreamIsComplete
  BY DEF Inv, WatchInv
<1> QED
  BY <1>1, InvHolds, PTL

(* A client that has received everything shows the current version of what *)
(* changed after its list, deletions included, where the events were       *)
(* emitted in the order of the writes.                                     *)
THEOREM ViewsAreCurrent == Spec => []ViewIsCurrent
<1>1. Inv => ViewIsCurrent
  <2> SUFFICES ASSUME Inv, NEW x \in Watcher, Quiet(x), NEW n \in Name,
                      NEW e \in LastChange(n), EmittedInOrder(n),
                      e.object.rv > watcher[x].snapshotRv
               PROVE  watcher[x].view[n] = CurrentRv(n)
    BY DEF ViewIsCurrent
  <2>1. Streaming(x) /\ watcher[x].pos = Len(sent) /\ \A w \in Writer : ~Emitting(w)
    BY DEF Quiet
  <2>2. e \in committed /\ e.name = n /\ e # NoEvent /\ e.object.rv \in Nat
    BY AbsentAssumption DEF LastChange, Inv, WriteInv, Typed, RvsAreReached, NoEvent
  <2>3. Len(sent) \in Nat /\ watcher[x].snapshotRv \in Nat
    BY DEF Inv, WatchInv, WriteInv, Typed, StreamsAreBehind, Stream
  <2>4. ~InFlight(e) /\ ~Buffered(x, e)
    BY <2>1, <2>2, <2>3 DEF InFlight, Emitting, Buffered
  <2>5. e.object.rv \in watcher[x].delivered
    BY <2>1, <2>2, <2>4 DEF Inv, WatchInv, LiveStreamIsComplete
  <2>6. PICK i \in 1..Len(sent) : sent[i].object.rv = e.object.rv
    BY <2>1, <2>2, <2>3, <2>5 DEF Inv, WatchInv, DeliveredWasReceived
  <2>7. sent[i] = e
    BY <2>2, <2>6 DEF Inv, WriteInv, SentOnce, EventsHaveTheirRv
  <2>8. ASSUME NEW j \in i + 1 .. Len(sent), sent[j].name = n
        PROVE  FALSE
    <3>1. j \in 1..Len(sent) /\ i < j /\ sent[j] \in committed
      BY <2>3 DEF Inv, WriteInv, SentOnce
    <3>2. sent[j].object.rv \in Nat
      BY <3>1 DEF Inv, WriteInv, RvsAreReached
    <3>3. e.object.rv < sent[j].object.rv
      BY <2>2, <2>7, <2>8, <3>1 DEF EmittedInOrder
    <3>4. sent[j].object.rv <= e.object.rv
      BY <2>8, <3>1 DEF LastChange
    <3> QED
      BY <2>2, <3>2, <3>3, <3>4
  <2>9. LastForwarded(x, i)
    BY <2>1, <2>2, <2>7, <2>8 DEF LastForwarded, NewerThanSnapshot
  <2>10. watcher[x].view[n] = ShownRv(e)
    BY <2>1, <2>2, <2>7, <2>9 DEF Inv, WatchInv, ViewIsLastForwarded
  <2> QED
    BY <2>10 DEF Inv, WriteInv, StoreIsLastChange
<1> QED
  BY <1>1, InvHolds, PTL

(* Optimistic concurrency: a write or a deletion hits exactly the version  *)
(* that its client has read, so no update is lost and the successor of a   *)
(* deleted object is not touched.                                          *)
THEOREM NoUpdateIsLost == Spec => UpdatesHitWhatWasRead
<1> DEFINE P == \A n \in Name :
          store.objs[n] # Absent /\ store'.objs[n] # store.objs[n] =>
              \E w \in Writer : writer[w].read = [name |-> n, object |-> store.objs[n]]
<1>1. ASSUME Inv, [Next]_vars
      PROVE  [P]_store
  <2> SUFFICES ASSUME NEW n \in Name, store.objs[n] # Absent,
                      store'.objs[n] # store.objs[n]
               PROVE  \E w \in Writer : writer[w].read = [name |-> n, object |-> store.objs[n]]
    OBVIOUS
  <2>0. Typed
    BY <1>1 DEF Inv, WriteInv
  <2>1. ASSUME NEW w \in Writer, NEW e \in Event, Commits(w, e)
        PROVE  writer[w].read = [name |-> n, object |-> store.objs[n]]
    <3>1. e.name = n
      <4>1. e.name # n => store'.objs[n] = store.objs[n]
        BY <2>0, <2>1 DEF Commits, Typed, Event
      <4> QED
        BY <4>1
    <3>2. /\ writer[w].read # Nothing /\ writer[w].read.name = n
          /\ writer[w].read.object.rv = store.objs[n].rv
      BY <2>1, <3>1 DEF Commits
    <3>3. writer[w].read.object = store.objs[n]
      BY <1>1, <3>2 DEF Inv, WriteInv, ReadsAreVersions
    <3>4. writer[w].read \in [name : Name, object : Object]
      BY <2>0, <3>2 DEF Typed, Reading
    <3> QED
      BY <3>2, <3>3, <3>4
  <2>2. ASSUME NEW w \in Writer PROVE ~Refuses(w)
    BY DEF Refuses
  <2>3. ASSUME NEW w \in Writer, Write(w) PROVE \E e \in Event : Commits(w, e)
    <3>1. \A m \in Name : ~Read(w, m)
      BY DEF Read
    <3> QED
      BY <2>0, <2>2, <2>3, <3>1, CreateCommitsOrRefuses, UpdateSpecCommitsOrRefuses,
         UpdateStatusCommitsOrRefuses, RemoveCommitsOrRefuses DEF Write
  <2>4. ~OtherKind
    BY <2>0 DEF OtherKind, Typed
  <2>5. \A w \in Writer : ~Emit(w)
    BY DEF Emit
  <2>6. ASSUME NEW x \in Watcher
        PROVE  /\ ~Subscribe(x) /\ ~ListDone(x) /\ ~Forward(x) /\ ~Disconnect(x)
               /\ \A m \in Name : ~ScanKey(x, m)
    BY DEF Subscribe, ListDone, Forward, Recv, Lagged, Disconnect, ScanKey
  <2>7. ~UNCHANGED vars
    BY DEF vars
  <2> QED
    BY <1>1, <2>1, <2>3, <2>4, <2>5, <2>6, <2>7 DEF Next
<1> QED
  BY <1>1, InvHolds, PTL DEF Spec, UpdatesHitWhatWasRead
=============================================================================
