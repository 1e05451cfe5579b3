------------------------------- MODULE Watch -------------------------------
(***************************************************************************)
(* Writers and watchers of one ResourceStore: storage.rs with watch.rs.    *)
(*                                                                         *)
(* A write is two steps of its handler: the transaction, and the emit on   *)
(* the broadcast channel after it.  Between them other handlers run.  In   *)
(* Raft mode the apply loop is the only writer.                            *)
(*                                                                         *)
(* stream_events subscribes, lists and forwards.  The list is not atomic:  *)
(* the scan reads one key after the other and current_rv is read last.     *)
(* The channel keeps the last Capacity events; a receiver that has fallen  *)
(* further behind gets Lagged and its stream ends.  The channel and the    *)
(* clients are external.                                                   *)
(***************************************************************************)
EXTENDS Store, Sequences

CONSTANTS
    Writer,      \* concurrent request handlers, or the one apply loop
    Watcher,     \* open watch requests
    FromRvs,     \* resume points the watching clients ask for
    Capacity,    \* WATCH_CHANNEL_CAPACITY
    MaxRv        \* bound: transactions that commit in one behaviour

ASSUME WatchAssumption == FromRvs \subseteq Nat /\ {Capacity, MaxRv} \subseteq Nat

VARIABLES
    store,      \* the sled tree: objects and rv_counter
    writer,     \* [Writer -> what its client has read, and the event to emit]
    sent,       \* the events broadcast so far, in order
    watcher,    \* [Watcher -> stream_events and what its client has seen]
    committed,  \* history: the events of the transactions that committed
    uids        \* identities given out by stamp_for_create

vars == <<store, writer, sent, watcher, committed, uids>>

-----------------------------------------------------------------------------
(* Writers *)

NoEvent == Absent
Nothing == [name |-> Absent, object |-> Absent]

Emitting(w) == writer[w].event # NoEvent

Step(w, read, event) == writer' = [writer EXCEPT ![w] = [read |-> read, event |-> event]]

(* The client of a handler reads an object, to write it back later.        *)
Read(w, n) ==
    /\ ~Emitting(w)
    /\ store.objs[n] # Absent
    /\ Step(w, [name |-> n, object |-> store.objs[n]], NoEvent)
    /\ UNCHANGED <<store, sent, watcher, committed, uids>>

(* A transaction and its outcome; what was read is used up either way.     *)
Transact(w, outcome) ==
    /\ ~Emitting(w)
    /\ store.rv < MaxRv
    /\ store' = outcome.store
    /\ IF outcome.result = "Ok"
       THEN /\ committed' = committed \cup {outcome.event}
            /\ Step(w, Nothing, outcome.event)
       ELSE /\ UNCHANGED committed
            /\ Step(w, Nothing, NoEvent)
    /\ UNCHANGED <<sent, watcher>>

(* create: stamp_for_create gives a new uid, the client's status is gone.  *)
(* (The uid of a refused object is never seen, so it is not counted.)      *)
Create(w, n) ==
    \E v \in Value :
        /\ Transact(w, CreatePrestamped(store, n,
              [uid |-> uids + 1, spec |-> v, status |-> NoValue, rv |-> 0]))
        /\ uids' = IF store.objs[n] = Absent THEN uids + 1 ELSE uids

UpdateSpec(w) ==
    /\ writer[w].read # Nothing
    /\ \E v \in Value :
          Transact(w, ReplaceSpec(store, writer[w].read.name,
                                  [writer[w].read.object EXCEPT !.spec = v]))
    /\ UNCHANGED uids

UpdateStatus(w) ==
    /\ writer[w].read # Nothing
    /\ \E v \in Value :
          Transact(w, ReplaceStatus(store, writer[w].read.name,
                                    writer[w].read.object.rv, v))
    /\ UNCHANGED uids

Remove(w) ==
    /\ writer[w].read # Nothing
    /\ Transact(w, Delete(store, writer[w].read.name, writer[w].read.object.rv))
    /\ UNCHANGED uids

(* emit *)
Emit(w) ==
    /\ Emitting(w)
    /\ sent' = Append(sent, writer[w].event)
    /\ Step(w, writer[w].read, NoEvent)
    /\ UNCHANGED <<store, watcher, committed, uids>>

(* A write to another kind: same counter, another channel.                 *)
OtherKind ==
    /\ store.rv < MaxRv
    /\ store' = [store EXCEPT !.rv = store.rv + 1]
    /\ UNCHANGED <<writer, sent, watcher, committed, uids>>

-----------------------------------------------------------------------------
(* Watchers.  view is the cache a client builds from the stream: the rv of *)
(* the last event about each object, 0 for none or deleted.                *)

NoStream ==
    [pc |-> "off", fromRv |-> 0, pos |-> 0, left |-> {}, snapshot |-> {},
     snapshotRv |-> 0, delivered |-> {}, view |-> [n \in Name |-> 0]]

Streaming(x) == watcher[x].pc = "live"

(* subscribe *)
Subscribe(x) ==
    /\ watcher[x].pc = "off"
    /\ \E rv \in FromRvs :
          watcher' = [watcher EXCEPT ![x] =
              [NoStream EXCEPT !.pc = "scan", !.fromRv = rv, !.pos = Len(sent),
                               !.left = Name]]
    /\ UNCHANGED <<store, writer, sent, committed, uids>>

(* scan_prefix reaches the next key.                                       *)
ScanKey(x, n) ==
    /\ watcher[x].pc = "scan"
    /\ n \in watcher[x].left
    /\ watcher' = [watcher EXCEPT
          ![x].left = @ \ {n},
          ![x].snapshot = IF store.objs[n] = Absent THEN @
                          ELSE @ \cup {[name |-> n, rv |-> store.objs[n].rv]}]
    /\ UNCHANGED <<store, writer, sent, committed, uids>>

(* current_rv, then the catch-up events.                                   *)
CatchUp(s) == {o \in s.snapshot : o.rv > s.fromRv}

ListDone(x) ==
    LET s    == watcher[x]
        seen == CatchUp(s)
    IN  /\ s.pc = "scan"
        /\ s.left = {}
        /\ watcher' = [watcher EXCEPT ![x] =
              [s EXCEPT !.pc = "live", !.snapshotRv = store.rv,
                        !.delivered = {o.rv : o \in seen},
                        !.view = [n \in Name |->
                                     IF \E o \in seen : o.name = n
                                     THEN (CHOOSE o \in seen : o.name = n).rv
                                     ELSE 0]]]
        /\ UNCHANGED <<store, writer, sent, committed, uids>>

(* The live filter.                                                        *)
NewerOrSame(s, e) == e.object.rv >= s.snapshotRv
NewerThanNext(s, e) == e.object.rv > s.snapshotRv + 1
NewerThanSnapshot(s, e) == e.object.rv > s.snapshotRv

Lagging(s) == Len(sent) - s.pos > Capacity

(* recv returns the next event; it is forwarded or filtered out.           *)
Recv(x) ==
    LET s == watcher[x]
        e == sent[s.pos + 1]
    IN  /\ Streaming(x)
        /\ s.pos < Len(sent)
        /\ ~Lagging(s)
        /\ watcher' = [watcher EXCEPT ![x] =
              IF NewerThanSnapshot(s, e)
              THEN [s EXCEPT !.pos = @ + 1,
                             !.delivered = @ \cup {e.object.rv},
                             !.view[e.name] = IF e.type = "Deleted" THEN 0 ELSE e.object.rv]
              ELSE [s EXCEPT !.pos = @ + 1]]
        /\ UNCHANGED <<store, writer, sent, committed, uids>>

(* recv returns Lagged: the stream ends with an error.                     *)
LaggedGoesOn(x) ==
    /\ Streaming(x)
    /\ Lagging(watcher[x])
    /\ watcher' = [watcher EXCEPT ![x].pos = Len(sent) - Capacity]
    /\ UNCHANGED <<store, writer, sent, committed, uids>>
Lagged(x) ==
    /\ Streaming(x)
    /\ Lagging(watcher[x])
    /\ watcher' = [watcher EXCEPT ![x] = NoStream]
    /\ UNCHANGED <<store, writer, sent, committed, uids>>

(* The connection breaks; the client may open another stream.              *)
Disconnect(x) ==
    /\ watcher[x].pc # "off"
    /\ watcher' = [watcher EXCEPT ![x] = NoStream]
    /\ UNCHANGED <<store, writer, sent, committed, uids>>

-----------------------------------------------------------------------------
Init ==
    /\ store = EmptyStore
    /\ writer = [w \in Writer |-> [read |-> Nothing, event |-> NoEvent]]
    /\ sent = << >>
    /\ watcher = [x \in Watcher |-> NoStream]
    /\ committed = {}
    /\ uids = 0

Write(w) ==
    \/ \E n \in Name : Read(w, n) \/ Create(w, n)
    \/ UpdateSpec(w)
    \/ UpdateStatus(w)
    \/ Remove(w)

Forward(x) == Recv(x) \/ Lagged(x)

Next ==
    \/ \E w \in Writer : Write(w) \/ Emit(w)
    \/ OtherKind
    \/ \E x \in Watcher :
          \/ Subscribe(x)
          \/ \E n \in Name : ScanKey(x, n)
          \/ ListDone(x)
          \/ Forward(x)
          \/ Disconnect(x)

Spec == Init /\ [][Next]_vars

(* A handler that has committed goes on to emit, and an open stream is     *)
(* polled.  Nothing else has to happen.                                    *)
FairSpec ==
    /\ Spec
    /\ \A w \in Writer : WF_vars(Emit(w))
    /\ \A x \in Watcher : WF_vars(Forward(x))

-----------------------------------------------------------------------------
(* Properties *)

Reading == [name : Name, object : Object] \cup {Nothing}
Stream ==
    [pc : {"off", "scan", "live"}, fromRv : Nat, pos : Nat, left : SUBSET Name,
     snapshot : SUBSET [name : Name, rv : Nat], snapshotRv : Nat,
     delivered : SUBSET Nat, view : [Name -> Nat]]

(* Type invariant; a receiver is never ahead of the channel and no object  *)
(* is ahead of the counter.                                                *)
TypeOK ==
    /\ store.rv \in Nat
    /\ store.objs \in [Name -> Object \cup {Absent}]
    /\ \A n \in Name : store.objs[n] # Absent => store.objs[n].rv \in 1..store.rv
    /\ writer \in [Writer -> [read : Reading, event : Event \cup {NoEvent}]]
    /\ sent \in Seq(Event)
    /\ watcher \in [Watcher -> Stream]
    /\ \A x \in Watcher : watcher[x].pos <= Len(sent)
    /\ committed \subseteq Event
    /\ uids \in Nat

(* Optimistic concurrency: whoever replaces or deletes an object has read  *)
(* exactly the version that it replaces.  No update is lost, and a client  *)
(* that read an object which was deleted and created again meanwhile does  *)
(* not touch its successor (check_rv with the one global counter).         *)
UpdatesHitWhatWasRead ==
    [][\A n \in Name :
          store.objs[n] # Absent /\ store'.objs[n] # store.objs[n] =>
              \E w \in Writer : writer[w].read = [name |-> n, object |-> store.objs[n]]]_store

(* "An object present in BOTH phases isn't emitted twice" (watch.rs): no   *)
(* event that is still to be forwarded has been delivered already, neither *)
(* by the catch-up nor live.                                               *)
NoDuplicateDelivery ==
    \A x \in Watcher : Streaming(x) =>
        \A i \in watcher[x].pos + 1 .. Len(sent) :
            NewerThanSnapshot(watcher[x], sent[i]) =>
                sent[i].object.rv \notin watcher[x].delivered

(* Where a committed event newer than the snapshot can be.                 *)
InFlight(e) == \E w \in Writer : writer[w].event = e
Buffered(x, e) == \E i \in watcher[x].pos + 1 .. Len(sent) : sent[i] = e

(* An open stream skips nothing: every event newer than its snapshot is    *)
(* delivered, or buffered, or about to be emitted, however the handlers    *)
(* overtake each other and however far the receiver falls behind ("we      *)
(* can't silently skip").                                                  *)
LiveStreamIsComplete ==
    \A x \in Watcher : Streaming(x) =>
        \A e \in committed :
            e.object.rv > watcher[x].snapshotRv =>
                e.object.rv \in watcher[x].delivered \/ Buffered(x, e) \/ InFlight(e)

(* Everything written has been emitted and everything emitted received.    *)
Quiet(x) ==
    /\ Streaming(x)
    /\ watcher[x].pos = Len(sent)
    /\ \A w \in Writer : ~Emitting(w)

LastChange(n) == {e \in committed : e.name = n /\
                     \A f \in committed : f.name = n => f.object.rv <= e.object.rv}

CurrentRv(n) == IF store.objs[n] = Absent THEN 0 ELSE store.objs[n].rv

(* The events about n went out in the order of the writes, as they do when *)
(* the apply loop is the only writer.  Concurrent handlers can overtake    *)
(* each other between transaction and emit.                                *)
EmittedInOrder(n) ==
    \A i, j \in 1..Len(sent) :
        i < j /\ sent[i].name = n /\ sent[j].name = n =>
            sent[i].object.rv < sent[j].object.rv

(* Where events went out in order, a client that applies them as they come *)
(* ends with the current version of whatever changed after its snapshot,   *)
(* deletions included.                                                     *)
ViewIsCurrent ==
    \A x \in Watcher : Quiet(x) =>
        \A n \in Name : \A e \in LastChange(n) :
            EmittedInOrder(n) /\ e.object.rv > watcher[x].snapshotRv =>
                watcher[x].view[n] = CurrentRv(n)

(* Every event newer than the snapshot reaches the client of an open       *)
(* stream, or the stream ends and the client knows that it has to re-list. *)
EventsArrive ==
    \A x \in Watcher : \A r \in 1..MaxRv :
        (/\ Streaming(x) /\ watcher[x].snapshotRv < r
         /\ \E e \in committed : e.object.rv = r)
        ~> (r \in watcher[x].delivered \/ ~Streaming(x))

(* What watch.rs says of subscribing before listing: "any write landing in *)
(* between is then buffered in the broadcast channel and replayed live     *)
(* (deduped by the rv filter), so nothing slips through the gap".  Once    *)
(* things are quiet, a client that asked for everything has been told of   *)
(* every object there is.                                                  *)
NothingSlipsThrough ==
    \A x \in Watcher : Quiet(x) /\ watcher[x].fromRv = 0 =>
        \A n \in Name : store.objs[n] # Absent =>
            store.objs[n].rv \in watcher[x].delivered
=============================================================================
