-------------------------- MODULE WorkQueueProofs --------------------------
(***************************************************************************)
(* The safety properties of WorkQueue, for any set of keys, any number of  *)
(* workers and any bounds.                                                 *)
(*                                                                         *)
(* The argument.  The critical sections preserve the shape of the queue    *)
(* (QueueOK); done needs for this that its key is being processed, which   *)
(* OneWorkerPerKey provides.  NoLostWakeup is inductive by itself: a       *)
(* worker goes to sleep only after it has seen the queue empty, and every  *)
(* push owes a notification.                                               *)
(***************************************************************************)
EXTENDS WorkQueue, TLAPS

Queues == [queue : Seq(Key), dirty : SUBSET Key, processing : SUBSET Key]

QueueOK(q) ==
    /\ q \in Queues
    /\ NoDuplicates(q.queue)
    /\ Range(q.queue) = q.dirty \ q.processing

-----------------------------------------------------------------------------
(* Sequences without duplicates *)

LEMMA AppendFresh ==
    ASSUME NEW s \in Seq(Key), NEW k \in Key, NoDuplicates(s), k \notin Range(s)
    PROVE  /\ Append(s, k) \in Seq(Key)
           /\ NoDuplicates(Append(s, k))
           /\ Range(Append(s, k)) = Range(s) \cup {k}
           /\ Len(Append(s, k)) > Len(s)
<1> DEFINE a == Append(s, k)
<1>1. /\ a \in Seq(Key) /\ Len(a) = Len(s) + 1 /\ Len(s) \in Nat
      /\ DOMAIN a = 1..Len(s) + 1 /\ DOMAIN s = 1..Len(s)
      /\ a[Len(s) + 1] = k
      /\ \A i \in 1..Len(s) : a[i] = s[i]
  OBVIOUS
<1> HIDE DEF a
<1>2. \A i \in 1..Len(s) : s[i] # k
  BY <1>1 DEF Range
<1>3. NoDuplicates(a)
  BY <1>1, <1>2 DEF NoDuplicates
<1>4. Range(a) = Range(s) \cup {k}
  <2>1. Range(a) \subseteq Range(s) \cup {k}
    BY <1>1 DEF Range
  <2>2. Range(s) \subseteq Range(a)
    <3> SUFFICES ASSUME NEW i \in 1..Len(s) PROVE s[i] \in Range(a)
      BY <1>1 DEF Range
    <3>1. i \in DOMAIN a /\ a[i] = s[i]
      BY <1>1
    <3> QED
      BY <3>1 DEF Range
  <2>3. k \in Range(a)
    <3>1. Len(s) + 1 \in DOMAIN a
      BY <1>1
    <3> QED
      BY <1>1, <3>1 DEF Range
  <2> QED
    BY <2>1, <2>2, <2>3
<1> QED
  BY <1>1, <1>3, <1>4 DEF a

LEMMA TailFresh ==
    ASSUME NEW s \in Seq(Key), s # << >>, NoDuplicates(s)
    PROVE  /\ Tail(s) \in Seq(Key) /\ Head(s) \in Key
           /\ NoDuplicates(Tail(s))
           /\ Head(s) \in Range(s)
           /\ Range(Tail(s)) = Range(s) \ {Head(s)}
<1> DEFINE t == Tail(s)
<1>1. /\ t \in Seq(Key) /\ Len(s) \in Nat /\ Len(s) >= 1 /\ Len(t) = Len(s) - 1
      /\ DOMAIN t = 1..Len(s) - 1 /\ DOMAIN s = 1..Len(s)
      /\ \A i \in 1..Len(s) - 1 : t[i] = s[i + 1]
      /\ Head(s) = s[1] /\ Head(s) \in Key
  OBVIOUS
<1> HIDE DEF t
<1>2. NoDuplicates(t)
  <2> SUFFICES ASSUME NEW i \in 1..Len(s) - 1, NEW j \in 1..Len(s) - 1, t[i] = t[j]
               PROVE  i = j
    BY <1>1 DEF NoDuplicates
  <2>1. i + 1 \in DOMAIN s /\ j + 1 \in DOMAIN s /\ s[i + 1] = s[j + 1]
    BY <1>1
  <2>2. i + 1 = j + 1
    BY <2>1 DEF NoDuplicates
  <2> QED
    BY <2>2
<1>3. Head(s) \in Range(s)
  BY <1>1 DEF Range
<1>4. ASSUME NEW i \in 1..Len(s) - 1 PROVE t[i] \in Range(s) /\ t[i] # Head(s)
  <2>1. i + 1 \in DOMAIN s /\ 1 \in DOMAIN s /\ t[i] = s[i + 1] /\ i + 1 # 1
    BY <1>1
  <2>2. s[i + 1] # s[1]
    BY <2>1 DEF NoDuplicates
  <2> QED
    BY <1>1, <2>1, <2>2 DEF Range
<1>5. ASSUME NEW j \in 1..Len(s), s[j] # Head(s) PROVE s[j] \in Range(t)
  <2>1. j # 1 /\ j - 1 \in DOMAIN t /\ (j - 1) + 1 = j
    BY <1>1, <1>5
  <2>2. t[j - 1] = s[j]
    BY <1>1, <2>1
  <2> QED
    BY <2>1, <2>2 DEF Range
<1>6. Range(t) = Range(s) \ {Head(s)}
  <2>1. Range(t) \subseteq Range(s) \ {Head(s)}
    BY <1>1, <1>4 DEF Range
  <2>2. Range(s) \ {Head(s)} \subseteq Range(t)
    <3> SUFFICES ASSUME NEW y \in Range(s), y # Head(s) PROVE y \in Range(t)
      OBVIOUS
    <3>1. PICK j \in 1..Len(s) : y = s[j]
      BY <1>1 DEF Range
    <3> QED
      BY <1>5, <3>1
  <2> QED
    BY <2>1, <2>2
<1> QED
  BY <1>1, <1>2, <1>3, <1>6 DEF t

-----------------------------------------------------------------------------
(* The critical sections *)

LEMMA AddedOK ==
    ASSUME NEW q, QueueOK(q), NEW k \in Key
    PROVE  /\ QueueOK(Added(q, k))
           /\ Added(q, k).processing = q.processing
           /\ Added(q, k).queue # << >> /\ q.queue = << >> => Pushes(q, Added(q, k))
<1>1. CASE k \in q.dirty
  BY <1>1 DEF Added
<1>2. CASE k \notin q.dirty /\ k \in q.processing
  <2>1. Added(q, k) = [queue |-> q.queue, dirty |-> q.dirty \cup {k}, processing |-> q.processing]
    BY <1>2 DEF Added, QueueOK, Queues
  <2> QED
    BY <1>2, <2>1 DEF QueueOK, Queues
<1>3. CASE k \notin q.dirty /\ k \notin q.processing
  <2>1. Added(q, k) = [queue |-> Append(q.queue, k), dirty |-> q.dirty \cup {k},
                       processing |-> q.processing]
    BY <1>3 DEF Added, QueueOK, Queues
  <2>2. q.queue \in Seq(Key) /\ k \notin Range(q.queue) /\ NoDuplicates(q.queue)
    BY <1>3 DEF QueueOK, Queues
  <2>3. /\ Append(q.queue, k) \in Seq(Key)
        /\ NoDuplicates(Append(q.queue, k))
        /\ Range(Append(q.queue, k)) = Range(q.queue) \cup {k}
        /\ Len(Append(q.queue, k)) > Len(q.queue)
    BY <2>2, AppendFresh
  <2>4. Range(Append(q.queue, k)) = (q.dirty \cup {k}) \ q.processing
    BY <1>3, <2>3 DEF QueueOK
  <2> QED
    BY <2>1, <2>3, <2>4 DEF QueueOK, Queues, Pushes
<1> QED
  BY <1>1, <1>2, <1>3

LEMMA TakenOK ==
    ASSUME NEW q, QueueOK(q), q.queue # << >>
    PROVE  /\ QueueOK(Taken(q))
           /\ Head(q.queue) \in Key /\ Head(q.queue) \notin q.processing
           /\ Taken(q).processing = q.processing \cup {Head(q.queue)}
<1>1. /\ Tail(q.queue) \in Seq(Key) /\ Head(q.queue) \in Key
      /\ NoDuplicates(Tail(q.queue))
      /\ Head(q.queue) \in Range(q.queue)
      /\ Range(Tail(q.queue)) = Range(q.queue) \ {Head(q.queue)}
  BY TailFresh DEF QueueOK, Queues
<1>2. Range(Tail(q.queue)) = (q.dirty \ {Head(q.queue)}) \ (q.processing \cup {Head(q.queue)})
  BY <1>1 DEF QueueOK
<1> QED
  BY <1>1, <1>2 DEF QueueOK, Queues, Taken

LEMMA FinishedOK ==
    ASSUME NEW q, QueueOK(q), NEW k \in q.processing
    PROVE  /\ QueueOK(Finished(q, k))
           /\ Finished(q, k).processing = q.processing \ {k}
<1>0. k \in Key
  BY DEF QueueOK, Queues
<1>1. CASE k \notin q.dirty
  <2>1. Finished(q, k) = [queue |-> q.queue, dirty |-> q.dirty, processing |-> q.processing \ {k}]
    BY <1>1 DEF Finished, QueueOK, Queues
  <2> QED
    BY <1>1, <2>1 DEF QueueOK, Queues
<1>2. CASE k \in q.dirty
  <2>1. Finished(q, k) = [queue |-> Append(q.queue, k), dirty |-> q.dirty,
                          processing |-> q.processing \ {k}]
    BY <1>2 DEF Finished, QueueOK, Queues
  <2>2. q.queue \in Seq(Key) /\ k \notin Range(q.queue) /\ NoDuplicates(q.queue)
    BY DEF QueueOK, Queues
  <2>3. /\ Append(q.queue, k) \in Seq(Key)
        /\ NoDuplicates(Append(q.queue, k))
        /\ Range(Append(q.queue, k)) = Range(q.queue) \cup {k}
    BY <1>0, <2>2, AppendFresh
  <2>4. Range(Append(q.queue, k)) = q.dirty \ (q.processing \ {k})
    BY <1>2, <2>3 DEF QueueOK
  <2> QED
    BY <2>1, <2>3, <2>4 DEF QueueOK, Queues
<1> QED
  BY <1>1, <1>2

-----------------------------------------------------------------------------
(* Updates of a worker *)

LEMMA SetPc ==
    ASSUME NEW f \in [Worker -> WorkerState], NEW w \in Worker,
           NEW p \in {"get", "await", "wait", "work", "notify", "retry"}
    PROVE  /\ [f EXCEPT ![w].pc = p] \in [Worker -> WorkerState]
           /\ [f EXCEPT ![w].pc = p][w].pc = p
           /\ [f EXCEPT ![w].pc = p][w].key = f[w].key
           /\ \A v \in Worker : v # w => [f EXCEPT ![w].pc = p][v] = f[v]
  BY DEF WorkerState

LEMMA SetFailed ==
    ASSUME NEW f \in [Worker -> WorkerState], NEW w \in Worker, NEW b \in BOOLEAN
    PROVE  /\ [f EXCEPT ![w].failed = b] \in [Worker -> WorkerState]
           /\ [f EXCEPT ![w].failed = b][w].key = f[w].key
           /\ \A v \in Worker : v # w => [f EXCEPT ![w].failed = b][v] = f[v]
  BY DEF WorkerState

-----------------------------------------------------------------------------
(* The inductive invariant *)

Inv == TypeOK /\ QueueIsDirtyIdle /\ OneWorkerPerKey /\ NoLostWakeup

LEMMA InnerOK == TypeOK /\ QueueIsDirtyIdle <=> QueueOK(inner) /\ TypeOK
  BY DEF TypeOK, QueueIsDirtyIdle, QueueOK, Queues

LEMMA InitInv == Init => Inv
<1> SUFFICES ASSUME Init PROVE Inv
  OBVIOUS
<1>1. TypeOK
  <2>1. EmptyQueue \in Queues
    BY DEF EmptyQueue, Queues
  <2>2. /\ permit \in BOOLEAN /\ owed \in Nat
        /\ failures \in [Worker -> [Key -> Nat]]
        /\ timers \in [Key -> Nat]
    BY DEF Init
  <2>3. \A w \in Worker : worker[w] = [pc |-> "get", key |-> NoKey, failed |-> FALSE]
    BY DEF Init
  <2>4. worker \in [Worker -> WorkerState]
    BY DEF Init, WorkerState
  <2> QED
    BY <2>1, <2>2, <2>3, <2>4 DEF Init, TypeOK, Queues
<1>2. QueueIsDirtyIdle
  BY DEF Init, QueueIsDirtyIdle, EmptyQueue, NoDuplicates, Range
<1>3. OneWorkerPerKey
  BY DEF Init, OneWorkerPerKey, EmptyQueue, At
<1>4. NoLostWakeup
  BY DEF Init, NoLostWakeup, EmptyQueue
<1> QED
  BY <1>1, <1>2, <1>3, <1>4 DEF Inv

(* An add.                                                                 *)
LEMMA EnqueueInv ==
    ASSUME Inv, NEW k \in Key, Enqueue(k), timers' \in [Key -> Nat]
    PROVE  Inv'
<1>1. QueueOK(inner)
  BY InnerOK DEF Inv
<1>2. /\ QueueOK(inner')
      /\ inner'.processing = inner.processing
      /\ inner'.queue # << >> /\ inner.queue = << >> => Pushes(inner, inner')
  BY <1>1, AddedOK DEF Enqueue
<1>3. owed' \in Nat /\ owed' >= owed /\ (Pushes(inner, inner') => owed' > 0)
  BY DEF Enqueue, Inv, TypeOK
<1>4. permit' = permit /\ worker' = worker /\ failures' = failures
  BY DEF Enqueue
<1>5. TypeOK' /\ QueueIsDirtyIdle'
  BY <1>2, <1>3, <1>4 DEF Inv, TypeOK, QueueIsDirtyIdle, QueueOK, Queues
<1>6. OneWorkerPerKey'
  BY <1>2, <1>4 DEF Inv, OneWorkerPerKey, At
<1>7. NoLostWakeup'
  BY <1>2, <1>3, <1>4 DEF Inv, TypeOK, NoLostWakeup, Waiting, Idle
<1> QED
  BY <1>5, <1>6, <1>7 DEF Inv

(* notify_one: ws are the workers it finds, none of them idle that was not *)
(* idle before.                                                            *)
LEMMA NotifyInv ==
    ASSUME Inv, NEW ws, NotifyOne(ws), inner' = inner, owed' \in Nat,
           failures' = failures, timers' = timers,
           ws \in [Worker -> WorkerState],
           \A w \in Worker : /\ ws[w].key = worker[w].key
                             /\ ws[w].pc # worker[w].pc =>
                                   worker[w].pc = "notify" /\ ws[w].pc \in {"get", "retry"}
    PROVE  Inv'
<1>1. CASE Waiting # {}
  <2>1. PICK v \in Waiting : worker' = [ws EXCEPT ![v].pc = "get"]
    BY <1>1 DEF NotifyOne
  <2>2. permit' = permit
    BY <1>1 DEF NotifyOne
  <2>3. v \in Worker /\ worker[v].pc = "wait" /\ ws[v].pc = "wait"
    BY DEF Waiting
  <2>4. /\ worker' \in [Worker -> WorkerState]
        /\ \A w \in Worker : worker'[w].key = worker[w].key
        /\ worker'[v].pc = "get"
        /\ \A w \in Worker : w # v => worker'[w].pc = ws[w].pc
    BY <2>1, <2>3 DEF WorkerState
  <2>5. TypeOK'
    BY <2>2, <2>3, <2>4 DEF Inv, TypeOK
  <2>6. \A w \in Worker : worker'[w].pc = "work" <=> worker[w].pc = "work"
    BY <2>3, <2>4
  <2>7. OneWorkerPerKey'
    BY <2>4, <2>6 DEF Inv, OneWorkerPerKey, At
  <2>8. NoLostWakeup'
    BY <2>2, <2>3, <2>4, <1>1 DEF Inv, NoLostWakeup, Waiting, Idle
  <2> QED
    BY <2>5, <2>7, <2>8 DEF Inv, QueueIsDirtyIdle
<1>2. CASE Waiting = {}
  <2>1. permit' = TRUE /\ worker' = ws
    BY <1>2 DEF NotifyOne
  <2>2. TypeOK'
    BY <2>1 DEF Inv, TypeOK
  <2>3. \A w \in Worker : worker'[w].pc = "work" <=> worker[w].pc = "work"
    BY <2>1
  <2>4. OneWorkerPerKey'
    BY <2>1, <2>3 DEF Inv, OneWorkerPerKey, At
  <2>5. NoLostWakeup'
    BY <1>2, <2>1 DEF NoLostWakeup, Waiting, Idle
  <2> QED
    BY <2>2, <2>4, <2>5 DEF Inv, QueueIsDirtyIdle
<1> QED
  BY <1>1, <1>2

(* A step of a worker that leaves the queue alone and takes it to a state  *)
(* in which it does not reconcile.                                         *)
LEMMA MoveInv ==
    ASSUME Inv, NEW w \in Worker, NEW pc \in {"get", "await", "wait"}, Goto(w, pc),
           worker[w].pc # "work",
           inner' = inner, owed' = owed, failures' = failures,
           timers' \in [Key -> Nat], permit' \in BOOLEAN,
           \/ pc = "get" /\ permit' \in {permit, FALSE}
           \/ pc = "await" /\ inner.queue = << >> /\ permit' = permit
           \/ pc = "wait" /\ worker[w].pc = "await" /\ ~permit /\ ~permit'
    PROVE  Inv'
<1>1. /\ worker' \in [Worker -> WorkerState]
      /\ worker'[w].pc = pc /\ worker'[w].key = worker[w].key
      /\ \A v \in Worker : v # w => worker'[v] = worker[v]
  BY DEF Goto, Inv, TypeOK, WorkerState
<1>2. TypeOK'
  BY <1>1 DEF Inv, TypeOK
<1>3. \A v \in Worker : /\ worker'[v].pc = "work" <=> worker[v].pc = "work"
                        /\ worker'[v].key = worker[v].key
  BY <1>1
<1>4. OneWorkerPerKey'
  BY <1>3 DEF Inv, OneWorkerPerKey, At
<1>5. NoLostWakeup'
  BY <1>1 DEF Inv, TypeOK, NoLostWakeup, Waiting, Idle
<1> QED
  BY <1>2, <1>4, <1>5 DEF Inv, QueueIsDirtyIdle

LEMMA GetInv ==
    ASSUME Inv, NEW w \in Worker, Get(w)
    PROVE  Inv'
<1> DEFINE k == Head(inner.queue)
<1>1. QueueOK(inner) /\ inner.queue # << >> /\ worker[w].pc = "get"
  BY InnerOK DEF Inv, Get, At
<1>2. /\ QueueOK(inner') /\ k \in Key /\ k \notin inner.processing
      /\ inner'.processing = inner.processing \cup {k}
  BY <1>1, TakenOK DEF Get
<1>3. /\ worker'[w] = [pc |-> "work", key |-> k, failed |-> FALSE]
      /\ \A v \in Worker : v # w => worker'[v] = worker[v]
      /\ worker' \in [Worker -> WorkerState]
  BY <1>2 DEF Get, Inv, TypeOK, WorkerState
<1>4. permit' = permit /\ owed' = owed /\ failures' = failures /\ timers' = timers
  BY DEF Get
<1> HIDE DEF k
<1>5. TypeOK' /\ QueueIsDirtyIdle'
  <2>1. inner' \in Queues /\ QueueIsDirtyIdle'
    BY <1>2 DEF QueueIsDirtyIdle, QueueOK
  <2>2. \A v \in Worker : worker'[v].pc \in {"work", "notify", "retry"} => worker'[v].key \in Key
    <3> SUFFICES ASSUME NEW v \in Worker,
                        worker'[v].pc \in {"work", "notify", "retry"}
                 PROVE  worker'[v].key \in Key
      OBVIOUS
    <3>1. CASE v = w
      BY <1>2, <1>3, <3>1
    <3>2. CASE v # w
      BY <1>3, <3>2 DEF Inv, TypeOK
    <3> QED
      BY <3>1, <3>2
  <2> QED
    BY <1>3, <1>4, <2>1, <2>2 DEF Inv, TypeOK, Queues
<1>6. \A v \in Worker : worker[v].pc = "work" => worker[v].key # k
  BY <1>2 DEF Inv, OneWorkerPerKey, At
<1>7. OneWorkerPerKey'
  <2>1. \A u, v \in Worker :
           At(u, "work")' /\ At(v, "work")' /\ worker'[u].key = worker'[v].key => u = v
    BY <1>3, <1>6 DEF Inv, OneWorkerPerKey, At
  <2>2. inner'.processing = {worker'[v].key : v \in {u \in Worker : worker'[u].pc = "work"}}
    BY <1>1, <1>2, <1>3 DEF Inv, OneWorkerPerKey, At
  <2> QED
    BY <2>1, <2>2 DEF OneWorkerPerKey, At
<1>8. NoLostWakeup'
  BY <1>3, <1>4 DEF Inv, NoLostWakeup, Waiting, Idle
<1> QED
  BY <1>5, <1>7, <1>8 DEF Inv

LEMMA DoneInv ==
    ASSUME Inv, NEW w \in Worker, worker[w].pc = "work", NEW failed \in BOOLEAN,
           Done(w, failed), failures' \in [Worker -> [Key -> Nat]]
    PROVE  Inv'
<1> DEFINE k == worker[w].key
<1>1. QueueOK(inner) /\ k \in inner.processing /\ k \in Key
  BY InnerOK DEF Inv, OneWorkerPerKey, At, TypeOK
<1>2. QueueOK(inner') /\ inner'.processing = inner.processing \ {k}
  BY <1>1, FinishedOK DEF Done
<1>3. /\ worker'[w].pc \in {"notify", "retry", "get"} /\ worker'[w].key = k
      /\ \A v \in Worker : v # w => worker'[v] = worker[v]
      /\ worker' \in [Worker -> WorkerState]
  <2> DEFINE pc == IF Pushes(inner, Finished(inner, k)) THEN "notify"
                   ELSE IF failed THEN "retry" ELSE "get"
  <2>1. pc \in {"notify", "retry", "get"} /\ pc \in {"get", "await", "wait", "work", "notify", "retry"}
    OBVIOUS
  <2>2. worker' = [[worker EXCEPT ![w].failed = failed] EXCEPT ![w].pc = pc]
    BY DEF Done
  <2> HIDE DEF pc
  <2>3. worker \in [Worker -> WorkerState]
    BY DEF Inv, TypeOK
  <2> DEFINE f == [worker EXCEPT ![w].failed = failed]
  <2>4. /\ f \in [Worker -> WorkerState] /\ f[w].key = k
        /\ \A v \in Worker : v # w => f[v] = worker[v]
    BY <2>3, SetFailed
  <2> HIDE DEF f
  <2>5. worker' = [f EXCEPT ![w].pc = pc]
    BY <2>2 DEF f
  <2> DEFINE g == [f EXCEPT ![w].pc = pc]
  <2>6. /\ g \in [Worker -> WorkerState]
        /\ g[w].pc = pc /\ g[w].key = f[w].key
        /\ \A v \in Worker : v # w => g[v] = f[v]
    BY <2>1, <2>4 DEF WorkerState
  <2> HIDE DEF g
  <2>7. worker' = g
    BY <2>5 DEF g
  <2> QED
    BY <2>1, <2>4, <2>6, <2>7
<1>4. permit' = permit /\ owed' = owed /\ timers' = timers
  BY DEF Done
<1>5. TypeOK' /\ QueueIsDirtyIdle'
  BY <1>1, <1>2, <1>3, <1>4 DEF Inv, TypeOK, QueueIsDirtyIdle, QueueOK, Queues
<1>6. OneWorkerPerKey'
  <2>1. \A v \in Worker : v # w /\ worker[v].pc = "work" => worker[v].key # k
    BY DEF Inv, OneWorkerPerKey, At
  <2>2. \A u, v \in Worker :
           At(u, "work")' /\ At(v, "work")' /\ worker'[u].key = worker'[v].key => u = v
    BY <1>3 DEF Inv, OneWorkerPerKey, At
  <2>3. inner'.processing = {worker'[v].key : v \in {u \in Worker : worker'[u].pc = "work"}}
    <3>1. inner.processing = {worker[v].key : v \in {u \in Worker : worker[u].pc = "work"}}
      BY DEF Inv, OneWorkerPerKey, At
    <3>2. \A v \in Worker : worker'[v].pc = "work" <=> worker[v].pc = "work" /\ v # w
      BY <1>3
    <3>3. \A v \in Worker : v # w => worker'[v].key = worker[v].key
      BY <1>3
    <3>4. \A x : x \in inner'.processing <=>
                 \E v \in Worker : worker[v].pc = "work" /\ v # w /\ x = worker[v].key
      BY <1>2, <2>1, <3>1
    <3> QED
      BY <3>2, <3>3, <3>4
  <2> QED
    BY <2>2, <2>3 DEF OneWorkerPerKey, At
<1>7. NoLostWakeup'
  BY <1>3, <1>4 DEF Inv, NoLostWakeup, Waiting, Idle
<1> QED
  BY <1>5, <1>6, <1>7 DEF Inv

LEMMA WorkerInv ==
    ASSUME Inv, NEW w \in Worker, WorkerStep(w)
    PROVE  Inv'
<1>0. worker[w].failed \in BOOLEAN /\ permit \in BOOLEAN /\ timers \in [Key -> Nat]
  BY DEF Inv, TypeOK, WorkerState
<1>1. CASE Get(w)
  BY <1>1, GetInv
<1>2. CASE FindEmpty(w)
  BY <1>0, <1>2, MoveInv DEF FindEmpty, At
<1>3. CASE Await(w)
  BY <1>0, <1>3, MoveInv DEF Await, At
<1>4. ASSUME At(w, "work"), NEW f \in BOOLEAN, Done(w, f), NEW n \in Nat,
             failures' = [failures EXCEPT ![w][worker[w].key] = n]
      PROVE  Inv'
  <2>1. failures' \in [Worker -> [Key -> Nat]]
    BY <1>4 DEF Inv, TypeOK
  <2> QED
    BY <1>4, <2>1, DoneInv DEF At
<1>5. CASE Succeed(w)
  BY <1>4, <1>5 DEF Succeed
<1>6. CASE Fail(w)
  <2>1. failures[w][worker[w].key] + 1 \in Nat
    BY <1>6 DEF Fail, At, Inv, TypeOK
  <2> QED
    BY <1>4, <1>6, <2>1 DEF Fail
<1>7. CASE WorkerNotifies(w)
  <2> DEFINE pc == IF worker[w].failed THEN "retry" ELSE "get"
             ws == [worker EXCEPT ![w].pc = pc]
  <2>0. pc \in {"retry", "get"} /\ pc \in {"get", "await", "wait", "work", "notify", "retry"}
    OBVIOUS
  <2> HIDE DEF pc
  <2>1. ws \in [Worker -> WorkerState]
    <3>1. worker \in [Worker -> WorkerState]
      BY DEF Inv, TypeOK
    <3> QED
      BY <2>0, <3>1, SetPc, Zenon
  <2>2. \A v \in Worker : /\ ws[v].key = worker[v].key
                          /\ ws[v].pc # worker[v].pc =>
                                worker[v].pc = "notify" /\ ws[v].pc \in {"get", "retry"}
    BY <1>7, <2>0 DEF WorkerNotifies, At, Inv, TypeOK
  <2>3. NotifyOne(ws) /\ inner' = inner /\ owed' = owed /\ failures' = failures /\ timers' = timers
    BY <1>7 DEF WorkerNotifies, pc
  <2>4. owed' \in Nat
    BY <2>3 DEF Inv, TypeOK
  <2> QED
    BY <2>1, <2>2, <2>3, <2>4, NotifyInv
<1>8. CASE Retry(w)
  <2>1. timers' \in [Key -> Nat]
    BY <1>8 DEF Retry, At, Inv, TypeOK
  <2> QED
    BY <1>0, <1>8, <2>1, MoveInv DEF Retry, At
<1> QED
  BY <1>1, <1>2, <1>3, <1>5, <1>6, <1>7, <1>8 DEF WorkerStep

LEMMA StepInv == Inv /\ [Next]_vars => Inv'
<1> SUFFICES ASSUME Inv, [Next]_vars PROVE Inv'
  OBVIOUS
<1>1. ASSUME NEW k \in Key, Add(k) PROVE Inv'
  BY <1>1, EnqueueInv DEF Add, Inv, TypeOK
<1>2. ASSUME NEW k \in Key, TimerFires(k) PROVE Inv'
  <2>1. timers' \in [Key -> Nat]
    BY <1>2 DEF TimerFires, Inv, TypeOK
  <2> QED
    BY <1>2, <2>1, EnqueueInv DEF TimerFires
<1>3. CASE AdderNotifies
  <2>1. owed' \in Nat
    BY <1>3 DEF AdderNotifies, Inv, TypeOK
  <2>2. worker \in [Worker -> WorkerState]
    BY DEF Inv, TypeOK
  <2> QED
    BY <1>3, <2>1, <2>2, NotifyInv DEF AdderNotifies
<1>4. CASE UNCHANGED vars
  BY <1>4 DEF vars, Inv, TypeOK, QueueIsDirtyIdle, OneWorkerPerKey, NoLostWakeup,
              Waiting, Idle, At
<1> QED
  BY <1>1, <1>2, <1>3, <1>4, WorkerInv DEF Next

(* What the queue promises, for any number of workers and keys: no key is  *)
(* queued twice or lost, no two workers reconcile one key, and no wake-up  *)
(* is lost.                                                                *)
THEOREM QueueCorrect == Spec => []Inv
  BY InitInv, StepInv, PTL DEF Spec

(* Dedup and safe requeue of workqueue.rs.                                 *)
THEOREM QueueNeverLosesKeys == Spec => []QueueIsDirtyIdle
  BY QueueCorrect, PTL DEF Inv

(* "Never two workers on one key."                                         *)
THEOREM KeysAreExclusive == Spec => []OneWorkerPerKey
  BY QueueCorrect, PTL DEF Inv

(* get, add and done between them never leave a queued key with every      *)
(* worker asleep and no notification under way.                            *)
THEOREM WakeupsAreNotLost == Spec => []NoLostWakeup
  BY QueueCorrect, PTL DEF Inv
=============================================================================
