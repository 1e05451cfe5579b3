----------------------------- MODULE WorkQueue -----------------------------
(***************************************************************************)
(* The deduplicating work queue of src/controller/workqueue.rs and the     *)
(* worker loops that drain it (worker_loop of manager.rs and of            *)
(* endpoints_manager.rs).                                                  *)
(*                                                                         *)
(* add, try_get and done each run under one lock, so each is one step.     *)
(* The wake-up is not: add and done call notify_one after they have        *)
(* dropped the lock, and get looks at the queue before it waits.  `owed`   *)
(* counts the adding tasks that are between the two.  Notify is external:  *)
(* notify_one wakes one waiting task, or leaves a permit (at most one)     *)
(* that the next wait consumes.                                            *)
(*                                                                         *)
(* The code runs one worker per queue.  The queue promises more ("never    *)
(* two workers on one key"), so Worker may have several members; each      *)
(* worker loop has a RateLimiter of its own.                               *)
(***************************************************************************)
EXTENDS Integers, Sequences, Functions

CONSTANTS
    Key,           \* resource names
    Worker,        \* tasks running worker_loop
    NoKey,         \* what a worker holds that has not got a key yet
    MaxAdders,     \* bound: tasks that are inside add at one moment
    MaxFailures,   \* bound: consecutive failures of a key
    MaxTimers      \* bound: add_after tasks asleep for one key

ASSUME KeyAssumption   == NoKey \notin Key
ASSUME BoundAssumption == {MaxAdders, MaxFailures, MaxTimers} \subseteq Nat

VARIABLES
    inner,      \* Inner: queue, dirty, processing
    permit,     \* the permit stored in Notify
    owed,       \* adders that have pushed a key and not yet notified
    worker,     \* [Worker -> [pc, key, failed]]
    failures,   \* [Worker -> [Key -> Nat]], the RateLimiters
    timers      \* [Key -> Nat], sleeping add_after tasks

vars == <<inner, permit, owed, worker, failures, timers>>

-----------------------------------------------------------------------------
(* The critical sections *)

EmptyQueue == [queue |-> << >>, dirty |-> {}, processing |-> {}]

(* add: nothing for a dirty key; a key being processed is only marked.     *)
AddedTwice(q, k) ==
    IF k \in q.dirty THEN q
    ELSE [q EXCEPT !.dirty = q.dirty \cup {k}, !.queue = Append(q.queue, k)]
Added(q, k) ==
    IF k \in q.dirty THEN q
    ELSE [q EXCEPT !.dirty = q.dirty \cup {k},
                   !.queue = IF k \in q.processing THEN q.queue ELSE Append(q.queue, k)]

(* try_get, on a queue that is not empty.                                  *)
Taken(q) ==
    [queue |-> Tail(q.queue), dirty |-> q.dirty \ {Head(q.queue)},
     processing |-> q.processing \cup {Head(q.queue)}]

(* done: a key added meanwhile goes back to the end of the queue.          *)
FinishedForgets(q, k) == [q EXCEPT !.processing = q.processing \ {k}]
Finished(q, k) ==
    [queue |-> IF k \in q.dirty THEN Append(q.queue, k) ELSE q.queue,
     dirty |-> q.dirty, processing |-> q.processing \ {k}]

Pushes(q, r) == Len(r.queue) > Len(q.queue)

-----------------------------------------------------------------------------
(* Wake-ups *)

Waiting == {w \in Worker : worker[w].pc = "wait"}

At(w, pc) == worker[w].pc = pc

Goto(w, pc) == worker' = [worker EXCEPT ![w].pc = pc]

(* notify_one, `ws` being the workers before it.                           *)
NotifyOne(ws) ==
    \/ /\ Waiting # {}
       /\ \E w \in Waiting : worker' = [ws EXCEPT ![w].pc = "get"]
       /\ UNCHANGED permit
    \/ /\ Waiting = {}
       /\ permit' = TRUE
       /\ worker' = ws

-----------------------------------------------------------------------------
(* Adders: informers, the resync loop and sleeping retries.                *)

(* The critical section of add; a notification is owed if a key was pushed.*)
Enqueue(k) ==
    /\ inner' = Added(inner, k)
    /\ IF Pushes(inner, Added(inner, k))
       THEN owed < MaxAdders /\ owed' = owed + 1
       ELSE owed' = owed
    /\ UNCHANGED <<permit, worker, failures>>

Add(k) == Enqueue(k) /\ UNCHANGED timers

(* The task of add_after wakes up.                                         *)
TimerFires(k) ==
    /\ timers[k] > 0
    /\ timers' = [timers EXCEPT ![k] = @ - 1]
    /\ Enqueue(k)

(* The adder gets to its notify_one.                                       *)
AdderNotifies ==
    /\ owed > 0
    /\ owed' = owed - 1
    /\ NotifyOne(worker)
    /\ UNCHANGED <<inner, failures, timers>>

-----------------------------------------------------------------------------
(* worker_loop *)

(* get: try_get returns a key.                                             *)
Get(w) ==
    /\ At(w, "get")
    /\ inner.queue # << >>
    /\ inner' = Taken(inner)
    /\ worker' = [worker EXCEPT ![w] = [pc |-> "work", key |-> Head(inner.queue),
                                        failed |-> FALSE]]
    /\ UNCHANGED <<permit, owed, failures, timers>>

(* get: try_get returns None.                                              *)
FindEmpty(w) ==
    /\ At(w, "get")
    /\ inner.queue = << >>
    /\ Goto(w, "await")
    /\ UNCHANGED <<inner, permit, owed, failures, timers>>

(* notified().await: consumes a permit or starts waiting.                  *)
AwaitBlocks(w) ==
    /\ At(w, "await")
    /\ Goto(w, "wait")
    /\ UNCHANGED <<inner, permit, owed, failures, timers>>
Await(w) ==
    /\ At(w, "await")
    /\ permit' = FALSE
    /\ Goto(w, IF permit THEN "get" ELSE "wait")
    /\ UNCHANGED <<inner, owed, failures, timers>>

(* done, the outcome of reconcile being known.                             *)
Done(w, failed) ==
    LET k == worker[w].key
    IN  /\ inner' = Finished(inner, k)
        /\ worker' = [worker EXCEPT ![w].failed = failed,
                                    ![w].pc = IF Pushes(inner, Finished(inner, k))
                                              THEN "notify"
                                              ELSE IF failed THEN "retry" ELSE "get"]
        /\ UNCHANGED <<permit, owed, timers>>

(* reconcile returned Ok: forget, done.                                    *)
Succeed(w) ==
    /\ At(w, "work")
    /\ failures' = [failures EXCEPT ![w][worker[w].key] = 0]
    /\ Done(w, FALSE)

(* Workers between done and add_after.                                     *)
Retrying(k) ==
    {w \in Worker : /\ worker[w].failed /\ worker[w].key = k
                    /\ worker[w].pc \in {"notify", "retry"}}

(* reconcile returned Err: failure, done, and then add_after.              *)
Fail(w) ==
    /\ At(w, "work")
    /\ failures[w][worker[w].key] < MaxFailures
    /\ timers[worker[w].key] < MaxTimers
    /\ Retrying(worker[w].key) = {}
    /\ failures' = [failures EXCEPT ![w][worker[w].key] = @ + 1]
    /\ Done(w, TRUE)

(* The notify_one at the end of done.                                      *)
WorkerNotifies(w) ==
    /\ At(w, "notify")
    /\ NotifyOne([worker EXCEPT ![w].pc = IF worker[w].failed THEN "retry" ELSE "get"])
    /\ UNCHANGED <<inner, owed, failures, timers>>

(* add_after: after backoff_for(attempt), some time between 0.5 s and 5    *)
(* minutes, TimerFires.                                                    *)
Retry(w) ==
    /\ At(w, "retry")
    /\ timers' = [timers EXCEPT ![worker[w].key] = @ + 1]
    /\ Goto(w, "get")
    /\ UNCHANGED <<inner, permit, owed, failures>>

-----------------------------------------------------------------------------
Init ==
    /\ inner = EmptyQueue
    /\ permit = FALSE
    /\ owed = 0
    /\ worker = [w \in Worker |-> [pc |-> "get", key |-> NoKey, failed |-> FALSE]]
    /\ failures = [w \in Worker |-> [k \in Key |-> 0]]
    /\ timers = [k \in Key |-> 0]

WorkerStep(w) ==
    \/ Get(w)
    \/ FindEmpty(w)
    \/ Await(w)
    \/ Succeed(w)
    \/ Fail(w)
    \/ WorkerNotifies(w)
    \/ Retry(w)

Next ==
    \/ \E k \in Key : Add(k) \/ TimerFires(k)
    \/ AdderNotifies
    \/ \E w \in Worker : WorkerStep(w)

Spec == Init /\ [][Next]_vars

(* Tasks are scheduled fairly by the runtime, reconcile returns, timers    *)
(* fire.  Nobody has to add anything, and no reconcile has to succeed      *)
(* before the bound on failures says so.  In the code nothing disables a   *)
(* timer that is due; here the bound on adders can, for a while, and the   *)
(* strong fairness of TimerFires makes up for it.                          *)
Fairness ==
    /\ WF_vars(AdderNotifies)
    /\ \A k \in Key : SF_vars(TimerFires(k))
    /\ \A w \in Worker : WF_vars(WorkerStep(w))

FairSpec == Spec /\ Fairness

-----------------------------------------------------------------------------
(* Properties *)

NoDuplicates(s) == \A i, j \in DOMAIN s : s[i] = s[j] => i = j

WorkerState ==
    [pc : {"get", "await", "wait", "work", "notify", "retry"},
     key : Key \cup {NoKey}, failed : BOOLEAN]

(* Type invariant; a worker past get holds a key, and no counter of        *)
(* pending timers or notifications goes below zero.                        *)
TypeOK ==
    /\ inner \in [queue : Seq(Key), dirty : SUBSET Key, processing : SUBSET Key]
    /\ permit \in BOOLEAN
    /\ owed \in Nat
    /\ worker \in [Worker -> WorkerState]
    /\ \A w \in Worker : worker[w].pc \in {"work", "notify", "retry"} => worker[w].key \in Key
    /\ failures \in [Worker -> [Key -> Nat]]
    /\ timers \in [Key -> Nat]

(* Dedup and "never lost" in one: the keys waiting in the queue are the    *)
(* dirty ones that nobody is working on, each once.  A key marked dirty    *)
(* while it was processed is back in the queue after done.                 *)
QueueIsDirtyIdle ==
    /\ NoDuplicates(inner.queue)
    /\ Range(inner.queue) = inner.dirty \ inner.processing

(* "Never two workers on one key": the workers that reconcile hold         *)
(* different keys, and those are the keys marked as being processed.       *)
OneWorkerPerKey ==
    /\ \A v, w \in Worker :
          At(v, "work") /\ At(w, "work") /\ worker[v].key = worker[w].key => v = w
    /\ inner.processing = {worker[w].key : w \in {v \in Worker : At(v, "work")}}

Idle(w) == worker[w].pc \in {"await", "wait"}

(* No wake-up is lost between the empty try_get and the wait, nor between  *)
(* the unlock and notify_one: while keys are queued, some worker is on its *)
(* way to them, or a notification is stored or still owed.  A stored       *)
(* permit means that nobody is asleep.                                     *)
NoLostWakeup ==
    /\ Worker # {} /\ (\A w \in Worker : Idle(w)) /\ inner.queue # << >> => permit \/ owed > 0
    /\ permit => Waiting = {}

(* Every add is followed by a reconcile that starts after it, whatever is  *)
(* added in the meantime and however often reconciles fail.                *)
EveryAddIsReconciled ==
    \A k \in Key : k \in inner.dirty ~>
        \E w \in Worker : At(w, "work") /\ worker[w].key = k /\ k \notin inner.dirty
=============================================================================
