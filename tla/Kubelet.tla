------------------------------ MODULE Kubelet ------------------------------
(***************************************************************************)
(* The kubelet of one node: src/reconciler.rs with its in-memory store     *)
(* (store.rs), the sandboxes it builds (runtime/sandbox.rs) and its        *)
(* address allocator.                                                      *)
(*                                                                         *)
(* The reconciler is one task: it handles a watch event, a resync or a     *)
(* liveness tick to the end before it looks at the next.  Building pods    *)
(* and calling the API server are steps of their own here, because         *)
(* meanwhile clients write, containers exit, and the process may be        *)
(* killed; its containers survive that.                                    *)
(*                                                                         *)
(* Pods are numbered in the order of their names and have one container    *)
(* besides the pause container.  The API server and the container runtime  *)
(* appear as far as the kubelet sees them, and the API server with one     *)
(* store whose reads are current, as it has without Raft, or with Raft if  *)
(* the replica that answers has applied everything.                        *)
(***************************************************************************)
EXTENDS Ipam, Sequences, FiniteSets

CONSTANTS
    NumPods,        \* pod names that can be bound to this node
    Absent,         \* what a map holds for a missing key
    RuntimeFaults,  \* the steps of building a pod that may fail, see below
    MaxLives,       \* bound: times a name is used for a new pod
    MaxBehind,      \* bound: events on their way when a client writes again
    MaxMishaps      \* bound: edits by others, exits, failing creations, lost
                    \* requests, streams that end, crashes and shutdowns,
                    \* all together

(* pause: nothing was built.  network: the pause container exists.  app:   *)
(* create_container of the pod's container fails.  start: it exists and    *)
(* does not start.                                                         *)
PossibleFaults == {"pause", "network", "app", "start"}

ASSUME KubeletAssumption ==
    /\ RuntimeFaults \subseteq PossibleFaults
    /\ {NumPods, MaxLives, MaxBehind, MaxMishaps} \subseteq Nat

Pod == 1..NumPods

VARIABLES
    api,       \* [Pod -> object or Absent], the pods bound to this node
    history,   \* [Pod -> how often it was created, its last resourceVersion,
               \*         and whether the reply to its last status push was lost]
    stream,    \* the watch stream: open or closed, events on their way
    host,      \* [Pod -> its containers in the runtime, and their address]
    pc,        \* what the reconciler is doing, "down" if it does not run
    todo,      \* the pods it has still to do it for
    kubelet,   \* the Reconciler: cache, store, trackers, pushed, ipam
    dirty,     \* [Pod -> status to push or Absent]
    mishaps    \* how many there were so far

apiVars == <<api, history, stream>>
vars == <<api, history, stream, host, pc, todo, kubelet, dirty, mishaps>>

-----------------------------------------------------------------------------
(* Values *)

Ip == Host \cup {NoIp}
Nowhere == [p \in Pod |-> Absent]

(* PodStatus; "None" is the phase of a pod without status.                 *)
Status == [phase : {"None", "Pending", "Running", "Failed"}, restarts : Nat, ip : Ip]
NoStatus == [phase |-> "None", restarts |-> 0, ip |-> NoIp]

Object == [rv : Nat, status : Status]

(* Containers of a pod in the runtime.                                     *)
Containers == [pause : BOOLEAN, ip : Ip, app : {"NotFound", "Created", "Running", "Stopped"}]
Nothing == [pause |-> FALSE, ip |-> NoIp, app |-> "NotFound"]

(* PodSandbox: pod_ip, and whether app_containers names the container.     *)
Sandbox == [ip : Ip, tracked : BOOLEAN]

(* RestartTracker: restart_count, and whether next_retry_at has come.      *)
Tracker == [count : Nat, due : BOOLEAN]
NoTracker == [count |-> 0, due |-> TRUE]

ASSUME AbsentAssumption ==
    Absent \notin Object /\ Absent \notin Sandbox /\ Absent \notin Status

(* Reconciler::new and the allocator of startup.                           *)
NewReconciler ==
    [cache |-> Nowhere, store |-> Nowhere, trackers |-> [p \in Pod |-> NoTracker],
     pushed |-> Nowhere, ipam |-> FreshPool]

Live == {p \in Pod : api[p] # Absent}
Stored == {p \in Pod : kubelet.store[p] # Absent}
Cached == {p \in Pod : kubelet.cache[p] # Absent}

-----------------------------------------------------------------------------
(* The API server *)

Emit(type, p, obj) ==
    stream' = IF stream.open
              THEN [stream EXCEPT !.events = Append(@, [type |-> type, pod |-> p, object |-> obj])]
              ELSE stream

(* A write of p's object, and what becomes of its history.                 *)
Put(p, status, new) ==
    LET obj == [rv |-> history[p].rv + 1, status |-> status]
    IN  /\ api' = [api EXCEPT ![p] = obj]
        /\ history' = [history EXCEPT ![p] = [new EXCEPT !.rv = @ + 1]]
        /\ Emit("Set", p, obj)

kubeletVars == <<pc, todo, kubelet, dirty>>

ClientMayWrite == Len(stream.events) <= MaxBehind

Mishap == mishaps < MaxMishaps /\ mishaps' = mishaps + 1

(* A pod is created and bound to this node.                                *)
ClientCreates(p) ==
    /\ api[p] = Absent /\ ClientMayWrite
    /\ history[p].lives < MaxLives
    /\ Put(p, NoStatus, [history[p] EXCEPT !.lives = @ + 1, !.lost = FALSE])
    /\ UNCHANGED <<host, mishaps, kubeletVars>>

(* Somebody else than the kubelet edits the pod.                           *)
ClientEdits(p) ==
    /\ api[p] # Absent /\ ClientMayWrite
    /\ Put(p, api[p].status, history[p])
    /\ Mishap
    /\ UNCHANGED <<host, kubeletVars>>

ClientDeletes(p) ==
    /\ api[p] # Absent /\ ClientMayWrite
    /\ api' = [api EXCEPT ![p] = Absent]
    /\ Emit("Deleted", p, api[p])
    /\ UNCHANGED <<history, host, mishaps, kubeletVars>>

(* The stream ends: the watcher lagged, or the API server restarted.       *)
StreamCloses ==
    /\ stream.open
    /\ stream' = [stream EXCEPT !.open = FALSE]
    /\ Mishap
    /\ UNCHANGED <<api, history, host, kubeletVars>>

(* The container's process exits.                                          *)
ContainerExits(p) ==
    /\ host[p].app = "Running"
    /\ host' = [host EXCEPT ![p].app = "Stopped"]
    /\ Mishap
    /\ UNCHANGED <<apiVars, kubeletVars>>

-----------------------------------------------------------------------------
(* Building and destroying pods.  Operators on a world: the reconciler and *)
(* the containers.                                                         *)

World == [k |-> kubelet, c |-> host]

Become(w) == \E v \in {w} : kubelet' = v.k /\ host' = v.c

(* ensure_pod_ip: the address in the status, or a fresh one.               *)
EnsureFresh(ipam, obj) == Allocate(ipam)
EnsurePodIp(ipam, obj) ==
    IF obj.status.ip # NoIp
    THEN [ip |-> obj.status.ip, pool |-> Reserve(ipam, obj.status.ip)]
    ELSE Allocate(ipam)

(* create_container refuses a container that already exists.               *)
AlreadyExists(c, id) == IF id = "pause" THEN c.pause ELSE c.app # "NotFound"
Outcome(c, o) == IF AlreadyExists(c, "pause") THEN "pause"
                 ELSE IF o \in {"ok", "start"} /\ AlreadyExists(c, "app") THEN "app" ELSE o

(* create_pod.  A failure of sandbox.create is returned as it is; one of   *)
(* add_container destroys the sandbox and releases the address, but        *)
(* destroy only knows the containers that were added.                      *)
CreatePod(w, p, obj, o) ==
    LET got  == EnsurePodIp(w.k.ipam, obj)
        k    == [w.k EXCEPT !.ipam = got.pool]
        undo == [w.k EXCEPT !.ipam = Release(got.pool, got.ip)]
        how  == Outcome(w.c[p], o)
    IN  IF got.ip = NoIp
        THEN [w EXCEPT !.k = k]
        ELSE CASE how = "ok" ->
                    [k |-> [k EXCEPT !.store[p] = [ip |-> got.ip, tracked |-> TRUE]],
                     c |-> [w.c EXCEPT ![p] = [pause |-> TRUE, ip |-> got.ip, app |-> "Running"]]]
               [] how = "pause"   -> [w EXCEPT !.k = k]
               [] how = "network" -> [w EXCEPT !.k = k, !.c[p].pause = TRUE]
               [] how = "app"     -> [w EXCEPT !.k = undo]
               [] how = "start"   -> [w EXCEPT !.k = undo, !.c[p].app = "Created"]

(* destroy: the containers that the sandbox names, and the pause container *)
Destroyed(c, sandbox) == [Nothing EXCEPT !.app = IF sandbox.tracked THEN "NotFound" ELSE c.app]

(* remove_pod, for one or several pods: those that are not in the store    *)
(* are left alone.                                                         *)
Without(map, S, none) == [p \in Pod |-> IF p \in S THEN none ELSE map[p]]

RemovePodsKeepTrackers(w, S) ==
    LET gone == {p \in S : w.k.store[p] # Absent}
    IN  [k |-> [w.k EXCEPT !.store = Without(@, gone, Absent), !.pushed = Without(@, gone, Absent),
                           !.ipam = ReleaseAll(@, {w.k.store[p].ip : p \in gone})],
         c |-> [p \in Pod |-> IF p \in gone THEN Destroyed(w.c[p], w.k.store[p]) ELSE w.c[p]]]
RemovePods(w, S) ==
    LET gone == {p \in S : w.k.store[p] # Absent}
    IN  [k |-> [w.k EXCEPT !.store = Without(@, gone, Absent), !.pushed = Without(@, gone, Absent),
                           !.trackers = Without(@, gone, NoTracker),
                           !.ipam = ReleaseAll(@, {w.k.store[p].ip : p \in gone})],
         c |-> [p \in Pod |-> IF p \in gone THEN Destroyed(w.c[p], w.k.store[p]) ELSE w.c[p]]]

(* reconcile_liveness touches the tracker of a pod, its sandbox and its    *)
(* container.                                                              *)
View(w, p) == [tracker |-> w.k.trackers[p], sandbox |-> w.k.store[p], app |-> w.c[p].app]

(* The first restart is due at once.                                       *)
Restarts(v) ==
    /\ v.sandbox # Absent
    /\ v.app \in {"Stopped", "NotFound"}
    /\ v.tracker.due

Restart(v, o) ==
    [tracker |-> [count |-> v.tracker.count + 1, due |-> FALSE],
     sandbox |-> [v.sandbox EXCEPT !.tracked = (o = "ok")],
     app     |-> CASE o = "ok"    -> "Running"
                   [] o = "start" -> "Created"
                   [] o = "app"   -> "NotFound"]

ReconcileLiveness(v, o) ==
    IF Restarts(v) THEN Restart(v, o)
    ELSE IF v.sandbox # Absent /\ v.app = "Running"
    THEN [v EXCEPT !.tracker = NoTracker]
    ELSE v

(* How one creation, and how a pass of restarts, may turn out.             *)
CreateOutcomes == {"ok"} \cup PossibleFaults
RestartOutcomes == [Pod -> {"ok", "app", "start"}]

Creating(o) == IF o = "ok" THEN UNCHANGED mishaps ELSE o \in RuntimeFaults /\ Mishap

(* Bound: only the first restart after an exit fails.                      *)
Restarting(w, outcome) ==
    /\ \A p \in Pod : outcome[p] # "ok" =>
          outcome[p] \in RuntimeFaults /\ Restarts(View(w, p)) /\ w.k.trackers[p] = NoTracker
    /\ UNCHANGED mishaps

(* reconcile_liveness for all the desired pods.                            *)
LivenessPass(w, outcome) ==
    LET after == [p \in Pod |-> IF w.k.cache[p] = Absent THEN View(w, p)
                                ELSE ReconcileLiveness(View(w, p), outcome[p])]
    IN  [k |-> [w.k EXCEPT !.trackers = [p \in Pod |-> after[p].tracker],
                           !.store    = [p \in Pod |-> after[p].sandbox]],
         c |-> [p \in Pod |-> [w.c[p] EXCEPT !.app = after[p].app]]]

-----------------------------------------------------------------------------
(* run: startup *)

Goto(where, pods) == pc' = where /\ todo' = pods

(* The process is started: recover_all and the initial list.  The cache,   *)
(* which startup fills pod by pod and nobody reads before it is done, gets *)
(* the list at once.                                                       *)
Start ==
    /\ pc = "down"
    /\ kubelet' = [NewReconciler EXCEPT !.cache = api]
    /\ Goto("startup", Live)
    /\ UNCHANGED <<apiVars, host, dirty, mishaps>>

(* startup, one turn of the loop over the listed pods: reserve the address *)
(* in the status, then reattach the sandbox if its pause container         *)
(* survived, else create it.                                               *)
Reattach(w, p, obj) ==
    [w EXCEPT !.k.store[p] = [ip |-> obj.status.ip, tracked |-> w.c[p].app # "NotFound"]]

(* recover_all, the pause container: the runtime loads what is on disk.    *)
Recovered(w, p) == w.c[p].pause

StartupPod(w, p, obj, o) ==
    IF Recovered(w, p) THEN Reattach(w, p, obj) ELSE CreatePod(w, p, obj, o)

Startup ==
    /\ pc = "startup" /\ todo # {}
    /\ LET p   == Smallest(todo)
           obj == kubelet.cache[p]
           w   == IF obj.status.ip = NoIp THEN World
                  ELSE [World EXCEPT !.k.ipam = Reserve(@, obj.status.ip)]
       IN  /\ \E o \in CreateOutcomes :
                 Creating(o) /\ (o # "ok" => ~host[p].pause) /\ Become(StartupPod(w, p, obj, o))
           /\ Goto("startup", todo \ {p})
    /\ UNCHANGED <<apiVars, dirty>>

(* The end of startup: containers of unlisted pods are destroyed, and the  *)
(* watch is opened from version 0, so that it begins with all the pods, in *)
(* the order of their names.                                               *)
CatchUp(names) ==
    [i \in DOMAIN names |-> [type |-> "Set", pod |-> names[i], object |-> api[names[i]]]]

InOrder(names) == \A i, j \in DOMAIN names : i < j => names[i] < names[j]

OrphanEvenListed(p) == TRUE
Orphan(p) == p \notin Cached

EndStartup ==
    /\ pc = "startup" /\ todo = {}
    /\ host' = [p \in Pod |-> IF Orphan(p) THEN Nothing ELSE host[p]]
    /\ \E names \in [1..Cardinality(Live) -> Live] :
          InOrder(names) /\ stream' = [open |-> TRUE, events |-> CatchUp(names)]
    /\ Goto("idle", {})
    /\ UNCHANGED <<api, history, kubelet, dirty, mishaps>>

-----------------------------------------------------------------------------
(* run: the loop.  select! is biased: while the stream yields something,   *)
(* the timers are not looked at, and a stream that has ended yields None   *)
(* at every turn.                                                          *)

Starved == pc = "idle" /\ ~stream.open /\ stream.events = << >>

(* apply_watch_event; Added and Modified are treated alike.                *)
ApplyWatchEvent(e, o) ==
    LET seen(obj) == [World EXCEPT !.k.cache[e.pod] = obj]
    IN  IF e.type = "Deleted"
        THEN RemovePods(seen(Absent), {e.pod})
        ELSE IF e.pod \notin Cached
        THEN CreatePod(seen(e.object), e.pod, e.object, o)
        ELSE seen(e.object)

WatchEvent ==
    /\ pc = "idle" /\ stream.events # << >>
    /\ LET e == Head(stream.events)
       IN  \E o \in CreateOutcomes :
              /\ Creating(o)
              /\ o # "ok" => e.type = "Set" /\ e.pod \notin Cached
              /\ Become(ApplyWatchEvent(e, o))
    /\ stream' = [stream EXCEPT !.events = Tail(@)]
    /\ UNCHANGED <<api, history, pc, todo, dirty>>

(* resync: list and replace the cache; then apply_diff creates what is     *)
(* missing ...                                                             *)
Resync ==
    /\ pc = "idle" /\ ~Starved
    /\ kubelet' = [kubelet EXCEPT !.cache = api]
    /\ Goto("diff", Live \ Stored)
    /\ UNCHANGED <<apiVars, host, dirty, mishaps>>

DiffCreate(p) ==
    /\ pc = "diff" /\ p \in todo
    /\ \E o \in CreateOutcomes :
          Creating(o) /\ Become(CreatePod(World, p, kubelet.cache[p], o))
    /\ Goto("diff", todo \ {p})
    /\ UNCHANGED <<apiVars, dirty>>

(* ... removes what is gone, and looks after the containers of the rest.   *)
EndDiff ==
    /\ pc = "diff" /\ todo = {}
    /\ \E w \in {RemovePods(World, Stored \ Cached)}, outcome \in RestartOutcomes :
          Restarting(w, outcome) /\ Become(LivenessPass(w, outcome))
    /\ Goto("idle", {})
    /\ UNCHANGED <<apiVars, dirty>>

-----------------------------------------------------------------------------
(* run: liveness ticks and status *)

(* compute_pod_status *)
Phase(app) == CASE app = "Running" -> "Running"
                [] app = "Stopped" -> "Failed"
                [] OTHER           -> "Pending"
ComputePodStatus(w, p) ==
    [phase |-> Phase(w.c[p].app),
     restarts |-> w.k.trackers[p].count,
     ip |-> IF w.k.store[p] = Absent THEN NoIp ELSE w.k.store[p].ip]

(* tick_liveness: a status is pushed if it is not what was last pushed.    *)
Dirty(w) ==
    [p \in Pod |-> IF p \in Cached /\ ComputePodStatus(w, p) # w.k.pushed[p]
                   THEN ComputePodStatus(w, p) ELSE Absent]

Pushing == Goto(IF dirty' = Nowhere THEN "idle" ELSE "push", {})

Tick ==
    /\ pc = "idle" /\ ~Starved
    /\ \E outcome \in RestartOutcomes :
          /\ Restarting(World, outcome)
          /\ \E w \in {LivenessPass(World, outcome)} : Become(w) /\ dirty' = Dirty(w)
    /\ Pushing
    /\ UNCHANGED apiVars

(* push_status.  The server takes a status written against its current     *)
(* version; the cache gets what the server returns.                        *)
Current(p) == api[p] # Absent /\ api[p].rv = kubelet.cache[p].rv

Accepted(p) ==
    /\ Put(p, dirty[p], [history[p] EXCEPT !.lost = FALSE])
    /\ kubelet' = [kubelet EXCEPT !.cache[p] = api'[p], !.pushed[p] = dirty[p]]

(* p is done with, pushed or not.                                          *)
NextPush(p) == dirty' = [dirty EXCEPT ![p] = Absent] /\ Pushing

Push(p) ==
    /\ pc = "push" /\ dirty[p] # Absent /\ Current(p)
    /\ Accepted(p)
    /\ NextPush(p)
    /\ UNCHANGED <<host, mishaps>>

(* The pod is gone, or the request is lost, or the reply to it.            *)
PushFailsRecorded(p) ==
    /\ pc = "push" /\ dirty[p] # Absent
    /\ \/ api[p] = Absent /\ UNCHANGED <<apiVars, mishaps>>
       \/ Mishap /\ UNCHANGED apiVars
       \/ Mishap /\ Current(p) /\ Put(p, dirty[p], [history[p] EXCEPT !.lost = TRUE])
    /\ kubelet' = [kubelet EXCEPT !.pushed[p] = dirty[p]]
    /\ NextPush(p)
    /\ UNCHANGED host
PushFails(p) ==
    /\ pc = "push" /\ dirty[p] # Absent
    /\ \/ api[p] = Absent /\ UNCHANGED <<apiVars, mishaps>>
       \/ Mishap /\ UNCHANGED apiVars
       \/ Mishap /\ Current(p) /\ Put(p, dirty[p], [history[p] EXCEPT !.lost = TRUE])
    /\ NextPush(p)
    /\ UNCHANGED <<host, kubelet>>

(* A conflict: fetch the latest version ...                                *)
Conflict(p) ==
    /\ pc = "push" /\ dirty[p] # Absent /\ api[p] # Absent /\ ~Current(p)
    /\ Goto("refetch", {p})
    /\ UNCHANGED <<apiVars, host, kubelet, dirty, mishaps>>

Refetch(p) ==
    /\ pc = "refetch" /\ p \in todo
    /\ IF api[p] = Absent
       THEN NextPush(p) /\ UNCHANGED kubelet
       ELSE /\ kubelet' = [kubelet EXCEPT !.cache[p] = api[p]]
            /\ Goto("retry", {p})
            /\ UNCHANGED dirty
    /\ UNCHANGED <<apiVars, host, mishaps>>

(* ... and try once more.                                                  *)
RetryPush(p) ==
    /\ pc = "retry" /\ p \in todo
    /\ IF Current(p) THEN Accepted(p) ELSE UNCHANGED <<apiVars, kubelet>>
    /\ NextPush(p)
    /\ UNCHANGED <<host, mishaps>>

(* next_retry_at of a tracker comes.                                       *)
BackoffElapses(p) ==
    /\ ~kubelet.trackers[p].due
    /\ kubelet' = [kubelet EXCEPT !.trackers[p].due = TRUE]
    /\ UNCHANGED <<apiVars, host, pc, todo, dirty, mishaps>>

-----------------------------------------------------------------------------
(* The end of the process *)

Closed == [open |-> FALSE, events |-> << >>]

Stop ==
    /\ Mishap
    /\ Goto("down", {})
    /\ kubelet' = NewReconciler
    /\ dirty' = Nowhere
    /\ stream' = Closed
    /\ UNCHANGED <<api, history>>

(* It is killed at any moment; the containers go on.                       *)
Crash ==
    /\ pc # "down"
    /\ Stop
    /\ UNCHANGED host

(* shutdown, after cancel: all the sandboxes are destroyed.                *)
Shutdown ==
    /\ pc = "idle"
    /\ Stop
    /\ host' = RemovePods(World, Stored).c

-----------------------------------------------------------------------------
Init ==
    /\ api = Nowhere
    /\ history = [p \in Pod |-> [lives |-> 0, rv |-> 0, lost |-> FALSE]]
    /\ stream = Closed
    /\ host = [p \in Pod |-> Nothing]
    /\ pc = "down"
    /\ todo = {}
    /\ kubelet = NewReconciler
    /\ dirty = Nowhere
    /\ mishaps = 0

(* The steps of a handler that the loop has entered.                       *)
Continue ==
    \/ Startup \/ EndStartup
    \/ EndDiff
    \/ \E p \in Pod :
          \/ DiffCreate(p)
          \/ Push(p) \/ PushFails(p) \/ Conflict(p) \/ Refetch(p) \/ RetryPush(p)

Environment ==
    \/ \E p \in Pod :
          \/ ClientCreates(p) \/ ClientEdits(p) \/ ClientDeletes(p)
          \/ ContainerExits(p)
    \/ StreamCloses
    \/ Crash \/ Shutdown

Next ==
    \/ Start \/ Continue \/ WatchEvent \/ Resync \/ Tick
    \/ \E p \in Pod : BackoffElapses(p)
    \/ Environment

Spec == Init /\ [][Next]_vars

(* The process is started again, its handlers run to their end, time       *)
(* passes, and the loop gets to the events of the stream and to both       *)
(* timers again and again.                                                 *)
Fairness ==
    /\ WF_vars(Start \/ Continue)
    /\ WF_vars(\E p \in Pod : BackoffElapses(p))
    /\ SF_vars(WatchEvent) /\ SF_vars(Resync) /\ SF_vars(Tick)

FairSpec == Spec /\ Fairness

-----------------------------------------------------------------------------
(* Properties *)

MapOf(S) == [Pod -> S \cup {Absent}]

(* Type invariant; the address pool holds only usable hosts, and nothing   *)
(* is being done for pods while the process is down or idle.               *)
TypeOK ==
    /\ api \in MapOf(Object)
    /\ history \in [Pod -> [lives : Nat, rv : Nat, lost : BOOLEAN]]
    /\ stream \in [open : BOOLEAN,
                   events : Seq([type : {"Set", "Deleted"}, pod : Pod, object : Object])]
    /\ host \in [Pod -> Containers]
    /\ pc \in {"down", "startup", "idle", "diff", "push", "refetch", "retry"}
    /\ todo \subseteq Pod
    /\ pc \in {"down", "idle"} => todo = {} /\ dirty = Nowhere
    /\ kubelet \in [cache : MapOf(Object), store : MapOf(Sandbox),
                    trackers : [Pod -> Tracker], pushed : MapOf(Status),
                    ipam : [next : Nat, released : SUBSET Host, allocated : SUBSET Host]]
    /\ dirty \in MapOf(Status)
    /\ mishaps \in 0..MaxMishaps

(* The pool over any sequence of allocations, reservations, rollbacks and  *)
(* releases: no address is free and in use, none is lost.                  *)
AllocatorSound == Sound(kubelet.ipam)

HasAddress(p) == host[p].pause /\ host[p].ip # NoIp

(* A name that is given to a second pod while the first one's events are   *)
(* still under way lets an old "Deleted" hit the new pod; the next two     *)
(* properties are about names that were not.                               *)
UsedOnce(p) == history[p].lives = 1

(* The address that the API shows for a pod is the one it has, also after  *)
(* the pod was rebuilt by another kubelet process (ensure_pod_ip: "Reuse   *)
(* an existing pod IP"), or a push was lost.                               *)
ShownAddressIsReal ==
    \A p \in Live :
        UsedOnce(p) /\ HasAddress(p) /\ api[p].status.ip # NoIp => api[p].status.ip = host[p].ip

(* Backoff trackers belong to pods that exist, or "the map grows           *)
(* unboundedly across Pod churn" (remove_pod).                             *)
TrackersBelongToPods ==
    \A p \in Pod : kubelet.trackers[p] # NoTracker => p \in Stored

(* A pod that nobody deletes keeps its sandbox and its address: neither a  *)
(* crash and restart of the kubelet, nor a resync, nor an old event tears  *)
(* it down.  Only a shutdown does.  (And, with Raft, the list of a replica *)
(* that has not come to the pod yet: see the head of this module.)         *)
LivePodsAreKept ==
    [][~Shutdown =>
          \A p \in Pod :
              UsedOnce(p) /\ HasAddress(p) /\ api[p] # Absent /\ api'[p] # Absent =>
                  host'[p].pause /\ host'[p].ip = host[p].ip]_<<host, api>>

(* What a failed start leaves behind and nothing repairs: a pause          *)
(* container that is in the way of the next create_pod, or a container     *)
(* that was created and never started.                                     *)
Wedged(p) == host[p].app = "Created" \/ (host[p].pause /\ p \notin Stored)

(* A failing sandbox.create keeps the address that was allocated for it,   *)
(* and again at every attempt if a pause container is in the way, until    *)
(* there is none left for any pod.                                         *)
Leaked(h) == h \in kubelet.ipam.allocated /\ \A q \in Pod : host[q].ip # h
Drained(p) ==
    /\ p \notin Stored
    /\ Allocate(kubelet.ipam).ip = NoIp
    /\ \E h \in Host : Leaked(h)

Settled(p) ==
    IF p \in Live
    THEN /\ host[p].pause /\ host[p].app = "Running" /\ p \in Stored
         /\ LET status == [phase |-> "Running", restarts |-> 0, ip |-> kubelet.store[p].ip]
            IN  kubelet.pushed[p] = status /\ (history[p].lost \/ api[p].status = status)
    ELSE host[p] = Nothing /\ p \notin Stored

(* When clients, crashes and failures have come to rest, every pod is      *)
(* running and reported, every deleted one gone; except where a failed     *)
(* start is in the way, and unless the watch stream has ended, after which *)
(* the kubelet's timers are never looked at again.  A lost reply is        *)
(* another exception: the server keeps that status if the pod returns to   *)
(* the one the kubelet remembers as pushed.  A pod that was recovered      *)
(* before its address had been reported is settled without one: what is    *)
(* reported then, and for ever, is that it has none.                       *)
Converges == <>[](Starved \/ \A p \in Pod : Wedged(p) \/ Drained(p) \/ Settled(p))
=============================================================================
