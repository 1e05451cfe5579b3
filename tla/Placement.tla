----------------------------- MODULE Placement -----------------------------
(***************************************************************************)
(* How pods come to nodes: the kubelets' registration and heartbeat        *)
(* (src/reconciler.rs), the scheduler (src/scheduler.rs), the handlers     *)
(* create_node and bind_pod between them (src/apiserver/handlers.rs), and  *)
(* people with mykubectl.                                                  *)
(*                                                                         *)
(* A handler that reads before it writes does so in separate steps, and it *)
(* goes on when its caller has given up: the caller was killed, lost the   *)
(* connection, or was told that the write timed out.                       *)
(*                                                                         *)
(* Reads are served by the store of the API server that is asked, and in   *)
(* Raft mode that replica may not have applied all that is committed: a    *)
(* follower lags, and a new leader passes ensure_leader before it has      *)
(* applied what its predecessor committed.  A lagging replica shows an     *)
(* earlier state until it has caught up; which replica answers is left     *)
(* open.                                                                   *)
(*                                                                         *)
(* The scheduler's work queue appears as WorkQueue.tla shows it to behave: *)
(* a set of keys, each of which some later get returns.  A key is in it    *)
(* from the moment that it is on its way there, in an event of the watch   *)
(* stream or in a retry timer.  Nodes and pods are numbered in the order   *)
(* of their names, which is the order of lists.                            *)
(***************************************************************************)
EXTENDS Api, Integers, FiniteSets

CONSTANTS
    NumNodes, NumPods,
    NoCidr,        \* Option::None for pod_cidr
    MaxIndex,      \* the last index of a /24 slice, 255 in the code
    MaxRestarts,   \* bound: kubelets that stop
    MaxMishaps     \* bound: commands of mykubectl, edits and deletions of
                   \* nodes, failing or delayed requests, missed heartbeats,
                   \* restarts of the scheduler, replicas that fall behind

Node  == 1..NumNodes
Pod   == 1..NumPods
Index == 0..MaxIndex
NoNode == 0      \* the node_name of an unscheduled pod

VARIABLES
    nodes,      \* [Node -> its object or Absent]
    kubelets,   \* [Node -> its kubelet]
    regs,       \* requests that are in create_node
    seen,       \* history: [Node -> the nodes that its registration saw]
    pods,       \* [Pod -> its node_name, NoNode, or Absent]
    binds,      \* requests that are in bind_pod
    sched,      \* the scheduler's worker
    queue,      \* the keys of its work queue
    behind,     \* the states that lagging replicas show
    ghosts,     \* history: nodes deleted while a lagging replica showed them
    doubtful,   \* history: pods of whose binding the scheduler has given up,
                \* or that it was shown without the node they had
    restarts,   \* kubelets that have stopped so far
    mishaps     \* mishaps so far

views     == <<behind, ghosts>>
nodeVars  == <<nodes, kubelets, regs, seen, views>>
schedVars == <<sched, queue>>
podVars   == <<pods, binds>>
vars == <<nodeVars, schedVars, podVars, doubtful, restarts, mishaps>>

-----------------------------------------------------------------------------
(* Values *)

(* "None": no status yet.  "Old": last_heartbeat_time is outside the window.*)
NodeObject == [cidr : Index \cup {NoCidr}, heartbeat : {"None", "Fresh", "Old"},
               unschedulable : BOOLEAN]

ASSUME PlacementAssumption ==
    /\ {NumNodes, NumPods, MaxIndex, MaxRestarts, MaxMishaps} \subseteq Nat
    /\ NoCidr \notin Int
    /\ Absent \notin Int /\ Absent \notin NodeObject

(* slice: what its allocator was built from, kept when it stops to compare *)
(* with its next life.                                                     *)
Kubelet == [pc : {"down", "posting", "get", "running"}, slice : Index \cup {NoCidr}]

(* waited: the caller still waits for the answer.                          *)
Registration == [node : Node, stage : {"check", "list", "create"},
                 idx : Index \cup {NoCidr}, seen : SUBSET Node, waited : BOOLEAN]
Binding == [pod : Pod, node : Node, read : {"not yet", "current", "stale"}, waited : BOOLEAN]

(* What list_or_watch_nodes lists of a store, and the unscheduled of its   *)
(* pods.                                                                   *)
Listed(obs) == {n \in Node : obs[n] # Absent}
Unscheduled(names) == {p \in Pod : names[p] = NoNode}
Registered == Listed(nodes)

(* A read sees the store as it is, or as a lagging replica shows it.       *)
Now == [nodes |-> nodes, pods |-> pods]
Views == {Now} \cup behind

Mishap == mishaps < MaxMishaps /\ mishaps' = mishaps + 1

-----------------------------------------------------------------------------
(* Registration of nodes *)

Smallest(S) == CHOOSE i \in S : \A j \in S : i <= j

(* next_free_node_cidr_index: one more than the largest in use.            *)
Used(obs) == {obs[n].cidr : n \in {m \in Node : obs[m] # Absent}} \ {NoCidr}
NextFreeCount(obs) == Cardinality(Used(obs))
NextFreeNodeCidrIndex(obs) == Smallest({i \in 0..MaxIndex + 1 : \A u \in Used(obs) : u < i})

ExhaustedLate(idx) == idx > MaxIndex + 1
Exhausted(idx) == idx > MaxIndex

(* register_node sends its request ...                                     *)
RegisterNode(n) ==
    /\ kubelets[n].pc = "down"
    /\ kubelets' = [kubelets EXCEPT ![n].pc = "posting"]
    /\ regs' = regs \cup {[node |-> n, stage |-> "check", idx |-> NoCidr,
                           seen |-> {}, waited |-> TRUE]}
    /\ UNCHANGED <<nodes, seen, views, schedVars, podVars, doubtful, restarts, mishaps>>

(* ... and gets the answer: AlreadyExists is as good as Ok, any other      *)
(* error ends the process.                                                 *)
Answered(r, e) ==
    IF ~ r.waited THEN kubelets
    ELSE [kubelets EXCEPT ![r.node].pc =
            IF ClientResult(e) \in {"Ok", "AlreadyExists"} THEN "get" ELSE "down"]

(* create_node: a slice is chosen only for a name that is not registered.  *)
CheckNode(r) ==
    /\ r.stage = "check"
    /\ \E v \in Views : regs' = (regs \ {r}) \cup
           {[r EXCEPT !.stage = IF v.nodes[r.node] = Absent THEN "list" ELSE "create"]}
    /\ UNCHANGED <<nodes, kubelets, seen, views, schedVars, podVars, doubtful, restarts, mishaps>>

(* The history remembers what the list showed as it is.                    *)
Shown(v) == {n \in Registered \cap Listed(v.nodes) : v.nodes[n].cidr = nodes[n].cidr}

ListNodes(r) ==
    /\ r.stage = "list"
    /\ \E v \in Views : \E idx \in {NextFreeNodeCidrIndex(v.nodes)} :
         IF Exhausted(idx)
         THEN /\ regs' = regs \ {r}
              /\ kubelets' = Answered(r, "Internal")
         ELSE /\ regs' = (regs \ {r}) \cup
                     {[r EXCEPT !.stage = "create", !.idx = idx, !.seen = Shown(v)]}
              /\ UNCHANGED kubelets
    /\ UNCHANGED <<nodes, seen, views, schedVars, podVars, doubtful, restarts, mishaps>>

(* The create itself drops the status that the kubelet sent.               *)
CreatedNode(r) == [cidr |-> r.idx, heartbeat |-> "None", unschedulable |-> FALSE]
CreateNodeUpserts(r) ==
    /\ r.stage = "create"
    /\ regs' = regs \ {r}
    /\ kubelets' = Answered(r, "Ok")
    /\ nodes' = [nodes EXCEPT ![r.node] = CreatedNode(r)]
    /\ seen' = [seen EXCEPT ![r.node] = r.seen]
    /\ UNCHANGED <<views, schedVars, podVars, doubtful, restarts, mishaps>>

CreateNode(r) ==
    /\ r.stage = "create"
    /\ regs' = regs \ {r}
    /\ kubelets' = Answered(r, CreateCheck(nodes[r.node]))
    /\ IF CreateCheck(nodes[r.node]) = "Ok"
       THEN /\ nodes' = [nodes EXCEPT ![r.node] = CreatedNode(r)]
            /\ seen' = [seen EXCEPT ![r.node] = r.seen]
       ELSE UNCHANGED <<nodes, seen>>
    /\ UNCHANGED <<views, schedVars, podVars, doubtful, restarts, mishaps>>

(* The kubelet gets no answer; its request was lost, or is still on its    *)
(* way through the handler.                                                *)
RegistrationAbandoned(r) ==
    /\ r.waited /\ Mishap
    /\ kubelets' = [kubelets EXCEPT ![r.node].pc = "down"]
    /\ \/ regs' = (regs \ {r}) \cup {[r EXCEPT !.waited = FALSE]}
       \/ regs' = regs \ {r}
    /\ UNCHANGED <<nodes, seen, views, schedVars, podVars, doubtful, restarts>>

(* startup goes on: it reads its slice back from the API server.           *)
LearnSlice(n) ==
    /\ kubelets[n].pc = "get"
    /\ \E v \in Views : kubelets' =
         IF v.nodes[n] = Absent THEN [kubelets EXCEPT ![n].pc = "down"]
         ELSE IF v.nodes[n].cidr = NoCidr THEN [kubelets EXCEPT ![n].pc = "down"]
         ELSE [kubelets EXCEPT ![n].pc = "running", ![n].slice = v.nodes[n].cidr]
    /\ UNCHANGED <<nodes, regs, seen, views, schedVars, podVars, doubtful, restarts, mishaps>>

KubeletStops(n) ==
    /\ kubelets[n].pc \in {"get", "running"}
    /\ restarts < MaxRestarts /\ restarts' = restarts + 1
    /\ kubelets' = [kubelets EXCEPT ![n].pc = "down"]
    /\ UNCHANGED <<nodes, regs, seen, views, schedVars, podVars, doubtful, mishaps>>

-----------------------------------------------------------------------------
(* Heartbeats and other writes of nodes *)

(* heartbeat_loop: GET the node, PUT its status with the version that was  *)
(* read.  One that was overtaken by another write, or that a lagging       *)
(* replica showed an old node, changes nothing, as in the commands below,  *)
(* and the next follows; a missing node is warned about, not registered    *)
(* again.  Heartbeats that come while the last is fresh would not change   *)
(* anything and are left out.                                              *)
ReplaceNodeStatus(n) == [nodes[n] EXCEPT !.heartbeat = "Fresh"]
Heartbeat(n) ==
    /\ kubelets[n].pc = "running"
    /\ nodes[n] # Absent /\ nodes[n].heartbeat # "Fresh"
    /\ nodes' = [nodes EXCEPT ![n] = ReplaceNodeStatus(n)]
    /\ UNCHANGED <<kubelets, regs, seen, views, schedVars, podVars, doubtful, restarts, mishaps>>

(* Three heartbeats fit in the window: it passes without one when the      *)
(* kubelet does not run, or through a mishap.  It passes for every copy.   *)
Aged(obs, n) == IF obs[n] # Absent /\ obs[n].heartbeat = "Fresh"
                THEN [obs EXCEPT ![n].heartbeat = "Old"] ELSE obs
HeartbeatAges(n) ==
    /\ nodes[n] # Absent /\ nodes[n].heartbeat = "Fresh"
    /\ \/ kubelets[n].pc # "running" /\ UNCHANGED mishaps
       \/ kubelets[n].pc = "running" /\ Mishap
    /\ nodes' = Aged(nodes, n)
    /\ behind' = {[v EXCEPT !.nodes = Aged(@, n)] : v \in behind}
    /\ UNCHANGED <<kubelets, regs, seen, ghosts, schedVars, podVars, doubtful, restarts>>

(* Somebody cordons a node (replace_node_spec) ...                         *)
Cordon(n) ==
    /\ nodes[n] # Absent /\ ~ nodes[n].unschedulable /\ Mishap
    /\ nodes' = [nodes EXCEPT ![n].unschedulable = TRUE]
    /\ UNCHANGED <<kubelets, regs, seen, views, schedVars, podVars, doubtful, restarts>>

(* ... or deletes it (delete_node).  What others saw of it is of no        *)
(* consequence any more.                                                   *)
DeleteNode(n) ==
    /\ nodes[n] # Absent /\ Mishap
    /\ nodes' = [nodes EXCEPT ![n] = Absent]
    /\ kubelets' = [kubelets EXCEPT ![n].slice = NoCidr]
    /\ seen' = [m \in Node |-> seen[m] \ {n}]
    /\ regs' = {[r EXCEPT !.seen = @ \ {n}] : r \in regs}
    /\ ghosts' = IF \E v \in behind : v.nodes[n] # Absent THEN ghosts \cup {n} ELSE ghosts
    /\ UNCHANGED <<behind, schedVars, podVars, doubtful, restarts>>

-----------------------------------------------------------------------------
(* Replicas *)

(* A follower does not get the leader's entries for a while, or a leader   *)
(* is elected that has not applied them all; in the end it catches up.     *)
FallsBehind ==
    /\ Mishap
    /\ behind' = behind \cup {Now}
    /\ UNCHANGED <<nodes, kubelets, regs, seen, ghosts, schedVars, podVars, doubtful, restarts>>

CatchesUp ==
    /\ \E v \in behind : behind' = behind \ {v}
    /\ UNCHANGED <<nodes, kubelets, regs, seen, ghosts, schedVars, podVars, doubtful, restarts,
                   mishaps>>

-----------------------------------------------------------------------------
(* Pods *)

(* What a write of p does to copies that others hold.                      *)
StaleBind(b, p) == IF b.pod = p /\ b.read = "current" THEN [b EXCEPT !.read = "stale"] ELSE b
StaleBinds(bs, p) == {StaleBind(b, p) : b \in bs}

(* The event of a write.  pod_informer enqueues unscheduled pods, also     *)
(* deleted ones; the event may be lost in the gap that Watch.tla shows.    *)
PodInformer(p, node) ==
    \/ queue' = IF node = NoNode THEN queue \cup {p} ELSE queue
    \/ node = NoNode /\ UNCHANGED queue

(* mykubectl.  Its commands GET the pod and write with the version they    *)
(* read: what was overtaken by another write fails and changes nothing,    *)
(* the rest is as if both were one step.  A file that is applied names no  *)
(* node, whether it creates the pod (create_pod) or replaces its spec      *)
(* (replace_pod_spec).                                                     *)
Apply(p) ==
    /\ Mishap
    /\ pods' = [pods EXCEPT ![p] = NoNode]
    /\ binds' = StaleBinds(binds, p)
    /\ PodInformer(p, NoNode)
    /\ UNCHANGED <<nodeVars, sched, doubtful, restarts>>

(* delete_pod *)
DeletePod(p) ==
    /\ pods[p] # Absent
    /\ Mishap
    /\ pods' = [pods EXCEPT ![p] = Absent]
    /\ binds' = StaleBinds(binds, p)
    /\ PodInformer(p, pods[p])
    /\ UNCHANGED <<nodeVars, sched, doubtful, restarts>>

(* The kubelet of a pod's node writes its status (replace_pod_status).     *)
ReplacePodStatus(p) ==
    /\ pods[p] \in Node
    /\ binds' = StaleBinds(binds, p)
    /\ UNCHANGED <<nodeVars, schedVars, pods, doubtful, restarts, mishaps>>

-----------------------------------------------------------------------------
(* The scheduler *)

Idle == [pc |-> "idle", key |-> NoNode, candidates |-> {}]

(* resync_loop.  pod_informer does the same when its stream has ended: the *)
(* watch from version 0 reports every pod again.                           *)
ResyncNothing ==
    /\ queue' = queue \cup {}
    /\ UNCHANGED <<nodeVars, podVars, sched, doubtful, restarts, mishaps>>

Resync ==
    /\ \E v \in Views : queue' = queue \cup Unscheduled(v.pods)
    /\ UNCHANGED <<nodeVars, podVars, sched, doubtful, restarts, mishaps>>

(* worker_loop: the next key; schedule returned Ok; it returned an error.  *)
TakeKey(p) ==
    /\ sched.pc = "idle" /\ p \in queue
    /\ sched' = [Idle EXCEPT !.pc = "pod", !.key = p]
    /\ queue' = queue \ {p}
    /\ UNCHANGED <<nodeVars, podVars, doubtful, restarts, mishaps>>

Scheduled(waits) ==
    /\ sched' = IF waits THEN Idle ELSE sched
    /\ UNCHANGED queue
NotScheduled(waits) ==
    /\ sched' = IF waits THEN Idle ELSE sched
    /\ queue' = IF waits THEN queue \cup {sched.key} ELSE queue

(* schedule: a pod that is gone or placed needs nothing.                   *)
ExistsOnly(name) == name # Absent
NeedsNode(name) == name = NoNode
GetPod ==
    /\ sched.pc = "pod"
    /\ \E v \in Views :
         IF NeedsNode(v.pods[sched.key])
         THEN /\ sched' = [sched EXCEPT !.pc = "nodes"]
              /\ doubtful' = IF v.pods[sched.key] = NoNode /\ pods[sched.key] \in Node
                             THEN doubtful \cup {sched.key} ELSE doubtful
              /\ UNCHANGED queue
         ELSE Scheduled(TRUE) /\ UNCHANGED doubtful
    /\ UNCHANGED <<nodeVars, podVars, restarts, mishaps>>

(* Node::is_ready, is_schedulable *)
IsReady(node) == node.heartbeat = "Fresh"
IsSchedulable(node) == ~ node.unschedulable /\ IsReady(node)

Candidates ==
    /\ sched.pc = "nodes"
    /\ \E v \in Views : \E c \in {{n \in Listed(v.nodes) : IsSchedulable(v.nodes[n])}} :
         IF c = {} THEN NotScheduled(TRUE)
         ELSE sched' = [sched EXCEPT !.pc = "pods", !.candidates = c] /\ UNCHANGED queue
    /\ UNCHANGED <<nodeVars, podVars, doubtful, restarts, mishaps>>

(* The candidate with the fewest pods, the first of several.               *)
Load(names, n) == Cardinality({p \in Pod : names[p] = n})
LeastLoaded(names, c) == Smallest({n \in c : \A m \in c : Load(names, n) <= Load(names, m)})

SendBinding ==
    /\ sched.pc = "pods"
    /\ \E v \in Views :
         binds' = binds \cup {[pod |-> sched.key, node |-> LeastLoaded(v.pods, sched.candidates),
                               read |-> "not yet", waited |-> TRUE]}
    /\ sched' = [Idle EXCEPT !.pc = "waiting", !.key = sched.key]
    /\ UNCHANGED <<nodeVars, pods, queue, doubtful, restarts, mishaps>>

(* bind_pod reads the pod; what a lagging replica still has as it is       *)
(* stored counts as read from the store ...                                *)
BindRead(b) ==
    /\ b.read = "not yet"
    /\ \E v \in Views :
         IF v.pods[b.pod] = Absent
         THEN binds' = binds \ {b} /\ NotScheduled(b.waited)
         ELSE /\ binds' = (binds \ {b}) \cup
                     {[b EXCEPT !.read = IF v = Now THEN "current" ELSE "stale"]}
              /\ UNCHANGED schedVars
    /\ UNCHANGED <<nodeVars, pods, doubtful, restarts, mishaps>>

(* ... and replaces its spec by what it has read with the node's name in   *)
(* it, whether there was one before or not.                                *)
BindWrite(b) ==
    /\ b.read # "not yet"
    /\ IF RvCheck(pods[b.pod], b.read = "current") = "Ok"
       THEN /\ pods' = [pods EXCEPT ![b.pod] = b.node]
            /\ binds' = StaleBinds(binds \ {b}, b.pod)
            /\ Scheduled(b.waited)
       ELSE /\ binds' = binds \ {b}
            /\ UNCHANGED pods
            /\ NotScheduled(b.waited)
    /\ UNCHANGED <<nodeVars, doubtful, restarts, mishaps>>

(* The scheduler gets no answer: the request is lost, or still under way,  *)
(* in the handler or as a command that has not been applied.               *)
BindingAbandoned(b) ==
    /\ b.waited /\ Mishap
    /\ \/ binds' = (binds \ {b}) \cup {[b EXCEPT !.waited = FALSE]}
       \/ binds' = binds \ {b}
    /\ doubtful' = doubtful \cup {b.pod}
    /\ NotScheduled(TRUE)
    /\ UNCHANGED <<nodeVars, pods, restarts>>

(* One of its other requests fails.                                        *)
RequestFails ==
    /\ sched.pc \in {"pod", "nodes", "pods"} /\ Mishap
    /\ NotScheduled(TRUE)
    /\ UNCHANGED <<nodeVars, podVars, doubtful, restarts>>

(* The scheduler is killed and started again: its queue was in memory, and *)
(* its new watch reports all pods.                                         *)
SchedulerRestarts ==
    /\ Mishap
    /\ sched' = Idle /\ \E v \in Views : queue' = Unscheduled(v.pods)
    /\ binds' = {[b EXCEPT !.waited = FALSE] : b \in binds}
    /\ doubtful' = doubtful \cup {b.pod : b \in binds}
    /\ UNCHANGED <<nodeVars, pods, restarts>>

-----------------------------------------------------------------------------
(* The cluster starts; some pods may have been created already.            *)
Init ==
    /\ nodes = [n \in Node |-> Absent]
    /\ kubelets = [n \in Node |-> [pc |-> "down", slice |-> NoCidr]]
    /\ regs = {}
    /\ seen = [n \in Node |-> {}]
    /\ pods \in [Pod -> {NoNode, Absent}]
    /\ binds = {}
    /\ sched = Idle /\ queue = Unscheduled(pods)
    /\ behind = {} /\ ghosts = {} /\ doubtful = {} /\ restarts = 0 /\ mishaps = 0

Registering(r) == CheckNode(r) \/ ListNodes(r) \/ CreateNode(r)
KubeletStep(n) == RegisterNode(n) \/ LearnSlice(n) \/ Heartbeat(n)
SchedulerStep == GetPod \/ Candidates \/ SendBinding
BindStep(b) == BindRead(b) \/ BindWrite(b)

NodeMishap(n) == KubeletStops(n) \/ Cordon(n) \/ DeleteNode(n)

Next ==
    \/ \E n \in Node : KubeletStep(n) \/ HeartbeatAges(n) \/ NodeMishap(n)
    \/ \E r \in regs : Registering(r) \/ RegistrationAbandoned(r)
    \/ \E p \in Pod : \/ Apply(p) \/ DeletePod(p)
                      \/ ReplacePodStatus(p) \/ TakeKey(p)
    \/ Resync \/ SchedulerStep \/ RequestFails \/ SchedulerRestarts
    \/ \E b \in binds : BindStep(b) \/ BindingAbandoned(b)
    \/ FallsBehind \/ CatchesUp

Spec == Init /\ [][Next]_vars

(* Stopped kubelets are started again, and a kubelet, the handlers, the    *)
(* scheduler and lagging replicas get on with what they do.  TakeKey is    *)
(* strongly fair because the queue is first in, first out.                 *)
Fairness ==
    /\ \A n \in Node : /\ WF_vars(KubeletStep(n))
                       /\ WF_vars(\E r \in regs : r.node = n /\ Registering(r))
    /\ \A p \in Pod : /\ SF_vars(TakeKey(p))
                      /\ WF_vars(\E b \in binds : b.pod = p /\ BindStep(b))
    /\ WF_vars(SchedulerStep) /\ WF_vars(Resync) /\ WF_vars(CatchesUp)

FairSpec == Spec /\ Fairness

-----------------------------------------------------------------------------
(* Properties *)

TypeOK ==
    /\ nodes \in [Node -> NodeObject \cup {Absent}]
    /\ kubelets \in [Node -> Kubelet]
    /\ regs \subseteq Registration
    /\ seen \in [Node -> SUBSET Node]
    /\ pods \in [Pod -> Node \cup {NoNode, Absent}]
    /\ binds \subseteq Binding
    /\ sched \in [pc : {"idle", "pod", "nodes", "pods", "waiting"}, key : Pod \cup {NoNode},
                  candidates : SUBSET Node]
    /\ behind \subseteq [nodes : [Node -> NodeObject \cup {Absent}],
                          pods : [Pod -> Node \cup {NoNode, Absent}]]
    /\ queue \subseteq Pod /\ doubtful \subseteq Pod /\ ghosts \subseteq Node
    /\ restarts \in 0..MaxRestarts /\ mishaps \in 0..MaxMishaps

HasSlice(n) == n \in Registered /\ nodes[n].cidr # NoCidr

(* create_node never gives a node the slice of one that its list showed,   *)
(* however late it creates the node, whoever has registered, been deleted  *)
(* or registered again meanwhile.  So two nodes have the same slice only   *)
(* if the list for either did not show the other as it is: their           *)
(* registrations overlapped, or the leader lagged.                         *)
SeenSlicesDiffer ==
    \A m, n \in Node : m # n /\ HasSlice(m) /\ HasSlice(n) /\ m \in seen[n]
                         => nodes[m].cidr # nodes[n].cidr

(* A kubelet that is restarted, also one whose first registration is still *)
(* on its way, finds the slice of its pods' addresses again, unless its    *)
(* Node was deleted: a replica that lagged then may show the old one.      *)
SlicesSurviveRestarts ==
    [][\A n \in Node \ ghosts : kubelets[n].slice # NoCidr /\ kubelets'[n].slice # NoCidr
                                  => kubelets'[n].slice = kubelets[n].slice]_vars

(* bind_pod moves a pod from the node that may run it to another one only  *)
(* if the scheduler once gave up waiting for its answer, or was shown the  *)
(* pod without the node it had.  (An Apply takes a pod off its node        *)
(* first; that it may be placed elsewhere afterwards is what it asks for.) *)
PlacedPodsStayPut ==
    [][\A p \in Pod \ doubtful : pods[p] \in Node /\ pods'[p] \in Node => pods'[p] = pods[p]]_vars

(* A node on which nothing can be placed any more: its kubelet runs and    *)
(* does not register again after the Node was deleted; it was deleted      *)
(* between the check and the create of a registration and is stored        *)
(* without a slice; or every index up to MaxIndex is below one in use.     *)
Hopeless(n) ==
    IF nodes[n] = Absent
    THEN kubelets[n].pc = "running" \/ NextFreeNodeCidrIndex(nodes) > MaxIndex
    ELSE nodes[n].cidr = NoCidr

(* Whatever happened to registrations, heartbeats and kubelets, a node is  *)
(* Ready again and again, unless it is hopeless.                           *)
NodesBecomeReady ==
    \A n \in Node : []<>((nodes[n] # Absent /\ IsReady(nodes[n])) \/ Hopeless(n))

(* Every unscheduled pod is placed or deleted, though events, requests and *)
(* the scheduler's queue may be lost and nodes may come late, unless all   *)
(* nodes are hopeless or cordoned.                                         *)
EveryPodIsPlaced ==
    \A p \in Pod : pods[p] = NoNode ~>
        \/ pods[p] # NoNode
        \/ \A n \in Node : Hopeless(n) \/ (nodes[n] # Absent /\ nodes[n].unschedulable)
=============================================================================
