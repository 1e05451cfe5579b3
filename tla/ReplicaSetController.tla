----------------------- MODULE ReplicaSetController -----------------------
(***************************************************************************)
(* The ReplicaSet controller: reconcile of src/controller/replicaset.rs    *)
(* and the informers, resync and worker of src/controller/manager.rs,      *)
(* against an API server that people and kubelets write to at any moment.  *)
(*                                                                         *)
(* reconcile reads the set, lists the pods, and then sends one request     *)
(* after the other with the versions it has read; every request is a step. *)
(* A write that carries a version succeeds if the copy it was made from is *)
(* current (Api.tla): `current` and `fresh` say which copies are.          *)
(*                                                                         *)
(* Reads and watches are served by the store of the API server that the    *)
(* controller-manager talks to, writes by the leader's.  In Raft mode that *)
(* replica may lag: it then stands still until it has caught up with       *)
(* everything.  A request that the controller has given up may have been   *)
(* lost, or happen later, when the object is still as it was read.         *)
(*                                                                         *)
(* The work queue appears as in Placement.tla: a set of keys, from the     *)
(* moment that an event or a retry timer is going to add them.  Labels are *)
(* reduced to what the selectors make of them: all pods here match.        *)
(***************************************************************************)
EXTENDS Api, Integers, FiniteSets

CONSTANTS
    NumSets,       \* names of ReplicaSets
    NumPods,       \* names of pods, as many as can exist at once
    MaxReplicas,   \* bound: spec.replicas
    MaxEdits,      \* bound: writes by people and kubelets
    MaxMishaps     \* bound: lost events, failing or late requests, restarts,
                   \* times that the controller's replica falls behind

ReplicaSet == 1..NumSets
Pod == 1..NumPods
NoOwner == 0                   \* a pod without controller
NoPod == 0                     \* a request that names none
Foreign == NumSets + 1         \* a pod that something else controls

VARIABLES
    sets,      \* [ReplicaSet -> its object or Absent]
    pods,      \* [Pod -> its object or Absent]
    ctl,       \* the worker and what reconcile has read
    queue,     \* the keys of the work queue
    local,     \* what the controller's replica shows while it lags, and the
               \* keys of the events that it has not sent; else Absent
    newer,     \* the objects that have been written while it lags
    late,      \* requests that the controller has given up and that may
               \* still happen
    missed,    \* history: sets of whose deletion, or of the deletion of one
               \* of whose pods, the controller does not know that it failed
    edits, mishaps

copies == <<newer, late>>
vars == <<sets, pods, ctl, queue, local, copies, missed, edits, mishaps>>
apiVars == <<sets, pods, edits>>

-----------------------------------------------------------------------------
(* Values *)

(* ReplicaSetStatus; observed: observed_generation is the generation of    *)
(* the spec.                                                               *)
Status == [replicas : 0..NumPods, ready : 0..NumPods, observed : BOOLEAN]
NoStatus == [replicas |-> 0, ready |-> 0, observed |-> FALSE]

SetObject == [replicas : 0..MaxReplicas, status : Status]
PodObject == [owner : ReplicaSet \cup {NoOwner, Foreign}, ready : BOOLEAN]
Replica == [sets : [ReplicaSet -> SetObject \cup {Absent}], pods : [Pod -> PodObject \cup {Absent}],
            events : SUBSET ReplicaSet]

(* nr tells apart two that are otherwise the same.                         *)
Request == [op : {"create", "adopt", "delete", "status"}, set : ReplicaSet, pod : Pod \cup {NoPod},
            status : Status, nr : 0..MaxMishaps]

ASSUME ControllerAssumption ==
    /\ {NumSets, NumPods, MaxReplicas, MaxEdits, MaxMishaps} \subseteq Nat
    /\ Absent \notin SetObject /\ Absent \notin PodObject /\ Absent \notin Replica

(* What is read: the store, or what a lagging replica shows.               *)
Seen == IF local = Absent THEN [sets |-> sets, pods |-> pods, events |-> {}] ELSE local

(* What list_or_watch_pods lists of a store.                               *)
Listed(obs) == {p \in Pod : obs[p] # Absent}
Existing == Listed(pods)
NewName == CHOOSE p \in Pod \ Existing : TRUE   \* which one does not matter
(* What list_or_watch_replicasets lists.                                   *)
ExistingSets(obs) == {r \in ReplicaSet : obs[r] # Absent}

(* is_owned_by: the owner is compared by name, so a set that is created    *)
(* again under its old name gets its pods back.                            *)
IsOwnedBy(p, r) == pods[p] # Absent /\ pods[p].owner = r
OwnedIn(obs, r) == {p \in Listed(obs) : obs[p].owner = r}
Owned(r) == OwnedIn(pods, r)

(* can_adopt *)
CanAdopt(pod) == pod.owner = NoOwner

(* update_status: what it finds.                                           *)
CurrentStatus(obs, r) ==
    [replicas |-> Cardinality(OwnedIn(obs, r)),
     ready    |-> Cardinality({p \in OwnedIn(obs, r) : obs[p].ready}),
     observed |-> TRUE]

Mishap == mishaps < MaxMishaps /\ mishaps' = mishaps + 1
Edit == edits < MaxEdits /\ edits' = edits + 1

Idle == [pc |-> "idle", key |-> NoOwner, desired |-> 0, turns |-> 0,
         status |-> NoStatus, current |-> FALSE, fresh |-> {}, adopt |-> {}, owned |-> {},
         unseen |-> FALSE]

-----------------------------------------------------------------------------
(* Events *)

(* rs_informer and pod_informer (rs_key_for_pod): what an event enqueues,  *)
(* when the controller's replica has come to it.  A lost event, be it in   *)
(* the gap of Watch.tla or with a stream that ends, is a mishap; that of a *)
(* deleted set is not repeated by resync_loop.                             *)
Enqueue(keys) ==
    \/ /\ IF local = Absent
          THEN queue' = queue \cup (keys \cap ReplicaSet) /\ UNCHANGED local
          ELSE local' = [local EXCEPT !.events = @ \cup (keys \cap ReplicaSet)] /\ UNCHANGED queue
       /\ UNCHANGED <<missed, mishaps>>
    \/ /\ keys \cap ReplicaSet # {} /\ Mishap
       /\ UNCHANGED <<queue, local>>
       /\ missed' = missed \cup {r \in keys \cap ReplicaSet : sets'[r] = Absent}

(* A stream that is opened again from version 0 reports all that exists.   *)
Reported == ExistingSets(Seen.sets)
            \cup ({Seen.pods[p].owner : p \in Listed(Seen.pods)} \cap ReplicaSet)
InformerReconnects ==
    /\ queue' = queue \cup Reported
    /\ UNCHANGED <<sets, pods, ctl, local, copies, missed, edits, mishaps>>

(* resync_loop: all sets that exist.                                       *)
ResyncNothing ==
    /\ queue' = queue \cup {}
    /\ UNCHANGED <<sets, pods, ctl, local, copies, missed, edits, mishaps>>
Resync ==
    /\ queue' = queue \cup ExistingSets(Seen.sets)
    /\ UNCHANGED <<sets, pods, ctl, local, copies, missed, edits, mishaps>>

(* The replica does not get the leader's entries for a while.  When it has *)
(* caught up, its watches have sent what they had not.                     *)
FallsBehind ==
    /\ local = Absent /\ Mishap
    /\ local' = Seen
    /\ UNCHANGED <<apiVars, ctl, queue, copies, missed>>

CatchesUp ==
    /\ local # Absent
    /\ local' = Absent /\ queue' = queue \cup local.events
    /\ newer' = {}
    /\ UNCHANGED <<apiVars, ctl, late, missed, mishaps>>

-----------------------------------------------------------------------------
(* People and kubelets *)

OutdatedSet(r) == IF ctl.key = r THEN [ctl EXCEPT !.current = FALSE] ELSE ctl
OutdatedPod(p) == [ctl EXCEPT !.fresh = @ \ {p}]

(* After a write, a request with the version from before can only fail,    *)
(* and what a lagging replica shows is out of date.                        *)
Written(kind, name) == newer' = IF local = Absent THEN {} ELSE newer \cup {<<kind, name>>}
SetChanges(r) == Written("set", r) /\ late' = {l \in late : ~ (l.op = "status" /\ l.set = r)}
PodChanges(p) == Written("pod", p) /\ late' = {l \in late : l.pod # p}

CreateReplicaSet(n) == [replicas |-> n, status |-> NoStatus]

(* The status stays, and then is about an earlier generation.              *)
ReplaceReplicaSetSpec(r, n) == [sets[r] EXCEPT !.replicas = n, !.status.observed = FALSE]

(* mykubectl apply of a ReplicaSet *)
ApplySet(r, n) ==
    /\ Edit
    /\ sets' = [sets EXCEPT ![r] = IF @ = Absent THEN CreateReplicaSet(n)
                                   ELSE ReplaceReplicaSetSpec(r, n)]
    /\ ctl' = OutdatedSet(r)
    /\ SetChanges(r)
    /\ Enqueue({r})
    /\ UNCHANGED pods

DeleteSet(r) ==
    /\ sets[r] # Absent /\ Edit
    /\ sets' = [sets EXCEPT ![r] = Absent]
    /\ ctl' = OutdatedSet(r)
    /\ SetChanges(r)
    /\ Enqueue({r})
    /\ UNCHANGED pods

(* mykubectl apply of a pod: a new one has no owner, and replacing one     *)
(* takes its owner away, since the file names none.                        *)
ApplyPod(p) ==
    /\ Edit
    /\ p \notin Existing => p = NewName
    /\ pods' = [pods EXCEPT ![p] = [owner |-> NoOwner,
                                    ready |-> IF @ = Absent THEN FALSE ELSE @.ready]]
    /\ ctl' = OutdatedPod(p) /\ PodChanges(p)
    /\ UNCHANGED <<sets, queue, local, missed, mishaps>>

DeletePod(p) ==
    /\ pods[p] # Absent /\ Edit
    /\ UNCHANGED sets
    /\ pods' = [pods EXCEPT ![p] = Absent]
    /\ ctl' = OutdatedPod(p) /\ PodChanges(p)
    /\ Enqueue({pods[p].owner})

(* The kubelet reports that the pod has become, or ceased to be, ready.    *)
ReplacePodStatus(p) ==
    /\ pods[p] # Absent /\ Edit
    /\ UNCHANGED sets
    /\ pods' = [pods EXCEPT ![p].ready = ~ @]
    /\ ctl' = OutdatedPod(p) /\ PodChanges(p)
    /\ Enqueue({pods[p].owner})

-----------------------------------------------------------------------------
(* reconcile *)

(* worker_loop *)
TakeKey(r) ==
    /\ ctl.pc = "idle" /\ r \in queue
    /\ ctl' = [Idle EXCEPT !.pc = "get", !.key = r]
    /\ queue' = queue \ {r}
    /\ UNCHANGED <<apiVars, local, copies, missed, mishaps>>

(* reconcile returns an error: the key comes back after some time.         *)
Retry ==
    /\ ctl' = Idle
    /\ queue' = queue \cup {ctl.key}

(* The controller gives up a request; it is lost, or will happen, unless   *)
(* the object has been written since it was read.                          *)
GiveUp(op, p, status, current) ==
    /\ Mishap
    /\ UNCHANGED newer
    /\ \/ UNCHANGED late
       \/ current /\ late' = late \cup {[op |-> op, set |-> ctl.key, pod |-> p,
                                        status |-> status, nr |-> mishaps]}

(* Does a replica show the object as it is stored?                         *)
Current(kind, name) == <<kind, name>> \notin newer
Fresh == {p \in Listed(Seen.pods) : Current("pod", p)}

GetIgnoresMissing ==
    /\ ctl.pc = "get"
    /\ ctl' = IF Seen.sets[ctl.key] = Absent THEN Idle
              ELSE [ctl EXCEPT !.pc = "list", !.desired = Seen.sets[ctl.key].replicas,
                               !.status = Seen.sets[ctl.key].status,
                               !.current = Current("set", ctl.key)]
    /\ UNCHANGED <<apiVars, queue, local, copies, missed, mishaps>>
GetReplicaSet ==
    /\ ctl.pc = "get"
    /\ ctl' = IF Seen.sets[ctl.key] = Absent THEN [ctl EXCEPT !.pc = "gone"]
              ELSE [ctl EXCEPT !.pc = "list", !.desired = Seen.sets[ctl.key].replicas,
                               !.status = Seen.sets[ctl.key].status,
                               !.current = Current("set", ctl.key)]
    /\ UNCHANGED <<apiVars, queue, local, copies, missed, mishaps>>

(* unseen: the set has pods that reconcile does not know as its own.       *)
ListPods ==
    /\ ctl.pc = "list"
    /\ ctl' = [ctl EXCEPT !.pc = "scale", !.fresh = Fresh, !.owned = OwnedIn(Seen.pods, ctl.key),
                          !.adopt = {p \in Listed(Seen.pods) : CanAdopt(Seen.pods[p])},
                          !.unseen = ~ (Owned(ctl.key) \subseteq OwnedIn(Seen.pods, ctl.key))]
    /\ UNCHANGED <<apiVars, queue, local, copies, missed, mishaps>>

(* adopt: PUT of the listed copy with the owner added.  Whether it works   *)
(* or not, the loop goes on; what did not work is not counted as owned,    *)
(* nor what worked without an answer.                                      *)
Adopt(p) ==
    /\ ctl.pc = "scale" /\ p \in ctl.adopt
    /\ UNCHANGED <<sets, edits>>
    /\ \/ /\ RvCheck(pods[p], p \in ctl.fresh) = "Ok"
          /\ pods' = [pods EXCEPT ![p].owner = ctl.key]
          /\ ctl' = [ctl EXCEPT !.adopt = @ \ {p}, !.owned = @ \cup {p}]
          /\ PodChanges(p)
          /\ Enqueue({ctl.key})
       \/ /\ \/ RvCheck(pods[p], p \in ctl.fresh) # "Ok" /\ UNCHANGED <<copies, mishaps>>
             \/ GiveUp("adopt", p, NoStatus, p \in ctl.fresh)
          /\ ctl' = [ctl EXCEPT !.adopt = @ \ {p}]
          /\ UNCHANGED <<pods, queue, local, missed>>

Missing == ctl.desired - Cardinality(ctl.owned) - ctl.turns
Scaling == ctl.pc = "scale" /\ ctl.adopt = {}

(* The pod that pod_from_template makes has a new name.                    *)
NewPod(r) == [pods EXCEPT ![NewName] = [owner |-> r, ready |-> FALSE]]

(* create_pod, as often as pods are missing.  A creation may fail, the     *)
(* name being taken or the server away, or the answer does not come and    *)
(* the pod appears later or never: all the same to the loop, which counts  *)
(* its turns.                                                              *)
CreateOneMore == Missing >= 0
CreateMissing == Missing > 0
CreatePod ==
    /\ Scaling /\ CreateMissing
    /\ UNCHANGED <<sets, edits>>
    /\ ctl' = [ctl EXCEPT !.turns = @ + 1]
    /\ \/ Existing # Pod /\ pods' = NewPod(ctl.key) /\ Enqueue({ctl.key}) /\ UNCHANGED copies
       \/ Existing = Pod /\ UNCHANGED <<pods, queue, local, copies, missed, mishaps>>
       \/ /\ GiveUp("create", NoPod, NoStatus, TRUE)
          /\ UNCHANGED <<pods, queue, local, missed>>

(* The surplus goes, oldest first; the order of creation is left out, so   *)
(* any owned pod may be the next.                                          *)
DeleteUnchecked(p) == pods[p] # Absent
DeleteAllowed(p) == RvCheck(pods[p], p \in ctl.fresh) = "Ok"
DeleteSurplus(p) ==
    /\ Scaling /\ Missing < 0 /\ p \in ctl.owned
    /\ UNCHANGED <<sets, edits>>
    /\ ctl' = [ctl EXCEPT !.owned = @ \ {p}]
    /\ \/ /\ DeleteAllowed(p)
          /\ pods' = [pods EXCEPT ![p] = Absent]
          /\ PodChanges(p)
          /\ Enqueue({ctl.key})
       \/ /\ \/ ~ DeleteAllowed(p) /\ UNCHANGED <<copies, mishaps>>
             \/ GiveUp("delete", p, NoStatus, DeleteAllowed(p))
          /\ UNCHANGED <<pods, queue, local, missed>>

(* update_status: lists again, and writes what has changed.                *)
AlwaysChanged(s) == TRUE
StatusChanged(s) == s # ctl.status
UpdateStatus ==
    /\ Scaling /\ Missing = 0
    /\ \E s \in {CurrentStatus(Seen.pods, ctl.key)} :
         ctl' = IF StatusChanged(s)
                THEN [Idle EXCEPT !.pc = "put", !.key = ctl.key,
                                  !.status = s, !.current = ctl.current]
                ELSE Idle
    /\ UNCHANGED <<apiVars, queue, local, copies, missed, mishaps>>

ReplaceReplicaSetStatus(r, s) == [sets EXCEPT ![r].status = s]
PutStatus ==
    /\ ctl.pc = "put"
    /\ \/ /\ RvCheck(sets[ctl.key], ctl.current) = "Ok"
          /\ sets' = ReplaceReplicaSetStatus(ctl.key, ctl.status)
          /\ ctl' = Idle
          /\ SetChanges(ctl.key)
          /\ Enqueue({ctl.key})
       \/ /\ \/ RvCheck(sets[ctl.key], ctl.current) # "Ok" /\ UNCHANGED <<copies, mishaps>>
             \/ GiveUp("status", NoPod, ctl.status, RvCheck(sets[ctl.key], ctl.current) = "Ok")
          /\ Retry
          /\ UNCHANGED <<sets, local, missed>>
    /\ UNCHANGED <<pods, edits>>

(* What was given up happens after all.                                    *)
LateCreate(l) ==
    /\ l.op = "create" /\ Existing # Pod
    /\ pods' = NewPod(l.set) /\ UNCHANGED sets
    /\ ctl' = [ctl EXCEPT !.unseen = @ \/ ctl.key = l.set]
    /\ late' = late \ {l} /\ UNCHANGED newer

LateAdopt(l) ==
    /\ l.op = "adopt"
    /\ pods' = [pods EXCEPT ![l.pod].owner = l.set] /\ UNCHANGED sets
    /\ ctl' = [OutdatedPod(l.pod) EXCEPT !.unseen = @ \/ ctl.key = l.set]
    /\ PodChanges(l.pod)

LateDelete(l) ==
    /\ l.op = "delete"
    /\ pods' = [pods EXCEPT ![l.pod] = Absent] /\ UNCHANGED sets
    /\ ctl' = OutdatedPod(l.pod)
    /\ PodChanges(l.pod)

LateStatus(l) ==
    /\ l.op = "status"
    /\ sets' = ReplaceReplicaSetStatus(l.set, l.status) /\ UNCHANGED pods
    /\ ctl' = OutdatedSet(l.set)
    /\ SetChanges(l.set)

Happens(l) ==
    /\ LateCreate(l) \/ LateAdopt(l) \/ LateDelete(l) \/ LateStatus(l)
    /\ Enqueue({l.set})
    /\ UNCHANGED edits

(* cascade_delete: its list, ...                                           *)
CascadeList ==
    /\ ctl.pc = "gone"
    /\ ctl' = [ctl EXCEPT !.pc = "cascade", !.fresh = Fresh, !.owned = OwnedIn(Seen.pods, ctl.key)]
    /\ UNCHANGED <<apiVars, queue, local, copies, missed, mishaps>>

(* ... and one request per pod.  Its result is ignored.                    *)
CascadeDelete(p) ==
    /\ ctl.pc = "cascade" /\ p \in ctl.owned
    /\ UNCHANGED <<sets, edits>>
    /\ ctl' = [ctl EXCEPT !.owned = @ \ {p}]
    /\ \/ /\ DeleteAllowed(p)
          /\ pods' = [pods EXCEPT ![p] = Absent]
          /\ PodChanges(p)
          /\ Enqueue({ctl.key})
       \/ /\ ~ DeleteAllowed(p)
          /\ UNCHANGED <<pods, queue, local, copies, missed, mishaps>>
       \/ /\ GiveUp("delete", p, NoStatus, DeleteAllowed(p))
          /\ missed' = missed \cup {ctl.key}
          /\ UNCHANGED <<pods, queue, local>>

CascadeDone ==
    /\ ctl.pc = "cascade" /\ ctl.owned = {}
    /\ ctl' = Idle
    /\ UNCHANGED <<apiVars, queue, local, copies, missed, mishaps>>

(* One of the reads fails.                                                 *)
RequestFails ==
    /\ \/ ctl.pc \in {"get", "list", "gone"}
       \/ Scaling /\ Missing = 0
    /\ Mishap /\ Retry
    /\ UNCHANGED <<apiVars, local, copies, missed>>

(* The controller-manager is killed and started again.                     *)
Restart ==
    /\ Mishap
    /\ ctl' = Idle
    /\ queue' = Reported
    /\ UNCHANGED <<apiVars, local, copies, missed>>

-----------------------------------------------------------------------------
(* Sets may exist before the controller starts, and pods that people or    *)
(* other controllers made.                                                 *)
Init ==
    /\ sets \in [ReplicaSet -> [replicas : 0..MaxReplicas, status : {NoStatus}] \cup {Absent}]
    /\ pods \in [Pod -> [owner : {NoOwner, Foreign}, ready : {FALSE}] \cup {Absent}]
    /\ Existing \subseteq {1}
    /\ ctl = Idle /\ queue = ExistingSets(sets) /\ local = Absent
    /\ newer = {} /\ late = {} /\ missed = {} /\ edits = 0 /\ mishaps = 0

Reconcile ==
    \/ GetReplicaSet \/ ListPods \/ CreatePod \/ UpdateStatus \/ PutStatus
    \/ CascadeList \/ CascadeDone
    \/ \E p \in Pod : Adopt(p) \/ DeleteSurplus(p) \/ CascadeDelete(p)

People ==
    \/ \E r \in ReplicaSet : DeleteSet(r) \/ \E n \in 0..MaxReplicas : ApplySet(r, n)
    \/ \E p \in Pod : ApplyPod(p) \/ DeletePod(p) \/ ReplacePodStatus(p)

Next ==
    \/ People
    \/ \E r \in ReplicaSet : TakeKey(r)
    \/ \E l \in late : Happens(l)
    \/ Reconcile \/ RequestFails \/ Resync \/ InformerReconnects \/ Restart
    \/ FallsBehind \/ CatchesUp

Spec == Init /\ [][Next]_vars

(* The worker goes on, timers fire, a replica that lags catches up.        *)
(* TakeKey as in Placement.tla.                                            *)
FairSpec ==
    /\ Spec
    /\ WF_vars(Reconcile) /\ WF_vars(Resync) /\ WF_vars(CatchesUp)
    /\ \A r \in ReplicaSet : SF_vars(TakeKey(r))

-----------------------------------------------------------------------------
(* Properties *)

TypeOK ==
    /\ sets \in [ReplicaSet -> SetObject \cup {Absent}]
    /\ pods \in [Pod -> PodObject \cup {Absent}]
    /\ ctl \in [pc : {"idle", "get", "list", "scale", "put", "gone", "cascade"},
                key : ReplicaSet \cup {NoOwner}, desired : 0..MaxReplicas,
                turns : 0..MaxReplicas, status : Status, current : BOOLEAN, unseen : BOOLEAN,
                fresh : SUBSET Pod, adopt : SUBSET Pod, owned : SUBSET Pod]
    /\ queue \subseteq ReplicaSet /\ missed \subseteq ReplicaSet
    /\ local \in Replica \cup {Absent} /\ late \subseteq Request
    /\ newer \subseteq ({"set"} \X ReplicaSet) \cup ({"pod"} \X Pod)
    /\ edits \in 0..MaxEdits /\ mishaps \in 0..MaxMishaps

(* The controller deletes and takes over only what is its own or nobody's  *)
(* at that moment, whatever has become of the pods since it listed them,   *)
(* however old the list was and however late the request arrives: also a   *)
(* name that was deleted and is somebody else's pod by now.                *)
LeavesOthersAlone ==
    [][\A p \in Existing :
         \/ edits' # edits \/ pods'[p] = pods[p]
         \/ \E r \in {ctl.key} \cup {l.set : l \in late \ late'} :
              \/ IsOwnedBy(p, r)
              \/ pods[p].owner = NoOwner /\ pods'[p] # Absent /\ pods'[p].owner = r]_vars

(* reconcile never makes a set larger than it read that the set shall be,  *)
(* whatever people and failing requests do between its list and its last   *)
(* creation, unless the set has pods that it cannot know: its replica      *)
(* lagged and the list did not have them, or a creation or adoption that   *)
(* it had given up has happened since.  (Adoptions come first and count    *)
(* for nothing here: all orphans are adopted, the surplus deleted.)        *)
NoOvershoot ==
    [][\A r \in ReplicaSet :
         \/ Cardinality(Owned(r)') <= Cardinality(Owned(r))
         \/ ctl.pc = "scale" /\ ctl.adopt # {}
         \/ ctl.unseen \/ \E l \in late \ late' : l.set = r
         \/ ctl.key = r /\ Cardinality(Owned(r)') <= ctl.desired]_vars

(* In the end every set has the pods it wants and says so in its status,   *)
(* although creations, adoptions and deletions that failed are only logged *)
(* and events may be lost.                                                 *)
Settled(r) ==
    sets[r] # Absent => /\ Cardinality(Owned(r)) = sets[r].replicas
                        /\ sets[r].status = CurrentStatus(pods, r)
SetsSettle == \A r \in ReplicaSet : <>[]Settled(r)

(* The controller comes to rest: its status updates wake it up, resync     *)
(* wakes it for ever, and still it stops sending updates at some time.     *)
GoesQuiet == <>[](ctl.pc # "put")

(* The pods of a deleted set go, also those that changed while they were   *)
(* being deleted, unless the controller missed the deletion or a request   *)
(* of it failed: then they stay until their next event.                    *)
CascadeCompletes ==
    \A p \in Pod, r \in ReplicaSet :
        (IsOwnedBy(p, r) /\ sets[r] = Absent)
            ~> (~ IsOwnedBy(p, r) \/ sets[r] # Absent \/ r \in missed)
=============================================================================
