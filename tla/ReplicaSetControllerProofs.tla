--------------------- MODULE ReplicaSetControllerProofs ---------------------
(***************************************************************************)
(* The safety properties of ReplicaSetController.tla for any number of     *)
(* sets and pods, all edits by people and kubelets, and all mishaps.       *)
(*                                                                         *)
(* What reconcile has in its memory, what its replica shows and what it    *)
(* has given up while others write is the point.  TrueCopies relates them  *)
(* to the objects as they are: a copy that is still current shows the      *)
(* owner that the pod has, so a request that the store lets pass, at once  *)
(* or late, hits the right pod.  NotYetOwned bounds what reconcile does    *)
(* not know of: as long as it is going to create pods, and unless unseen   *)
(* says that it missed some, the set has at most as many pods outside of   *)
(* its count as it has had turns.                                          *)
(***************************************************************************)
EXTENDS ReplicaSetController, FiniteSetTheorems, TLAPS

Phase == {"idle", "get", "list", "scale", "put", "gone", "cascade"}
Worker == [pc : Phase, key : ReplicaSet \cup {NoOwner}, desired : 0..MaxReplicas,
           turns : 0..MaxReplicas, status : Status, current : BOOLEAN, unseen : BOOLEAN,
           fresh : SUBSET Pod, adopt : SUBSET Pod, owned : SUBSET Pod]

(* A worker that is busy has a key, and before its list no pod to adopt.   *)
Started(c) == /\ c.pc # "idle" => c.key \in ReplicaSet
              /\ c.pc \in {"get", "gone"} => c.adopt = {}

Names == ({"set"} \X ReplicaSet) \cup ({"pod"} \X Pod)

(* A current copy shows the owner that the pod has now, ...                *)
FreshCopies ==
    \A p \in ctl.fresh : /\ p \in ctl.owned => IsOwnedBy(p, ctl.key)
                         /\ p \in ctl.adopt => pods[p] # Absent /\ CanAdopt(pods[p])

(* ... a replica that lags shows as it is what has not been written, ...   *)
ShownAsItIs ==
    local # Absent =>
        \A p \in Pod : local.pods[p] # Absent /\ Current("pod", p) => pods[p] = local.pods[p]

(* ... and what was given up finds, if it happens, what reconcile read.    *)
MayHappen(l) ==
    /\ l.op = "adopt" => l.pod \in Pod /\ pods[l.pod] # Absent /\ CanAdopt(pods[l.pod])
    /\ l.op = "delete" => l.pod \in Pod /\ IsOwnedBy(l.pod, l.set)
    /\ l.op = "status" => sets[l.set] # Absent
GivenUp == \A l \in late : MayHappen(l)

(* The pods of the set that reconcile has not counted.                     *)
Uncounted == OwnedIn(pods, ctl.key) \ ctl.owned
NotYetOwned ==
    ctl.pc = "scale" /\ ~ctl.unseen /\ Missing > 0 => Cardinality(Uncounted) <= ctl.turns

TrueCopies == FreshCopies /\ ShownAsItIs /\ GivenUp
Inv == TypeOK /\ Started(ctl) /\ TrueCopies /\ NotYetOwned

-----------------------------------------------------------------------------
(* Sets of pods *)

LEMMA Bounds ==
    /\ NumSets \in Nat /\ NumPods \in Nat /\ MaxReplicas \in Nat
    /\ MaxEdits \in Nat /\ MaxMishaps \in Nat
  BY ControllerAssumption

LEMMA NoOwnerIsNoSet == NoOwner \notin ReplicaSet /\ Foreign \notin ReplicaSet /\ NoOwner # Foreign
  BY Bounds DEF NoOwner, Foreign, ReplicaSet

LEMMA PodsAreFinite ==
    ASSUME NEW S \in SUBSET Pod
    PROVE  IsFiniteSet(S) /\ Cardinality(S) \in 0..NumPods
<1>1. IsFiniteSet(Pod) /\ Cardinality(Pod) = NumPods
  BY Bounds, FS_Interval DEF Pod
<1>2. IsFiniteSet(S) /\ Cardinality(S) <= Cardinality(Pod)
  BY <1>1, FS_Subset
<1> QED
  BY <1>1, <1>2, FS_CardinalityType, Bounds

LEMMA FewerPods ==
    ASSUME NEW S \in SUBSET Pod, NEW T \in SUBSET S
    PROVE  Cardinality(T) <= Cardinality(S)
  BY PodsAreFinite, FS_Subset

LEMMA OnePodMore ==
    ASSUME NEW S \in SUBSET Pod, NEW x \in Pod, NEW T \in SUBSET (S \cup {x})
    PROVE  Cardinality(T) <= Cardinality(S) + 1
<1>1. Cardinality(T) <= Cardinality(S \cup {x})
  BY FewerPods
<1>2. IsFiniteSet(S) /\ Cardinality(S) \in 0..NumPods
  BY PodsAreFinite
<1>3. Cardinality(S \cup {x}) \in {Cardinality(S), Cardinality(S) + 1}
  BY <1>2, FS_AddElement
<1>4. Cardinality(T) \in Nat
  BY PodsAreFinite, Bounds
<1> QED
  BY <1>1, <1>2, <1>3, <1>4, Bounds

LEMMA OnePodLess ==
    ASSUME NEW S \in SUBSET Pod, NEW x \in S
    PROVE  Cardinality(S \ {x}) = Cardinality(S) - 1
  BY PodsAreFinite, FS_RemoveElement

LEMMA CountedOrNot ==
    ASSUME NEW S \in SUBSET Pod, NEW T \in SUBSET Pod
    PROVE  Cardinality(S) <= Cardinality(T) + Cardinality(S \ T)
<1>1. IsFiniteSet(T) /\ IsFiniteSet(S \ T)
  BY PodsAreFinite
<1>2. Cardinality(T \cup (S \ T))
        = Cardinality(T) + Cardinality(S \ T) - Cardinality(T \cap (S \ T))
  BY <1>1, FS_Union
<1>3. T \cap (S \ T) = {}
  OBVIOUS
<1>4. Cardinality(T \cap (S \ T)) = 0
  BY <1>3, FS_EmptySet
<1>5. Cardinality(S) <= Cardinality(T \cup (S \ T))
  BY FewerPods
<1>6. /\ Cardinality(S) \in Nat /\ Cardinality(T) \in Nat
      /\ Cardinality(S \ T) \in Nat /\ Cardinality(T \cup (S \ T)) \in Nat
  BY PodsAreFinite, Bounds
<1> QED
  BY <1>2, <1>4, <1>5, <1>6

LEMMA ListsArePods ==
    /\ Existing \in SUBSET Pod
    /\ \A r : Owned(r) \in SUBSET Pod
  BY DEF Existing, Owned, Listed, OwnedIn

LEMMA OwnedIsOwnedIn ==
    ASSUME NEW r
    PROVE  /\ Owned(r) = OwnedIn(pods, r) /\ Owned(r)' = OwnedIn(pods', r)
           /\ OwnedIn(pods, r) \in SUBSET Pod /\ OwnedIn(pods', r) \in SUBSET Pod
  BY DEF Owned, OwnedIn, Listed

LEMMA NewNameIsFree ==
    ASSUME Existing # Pod
    PROVE  NewName \in Pod /\ NewName \notin Existing /\ pods[NewName] = Absent
<1>1. \E p \in Pod \ Existing : TRUE
  BY DEF Existing, Listed
<1>2. NewName \in Pod \ Existing
  BY <1>1 DEF NewName
<1> QED
  BY <1>2 DEF Existing, Listed

-----------------------------------------------------------------------------
(* Types *)

LEMMA SeenType ==
    ASSUME TypeOK
    PROVE  /\ Seen \in Replica /\ Seen # Absent
           /\ Seen.sets \in [ReplicaSet -> SetObject \cup {Absent}]
           /\ Seen.pods \in [Pod -> PodObject \cup {Absent}]
  BY ControllerAssumption DEF TypeOK, Seen, Replica

LEMMA EnqueueType ==
    ASSUME TypeOK, NEW keys, Enqueue(keys)
    PROVE  /\ queue' \subseteq ReplicaSet /\ missed' \subseteq ReplicaSet
           /\ mishaps' \in 0..MaxMishaps /\ local' \in Replica \cup {Absent}
  BY Bounds DEF TypeOK, Enqueue, Mishap, Replica

LEMMA WrittenType ==
    ASSUME TypeOK
    PROVE  /\ \A r \in ReplicaSet :
                SetChanges(r) => newer' \subseteq Names /\ late' \subseteq Request
           /\ \A p \in Pod : PodChanges(p) => newer' \subseteq Names /\ late' \subseteq Request
<1>1. newer \subseteq Names /\ late \subseteq Request
  BY DEF TypeOK, Names
<1>2. ASSUME NEW r \in ReplicaSet, SetChanges(r)
      PROVE  newer' \subseteq Names /\ late' \subseteq Request
  BY <1>1, <1>2 DEF SetChanges, Written, Names
<1>3. ASSUME NEW p \in Pod, PodChanges(p) PROVE newer' \subseteq Names /\ late' \subseteq Request
  BY <1>1, <1>3 DEF PodChanges, Written, Names
<1> QED
  BY <1>2, <1>3

LEMMA GiveUpType ==
    ASSUME TypeOK, ctl.key \in ReplicaSet, NEW op \in {"create", "adopt", "delete", "status"},
           NEW p \in Pod \cup {NoPod}, NEW s \in Status, NEW c, GiveUp(op, p, s, c)
    PROVE  /\ newer' \subseteq Names /\ late' \subseteq Request
           /\ mishaps' \in 0..MaxMishaps
<1>1. newer \subseteq Names /\ late \subseteq Request /\ mishaps \in 0..MaxMishaps
  BY DEF TypeOK, Names
<1>2. [op |-> op, set |-> ctl.key, pod |-> p, status |-> s, nr |-> mishaps] \in Request
  BY <1>1 DEF Request
<1> QED
  BY <1>1, <1>2, Bounds DEF GiveUp, Mishap

LEMMA NoStatusType == NoStatus \in Status
  BY Bounds DEF NoStatus, Status

LEMMA MishapType == TypeOK /\ Mishap => mishaps' \in 0..MaxMishaps
  BY Bounds DEF TypeOK, Mishap

LEMMA EditType == TypeOK /\ Edit => edits' \in 0..MaxEdits
  BY Bounds DEF TypeOK, Edit

LEMMA IdleType == Idle \in Worker /\ Started(Idle)
  BY Bounds DEF Idle, Worker, Started, Phase, Status, NoStatus, NoOwner

LEMMA OutdatedType ==
    ASSUME ctl \in Worker, Started(ctl)
    PROVE  /\ \A r : OutdatedSet(r) \in Worker /\ Started(OutdatedSet(r))
           /\ \A p : OutdatedPod(p) \in Worker /\ Started(OutdatedPod(p))
  BY DEF OutdatedSet, OutdatedPod, Worker, Started

LEMMA CurrentStatusType == ASSUME NEW obs, NEW r PROVE CurrentStatus(obs, r) \in Status
<1>1. OwnedIn(obs, r) \in SUBSET Pod /\ {p \in OwnedIn(obs, r) : obs[p].ready} \in SUBSET Pod
  BY DEF OwnedIn, Listed
<1> QED
  BY <1>1, PodsAreFinite DEF CurrentStatus, Status

LEMMA NewPodType ==
    ASSUME TypeOK, Existing # Pod, NEW r \in ReplicaSet
    PROVE  NewPod(r) \in [Pod -> PodObject \cup {Absent}]
  BY NewNameIsFree DEF TypeOK, NewPod, PodObject

LEMMA ReplaceSpecType ==
    ASSUME NEW r \in ReplicaSet, sets[r] \in SetObject, NEW n \in 0..MaxReplicas
    PROVE  ReplaceReplicaSetSpec(r, n) \in SetObject
<1>1. PICK o : o = [sets[r] EXCEPT !.replicas = n]
  OBVIOUS
<1>2. o \in SetObject
  BY <1>1 DEF SetObject
<1>3. PICK t : t = [o.status EXCEPT !.observed = FALSE]
  OBVIOUS
<1>4. t \in Status
  BY <1>2, <1>3 DEF SetObject, Status
<1>5. ReplaceReplicaSetSpec(r, n) = [o EXCEPT !.status = t]
  BY <1>1, <1>3 DEF ReplaceReplicaSetSpec, SetObject
<1> QED
  BY <1>2, <1>4, <1>5 DEF SetObject

LEMMA ReplaceStatusType ==
    ASSUME sets \in [ReplicaSet -> SetObject \cup {Absent}], NEW r \in ReplicaSet,
           sets[r] # Absent, NEW s \in Status, sets' = ReplaceReplicaSetStatus(r, s)
    PROVE  sets' \in [ReplicaSet -> SetObject \cup {Absent}]
<1>1. sets[r] \in SetObject
  OBVIOUS
<1>2. PICK o : o = [sets[r] EXCEPT !.status = s]
  OBVIOUS
<1>3. o \in SetObject
  BY <1>1, <1>2 DEF SetObject
<1>4. sets' = [sets EXCEPT ![r] = o]
  BY <1>2 DEF ReplaceReplicaSetStatus
<1> QED
  BY <1>3, <1>4

LEMMA NewOwnerType ==
    ASSUME pods \in [Pod -> PodObject \cup {Absent}], NEW p \in Pod, pods[p] # Absent,
           NEW r \in ReplicaSet, pods' = [pods EXCEPT ![p].owner = r]
    PROVE  /\ pods' \in [Pod -> PodObject \cup {Absent}]
           /\ pods'[p] # Absent /\ pods'[p].owner = r
           /\ \A q \in Pod \ {p} : pods'[q] = pods[q]
           /\ \E v : pods' = [pods EXCEPT ![p] = v]
<1>1. pods[p] \in PodObject
  OBVIOUS
<1>2. PICK o : o = [pods[p] EXCEPT !.owner = r]
  OBVIOUS
<1>3. o \in PodObject /\ o.owner = r
  BY <1>1, <1>2 DEF PodObject
<1>4. o # Absent
  BY <1>3, ControllerAssumption
<1>5. pods' = [pods EXCEPT ![p] = o]
  BY <1>2
<1> QED
  BY <1>3, <1>4, <1>5

LEMMA PeopleType ==
    ASSUME TypeOK, Started(ctl), People
    PROVE  TypeOK' /\ Started(ctl)'
<1>0. ctl \in Worker /\ sets \in [ReplicaSet -> SetObject \cup {Absent}]
      /\ pods \in [Pod -> PodObject \cup {Absent}] /\ local \in Replica \cup {Absent}
  BY DEF TypeOK, Worker, Phase
<1>s. ASSUME NEW c, ctl' = c, c \in Worker, Started(c),
             sets' \in [ReplicaSet -> SetObject \cup {Absent}],
             pods' \in [Pod -> PodObject \cup {Absent}],
             newer' \subseteq Names, late' \subseteq Request, Edit,
             \/ \E keys : Enqueue(keys)
             \/ UNCHANGED <<queue, local, missed, mishaps>>
      PROVE  TypeOK' /\ Started(ctl)'
  <2>1. /\ queue' \subseteq ReplicaSet /\ missed' \subseteq ReplicaSet
        /\ mishaps' \in 0..MaxMishaps /\ local' \in Replica \cup {Absent}
    BY <1>s, EnqueueType DEF TypeOK
  <2>2. edits' \in 0..MaxEdits
    BY <1>s, EditType
  <2> QED
    BY <2>1, <2>2, <1>s DEF TypeOK, Worker, Phase, Started, Names
<1>1. ASSUME NEW r \in ReplicaSet, NEW n \in 0..MaxReplicas, ApplySet(r, n)
      PROVE  TypeOK' /\ Started(ctl)'
  <2>1. CreateReplicaSet(n) \in SetObject
    BY NoStatusType DEF CreateReplicaSet, SetObject
  <2>2. sets[r] # Absent => ReplaceReplicaSetSpec(r, n) \in SetObject
    BY <1>0, ReplaceSpecType
  <2>3. sets' \in [ReplicaSet -> SetObject \cup {Absent}]
    BY <1>0, <1>1, <2>1, <2>2 DEF ApplySet
  <2>4. newer' \subseteq Names /\ late' \subseteq Request
    BY <1>1, WrittenType DEF ApplySet
  <2> QED
    BY <1>0, <1>1, <1>s, <2>3, <2>4, OutdatedType DEF ApplySet
<1>2. ASSUME NEW r \in ReplicaSet, DeleteSet(r) PROVE TypeOK' /\ Started(ctl)'
  <2>3. sets' \in [ReplicaSet -> SetObject \cup {Absent}]
    BY <1>0, <1>2 DEF DeleteSet
  <2>4. newer' \subseteq Names /\ late' \subseteq Request
    BY <1>2, WrittenType DEF DeleteSet
  <2> QED
    BY <1>0, <1>2, <1>s, <2>3, <2>4, OutdatedType DEF DeleteSet
<1>3. ASSUME NEW p \in Pod, ApplyPod(p) PROVE TypeOK' /\ Started(ctl)'
  <2>1. PICK o : o = [owner |-> NoOwner,
                      ready |-> IF pods[p] = Absent THEN FALSE ELSE pods[p].ready]
    OBVIOUS
  <2>2. o \in PodObject
    BY <1>0, <2>1 DEF PodObject
  <2>3. pods' = [pods EXCEPT ![p] = o]
    BY <1>3, <2>1 DEF ApplyPod
  <2>4. pods' \in [Pod -> PodObject \cup {Absent}]
    BY <1>0, <2>2, <2>3
  <2>5. newer' \subseteq Names /\ late' \subseteq Request
    BY <1>3, WrittenType DEF ApplyPod
  <2> QED
    BY <1>0, <1>3, <1>s, <2>4, <2>5, OutdatedType DEF ApplyPod
<1>4. ASSUME NEW p \in Pod, DeletePod(p) PROVE TypeOK' /\ Started(ctl)'
  <2>4. pods' \in [Pod -> PodObject \cup {Absent}]
    BY <1>0, <1>4 DEF DeletePod
  <2>5. newer' \subseteq Names /\ late' \subseteq Request
    BY <1>4, WrittenType DEF DeletePod
  <2> QED
    BY <1>0, <1>4, <1>s, <2>4, <2>5, OutdatedType DEF DeletePod
<1>5. ASSUME NEW p \in Pod, ReplacePodStatus(p) PROVE TypeOK' /\ Started(ctl)'
  <2>1. pods[p] \in PodObject
    BY <1>0, <1>5 DEF ReplacePodStatus
  <2>2. PICK o : o = [pods[p] EXCEPT !.ready = ~ @]
    OBVIOUS
  <2>3. o \in PodObject
    BY <2>1, <2>2 DEF PodObject
  <2>4. pods' = [pods EXCEPT ![p] = o]
    BY <1>5, <2>2 DEF ReplacePodStatus
  <2>5. pods' \in [Pod -> PodObject \cup {Absent}]
    BY <1>0, <2>3, <2>4
  <2>6. newer' \subseteq Names /\ late' \subseteq Request
    BY <1>5, WrittenType DEF ReplacePodStatus
  <2> QED
    BY <1>0, <1>5, <1>s, <2>5, <2>6, OutdatedType DEF ReplacePodStatus
<1> QED
  BY <1>1, <1>2, <1>3, <1>4, <1>5 DEF People

(* What the worker does to its own record.                                 *)
LEMMA WorkerType ==
    ASSUME ctl \in Worker, Started(ctl)
    PROVE  /\ \A p : /\ [ctl EXCEPT !.owned = @ \ {p}] \in Worker
                     /\ Started([ctl EXCEPT !.owned = @ \ {p}])
                     /\ [ctl EXCEPT !.adopt = @ \ {p}] \in Worker
                     /\ Started([ctl EXCEPT !.adopt = @ \ {p}])
           /\ \A p \in Pod : /\ [ctl EXCEPT !.adopt = @ \ {p}, !.owned = @ \cup {p}] \in Worker
                             /\ Started([ctl EXCEPT !.adopt = @ \ {p}, !.owned = @ \cup {p}])
<1>1. ASSUME NEW p
      PROVE  /\ [ctl EXCEPT !.owned = @ \ {p}] \in Worker
             /\ Started([ctl EXCEPT !.owned = @ \ {p}])
             /\ [ctl EXCEPT !.adopt = @ \ {p}] \in Worker
             /\ Started([ctl EXCEPT !.adopt = @ \ {p}])
  BY DEF Worker, Started
<1>2. ASSUME NEW p \in Pod
      PROVE  /\ [ctl EXCEPT !.adopt = @ \ {p}, !.owned = @ \cup {p}] \in Worker
             /\ Started([ctl EXCEPT !.adopt = @ \ {p}, !.owned = @ \cup {p}])
  BY DEF Worker, Started
<1> QED
  BY <1>1, <1>2

LEMMA MissingIsInt ==
    ASSUME ctl \in Worker
    PROVE  /\ Missing \in Int /\ Cardinality(ctl.owned) \in Nat
           /\ ctl.desired \in Nat /\ ctl.turns \in Nat
           /\ Missing > 0 => ctl.turns + 1 \in 0..MaxReplicas
<1>1. ctl.owned \in SUBSET Pod /\ ctl.desired \in 0..MaxReplicas /\ ctl.turns \in 0..MaxReplicas
  BY DEF Worker
<1>2. Cardinality(ctl.owned) \in Nat
  BY <1>1, PodsAreFinite, Bounds
<1> QED
  BY <1>1, <1>2, Bounds DEF Missing

(* What a read leaves of the rest.                                         *)
LEMMA ReadType ==
    ASSUME TypeOK, NEW c, ctl' = c, c \in Worker, Started(c),
           UNCHANGED <<sets, pods, edits, queue, local, newer, late, missed, mishaps>>
    PROVE  TypeOK' /\ Started(ctl)'
  BY DEF TypeOK, Worker, Phase, Started

LEMMA ReconcileType ==
    ASSUME TypeOK, Started(ctl), Reconcile
    PROVE  TypeOK' /\ Started(ctl)'
<1>0. /\ ctl \in Worker /\ sets \in [ReplicaSet -> SetObject \cup {Absent}]
      /\ pods \in [Pod -> PodObject \cup {Absent}] /\ local \in Replica \cup {Absent}
      /\ newer \subseteq Names /\ late \subseteq Request
      /\ queue \subseteq ReplicaSet /\ missed \subseteq ReplicaSet
      /\ edits \in 0..MaxEdits /\ mishaps \in 0..MaxMishaps
  BY DEF TypeOK, Worker, Phase, Names
<1>k. ctl.pc # "idle" => ctl.key \in ReplicaSet
  BY DEF Started
<1>f. /\ Fresh \in SUBSET Pod
      /\ \A obs : Listed(obs) \in SUBSET Pod
      /\ \A obs, r : OwnedIn(obs, r) \in SUBSET Pod
  BY DEF Fresh, Listed, OwnedIn
<1>s. ASSUME NEW c, ctl' = c, c \in Worker, Started(c),
             sets' \in [ReplicaSet -> SetObject \cup {Absent}],
             pods' \in [Pod -> PodObject \cup {Absent}],
             local' \in Replica \cup {Absent},
             newer' \subseteq Names, late' \subseteq Request, edits' = edits,
             queue' \subseteq ReplicaSet, missed' \subseteq ReplicaSet,
             mishaps' \in 0..MaxMishaps
      PROVE  TypeOK' /\ Started(ctl)'
  BY <1>0, <1>s DEF TypeOK, Worker, Phase, Started, Names
<1>1. CASE GetReplicaSet
  <2>1. PICK o : o = Seen.sets[ctl.key]
    OBVIOUS
  <2>2. o # Absent => o \in SetObject
    BY <1>1, <1>k, <2>1, SeenType DEF GetReplicaSet
  <2>3. /\ ctl.pc = "get"
        /\ ctl' = IF o = Absent THEN [ctl EXCEPT !.pc = "gone"]
                  ELSE [ctl EXCEPT !.pc = "list", !.desired = o.replicas, !.status = o.status,
                                   !.current = Current("set", ctl.key)]
    BY <1>1, <2>1 DEF GetReplicaSet
  <2>4. ctl' \in Worker /\ Started(ctl')
    BY <1>0, <1>k, <2>2, <2>3 DEF Current, Worker, Started, Phase, SetObject
  <2> QED
    BY <1>1, <2>4, ReadType DEF GetReplicaSet, apiVars, copies
<1>2. CASE ListPods
  <2>1. {p \in Listed(Seen.pods) : CanAdopt(Seen.pods[p])} \in SUBSET Pod
    BY <1>f
  <2>2. ctl' \in Worker /\ Started(ctl')
    BY <1>0, <1>2, <1>k, <1>f, <2>1 DEF ListPods, Worker, Started, Phase
  <2> QED
    BY <1>2, <2>2, ReadType DEF ListPods, apiVars, copies
<1>3. CASE CreatePod
  <2>1. ctl.pc = "scale" /\ Missing > 0 /\ ctl.key \in ReplicaSet
    BY <1>3, <1>k DEF CreatePod, CreateMissing, Scaling
  <2>2. ctl.turns + 1 \in 0..MaxReplicas
    BY <1>0, <2>1, MissingIsInt
  <2>3. ctl' \in Worker /\ Started(ctl')
    BY <1>0, <1>3, <1>k, <2>1, <2>2 DEF CreatePod, Worker, Started
  <2>4. pods' \in [Pod -> PodObject \cup {Absent}]
    BY <1>0, <1>3, <2>1, NewPodType DEF CreatePod
  <2>5. /\ queue' \subseteq ReplicaSet /\ missed' \subseteq ReplicaSet
        /\ mishaps' \in 0..MaxMishaps /\ local' \in Replica \cup {Absent}
        /\ newer' \subseteq Names /\ late' \subseteq Request
    BY <1>0, <1>3, <2>1, EnqueueType, GiveUpType, NoStatusType DEF CreatePod, copies
  <2> QED
    BY <1>0, <1>3, <1>s, <2>3, <2>4, <2>5 DEF CreatePod
<1>4. CASE UpdateStatus
  <2>1. PICK s : s = CurrentStatus(Seen.pods, ctl.key)
    OBVIOUS
  <2>2. s \in Status
    BY <2>1, CurrentStatusType
  <2>3. \/ ctl' = Idle
        \/ ctl' = [Idle EXCEPT !.pc = "put", !.key = ctl.key, !.status = s, !.current = ctl.current]
    BY <1>4, <2>1 DEF UpdateStatus
  <2>4. ctl.key \in ReplicaSet /\ ctl.current \in BOOLEAN
    BY <1>0, <1>4, <1>k DEF UpdateStatus, Scaling, Worker
  <2>5. ASSUME ctl' = [Idle EXCEPT !.pc = "put", !.key = ctl.key, !.status = s,
                                   !.current = ctl.current]
        PROVE  ctl' \in Worker /\ Started(ctl')
    <3>1. PICK k, b : k = ctl.key /\ b = ctl.current
      OBVIOUS
    <3>2. ctl' = [Idle EXCEPT !.pc = "put", !.key = k, !.status = s, !.current = b]
      BY <2>5, <3>1
    <3>3. k \in ReplicaSet /\ b \in BOOLEAN
      BY <2>4, <3>1
    <3>4. Idle \in Worker
      BY IdleType
    <3>5. ctl' \in Worker /\ ctl'.pc = "put" /\ ctl'.key = k
      BY <2>2, <3>2, <3>3, <3>4 DEF Worker, Phase
    <3> QED
      BY <3>3, <3>5 DEF Started
  <2>6. ctl' \in Worker /\ Started(ctl')
    BY <2>3, <2>5, IdleType
  <2> QED
    BY <1>4, <2>6, ReadType DEF UpdateStatus, apiVars, copies
<1>5. CASE PutStatus
  <2>1. ctl.key \in ReplicaSet /\ ctl.status \in Status
    BY <1>0, <1>5, <1>k DEF PutStatus, Worker
  <2>2. ctl' = Idle /\ pods' = pods /\ edits' = edits
    BY <1>5 DEF PutStatus, Retry
  <2>3. CASE /\ RvCheck(sets[ctl.key], ctl.current) = "Ok"
             /\ sets' = ReplaceReplicaSetStatus(ctl.key, ctl.status)
             /\ SetChanges(ctl.key) /\ Enqueue({ctl.key})
    <3>1. sets[ctl.key] # Absent
      BY <2>3 DEF RvCheck
    <3>2. sets' \in [ReplicaSet -> SetObject \cup {Absent}]
      BY <1>0, <2>1, <2>3, <3>1, ReplaceStatusType
    <3>3. /\ queue' \subseteq ReplicaSet /\ missed' \subseteq ReplicaSet
          /\ mishaps' \in 0..MaxMishaps /\ local' \in Replica \cup {Absent}
          /\ newer' \subseteq Names /\ late' \subseteq Request
      BY <2>1, <2>3, EnqueueType, WrittenType
    <3> QED
      BY <1>0, <1>s, <2>2, <3>2, <3>3, IdleType
  <2>4. CASE /\ \/ UNCHANGED <<copies, mishaps>>
                \/ GiveUp("status", NoPod, ctl.status, RvCheck(sets[ctl.key], ctl.current) = "Ok")
             /\ Retry /\ UNCHANGED <<sets, local, missed>>
    <3>1. queue' \subseteq ReplicaSet
      BY <1>0, <2>1, <2>4 DEF Retry
    <3>2. mishaps' \in 0..MaxMishaps /\ newer' \subseteq Names /\ late' \subseteq Request
      BY <1>0, <2>1, <2>4, GiveUpType DEF copies
    <3> QED
      BY <1>0, <1>s, <2>2, <2>4, <3>1, <3>2, IdleType
  <2> QED
    BY <1>5, <2>3, <2>4 DEF PutStatus
<1>6. CASE CascadeList
  <2>1. ctl' \in Worker /\ Started(ctl')
    BY <1>0, <1>6, <1>k, <1>f DEF CascadeList, Worker, Started, Phase
  <2> QED
    BY <1>6, <2>1, ReadType DEF CascadeList, apiVars, copies
<1>7. CASE CascadeDone
  BY <1>7, IdleType, ReadType DEF CascadeDone, apiVars, copies
<1>8. ASSUME NEW p \in Pod, Adopt(p) PROVE TypeOK' /\ Started(ctl)'
  <2>1. ctl.key \in ReplicaSet
    BY <1>8, <1>k DEF Adopt
  <2>2. ctl' \in Worker /\ Started(ctl')
    BY <1>0, <1>8, WorkerType DEF Adopt
  <2>3. pods' \in [Pod -> PodObject \cup {Absent}]
    <3>1. CASE /\ RvCheck(pods[p], p \in ctl.fresh) = "Ok"
               /\ pods' = [pods EXCEPT ![p].owner = ctl.key]
      BY <1>0, <2>1, <3>1, NewOwnerType DEF RvCheck
    <3>2. CASE pods' = pods
      BY <1>0, <3>2
    <3> QED
      BY <1>8, <3>1, <3>2 DEF Adopt
  <2>4. /\ queue' \subseteq ReplicaSet /\ missed' \subseteq ReplicaSet
        /\ mishaps' \in 0..MaxMishaps /\ local' \in Replica \cup {Absent}
        /\ newer' \subseteq Names /\ late' \subseteq Request
    BY <1>0, <1>8, <2>1, EnqueueType, WrittenType, GiveUpType, NoStatusType DEF Adopt, copies
  <2> QED
    BY <1>0, <1>8, <1>s, <2>2, <2>3, <2>4 DEF Adopt
<1>9. ASSUME NEW p \in Pod, DeleteSurplus(p) PROVE TypeOK' /\ Started(ctl)'
  <2>1. ctl' \in Worker /\ Started(ctl')
    BY <1>0, <1>9, WorkerType DEF DeleteSurplus
  <2>2. pods' \in [Pod -> PodObject \cup {Absent}]
    BY <1>0, <1>9 DEF DeleteSurplus
  <2>k. ctl.key \in ReplicaSet
    BY <1>9, <1>k DEF DeleteSurplus, Scaling
  <2>3. /\ queue' \subseteq ReplicaSet /\ missed' \subseteq ReplicaSet
        /\ mishaps' \in 0..MaxMishaps /\ local' \in Replica \cup {Absent}
        /\ newer' \subseteq Names /\ late' \subseteq Request
    BY <1>0, <1>9, <2>k, EnqueueType, WrittenType, GiveUpType, NoStatusType
      DEF DeleteSurplus, copies
  <2> QED
    BY <1>0, <1>9, <1>s, <2>1, <2>2, <2>3 DEF DeleteSurplus
<1>10. ASSUME NEW p \in Pod, CascadeDelete(p) PROVE TypeOK' /\ Started(ctl)'
  <2>1. ctl' \in Worker /\ Started(ctl')
    BY <1>0, <1>10, WorkerType DEF CascadeDelete
  <2>2. pods' \in [Pod -> PodObject \cup {Absent}]
    BY <1>0, <1>10 DEF CascadeDelete
  <2>k. ctl.key \in ReplicaSet
    BY <1>10, <1>k DEF CascadeDelete
  <2>3. /\ queue' \subseteq ReplicaSet /\ missed' \subseteq ReplicaSet
        /\ mishaps' \in 0..MaxMishaps /\ local' \in Replica \cup {Absent}
        /\ newer' \subseteq Names /\ late' \subseteq Request
    BY <1>0, <1>10, <2>k, EnqueueType, WrittenType, GiveUpType, NoStatusType
      DEF CascadeDelete, copies
  <2> QED
    BY <1>0, <1>10, <1>s, <2>1, <2>2, <2>3 DEF CascadeDelete
<1> QED
  BY <1>1, <1>2, <1>3, <1>4, <1>5, <1>6, <1>7, <1>8, <1>9, <1>10 DEF Reconcile

LEMMA HappensType ==
    ASSUME TypeOK, Started(ctl), GivenUp, NEW l \in late, Happens(l)
    PROVE  TypeOK' /\ Started(ctl)'
<1>0. /\ ctl \in Worker /\ sets \in [ReplicaSet -> SetObject \cup {Absent}]
      /\ pods \in [Pod -> PodObject \cup {Absent}] /\ newer \subseteq Names
      /\ late \subseteq Request /\ edits' = edits
  BY DEF TypeOK, Worker, Phase, Names, Happens
<1>l. l.set \in ReplicaSet /\ l.status \in Status /\ MayHappen(l)
  BY <1>0 DEF Request, GivenUp
<1>q. /\ queue' \subseteq ReplicaSet /\ missed' \subseteq ReplicaSet
      /\ mishaps' \in 0..MaxMishaps /\ local' \in Replica \cup {Absent}
  BY EnqueueType DEF Happens
<1>s. ASSUME ctl' \in Worker, Started(ctl'),
             sets' \in [ReplicaSet -> SetObject \cup {Absent}],
             pods' \in [Pod -> PodObject \cup {Absent}],
             newer' \subseteq Names, late' \subseteq Request
      PROVE  TypeOK' /\ Started(ctl)'
  BY <1>0, <1>q, <1>s DEF TypeOK, Worker, Phase, Started, Names
<1>u. ASSUME NEW c \in Worker, Started(c), NEW j \in BOOLEAN
      PROVE  [c EXCEPT !.unseen = j] \in Worker /\ Started([c EXCEPT !.unseen = j])
  BY <1>u DEF Worker, Started
<1>1. CASE LateCreate(l)
  <2>1. PICK j \in BOOLEAN : ctl' = [ctl EXCEPT !.unseen = j]
    BY <1>0, <1>1 DEF LateCreate, Worker
  <2>2. pods' \in [Pod -> PodObject \cup {Absent}]
    BY <1>1, <1>l, NewPodType DEF LateCreate
  <2> QED
    BY <1>0, <1>1, <1>s, <1>u, <2>1, <2>2 DEF LateCreate
<1>2. CASE LateAdopt(l)
  <2>1. l.pod \in Pod /\ pods[l.pod] # Absent
    BY <1>2, <1>l DEF LateAdopt, MayHappen
  <2>2. PICK c : c = OutdatedPod(l.pod)
    OBVIOUS
  <2>3. c \in Worker /\ Started(c)
    BY <1>0, <2>2, OutdatedType
  <2>4. PICK j \in BOOLEAN : ctl' = [c EXCEPT !.unseen = j]
    BY <1>2, <2>2, <2>3 DEF LateAdopt, Worker
  <2>5. pods' \in [Pod -> PodObject \cup {Absent}]
    BY <1>0, <1>2, <1>l, <2>1, NewOwnerType DEF LateAdopt
  <2>6. newer' \subseteq Names /\ late' \subseteq Request
    BY <1>2, <2>1, WrittenType DEF LateAdopt
  <2> QED
    BY <1>0, <1>2, <1>s, <1>u, <2>3, <2>4, <2>5, <2>6 DEF LateAdopt
<1>3. CASE LateDelete(l)
  <2>1. l.pod \in Pod
    BY <1>3, <1>l DEF LateDelete, MayHappen
  <2>2. newer' \subseteq Names /\ late' \subseteq Request
    BY <1>3, <2>1, WrittenType DEF LateDelete
  <2>3. pods' \in [Pod -> PodObject \cup {Absent}]
    BY <1>0, <1>3 DEF LateDelete
  <2> QED
    BY <1>0, <1>3, <1>s, <2>2, <2>3, OutdatedType DEF LateDelete
<1>4. CASE LateStatus(l)
  <2>1. sets[l.set] # Absent
    BY <1>4, <1>l DEF LateStatus, MayHappen
  <2>2. sets' \in [ReplicaSet -> SetObject \cup {Absent}]
    BY <1>0, <1>4, <1>l, <2>1, ReplaceStatusType DEF LateStatus
  <2>3. newer' \subseteq Names /\ late' \subseteq Request
    BY <1>4, <1>l, WrittenType DEF LateStatus
  <2> QED
    BY <1>0, <1>4, <1>s, <2>2, <2>3, OutdatedType DEF LateStatus
<1> QED
  BY <1>1, <1>2, <1>3, <1>4 DEF Happens

LEMMA StepType ==
    ASSUME TypeOK, Started(ctl), GivenUp, [Next]_vars
    PROVE  TypeOK' /\ Started(ctl)'
<1>0. /\ ctl \in Worker /\ sets \in [ReplicaSet -> SetObject \cup {Absent}]
      /\ pods \in [Pod -> PodObject \cup {Absent}] /\ local \in Replica \cup {Absent}
      /\ newer \subseteq Names /\ late \subseteq Request
      /\ queue \subseteq ReplicaSet /\ missed \subseteq ReplicaSet
      /\ edits \in 0..MaxEdits /\ mishaps \in 0..MaxMishaps
  BY DEF TypeOK, Worker, Phase, Names
<1>k. ctl.pc # "idle" => ctl.key \in ReplicaSet
  BY DEF Started
<1>e. /\ Reported \subseteq ReplicaSet
      /\ \A obs : ExistingSets(obs) \subseteq ReplicaSet
  BY DEF Reported, ExistingSets
<1>s. ASSUME NEW c, ctl' = c, c \in Worker, Started(c), sets' = sets, pods' = pods,
             local' \in Replica \cup {Absent},
             newer' \subseteq newer, late' = late, edits' = edits,
             queue' \subseteq ReplicaSet, missed' = missed, mishaps' \in 0..MaxMishaps
      PROVE  TypeOK' /\ Started(ctl)'
  BY <1>0, <1>s DEF TypeOK, Worker, Phase, Started, Names
<1>1. ASSUME NEW r \in ReplicaSet, TakeKey(r) PROVE TypeOK' /\ Started(ctl)'
  <2>0. Idle.adopt = {}
    BY DEF Idle
  <2>1. ctl' \in Worker /\ Started(ctl')
    BY <1>1, <2>0, IdleType DEF TakeKey, Worker, Started, Phase
  <2> QED
    BY <1>0, <1>1, <1>s, <2>1 DEF TakeKey, apiVars, copies
<1>2. ASSUME NEW l \in late, Happens(l) PROVE TypeOK' /\ Started(ctl)'
  BY <1>2, HappensType
<1>3. CASE RequestFails
  <2>1. ctl.key \in ReplicaSet
    BY <1>3, <1>k DEF RequestFails, Scaling
  <2> QED
    BY <1>0, <1>3, <1>s, <2>1, IdleType, MishapType DEF RequestFails, Retry, apiVars, copies
<1>4. CASE Resync
  BY <1>0, <1>4, <1>e, <1>s DEF Resync, copies
<1>5. CASE InformerReconnects
  BY <1>0, <1>5, <1>e, <1>s DEF InformerReconnects, copies
<1>6. CASE Restart
  BY <1>0, <1>6, <1>e, <1>s, IdleType, MishapType DEF Restart, apiVars, copies
<1>7. CASE FallsBehind
  BY <1>0, <1>7, <1>s, SeenType, MishapType DEF FallsBehind, apiVars, copies
<1>8. CASE CatchesUp
  <2>1. local.events \subseteq ReplicaSet
    BY <1>0, <1>8 DEF CatchesUp, Replica
  <2> QED
    BY <1>0, <1>8, <1>s, <2>1 DEF CatchesUp, apiVars
<1>9. CASE UNCHANGED vars
  BY <1>0, <1>9, <1>s DEF vars, copies
<1> QED
  BY <1>1, <1>2, <1>3, <1>4, <1>5, <1>6, <1>7, <1>8, <1>9, PeopleType, ReconcileType DEF Next

LEMMA InitType == Init => TypeOK /\ Started(ctl)
<1> SUFFICES ASSUME Init PROVE TypeOK /\ Started(ctl)
  OBVIOUS
<1>1. NoStatus \in Status
  BY Bounds DEF NoStatus, Status
<1>2. sets \in [ReplicaSet -> SetObject \cup {Absent}]
  BY <1>1 DEF Init, SetObject
<1>3. pods \in [Pod -> PodObject \cup {Absent}]
  BY DEF Init, PodObject
<1>4. queue \subseteq ReplicaSet
  BY DEF Init, ExistingSets
<1> QED
  BY <1>2, <1>3, <1>4, IdleType, Bounds DEF Init, TypeOK, Worker, Phase

-----------------------------------------------------------------------------
(* What a write does to the pods of a set.                                 *)

LEMMA PodGone ==
    ASSUME NEW p \in Pod, pods \in [Pod -> PodObject \cup {Absent}],
           pods' = [pods EXCEPT ![p] = Absent], NEW r
    PROVE  /\ OwnedIn(pods', r) = OwnedIn(pods, r) \ {p}
           /\ \A q \in Pod \ {p} : pods'[q] = pods[q]
  BY DEF OwnedIn, Listed

LEMMA PodAdded ==
    ASSUME pods \in [Pod -> PodObject \cup {Absent}], Existing # Pod,
           NEW q \in ReplicaSet, pods' = NewPod(q), NEW r
    PROVE  /\ OwnedIn(pods', r) \subseteq OwnedIn(pods, r) \cup {NewName}
           /\ q # r => OwnedIn(pods', r) \subseteq OwnedIn(pods, r)
           /\ \A p \in Existing : pods'[p] = pods[p]
           /\ \A p \in Pod : pods[p] # Absent => pods'[p] = pods[p]
<1>1. NewName \in Pod /\ NewName \notin Existing
  BY NewNameIsFree
<1>2. /\ pods'[NewName] = [owner |-> q, ready |-> FALSE]
      /\ \A p \in Pod \ {NewName} : pods'[p] = pods[p]
  BY <1>1 DEF NewPod
<1> QED
  BY <1>1, <1>2 DEF OwnedIn, Existing, Listed

LEMMA PodTakenOver ==
    ASSUME NEW p \in Pod, pods \in [Pod -> PodObject \cup {Absent}],
           pods[p] # Absent, pods[p].owner = NoOwner, NEW q \in ReplicaSet,
           pods' = [pods EXCEPT ![p].owner = q], NEW r, q # r
    PROVE  OwnedIn(pods', r) \subseteq OwnedIn(pods, r)
<1>1. /\ pods'[p].owner = q
      /\ \A x \in Pod \ {p} : pods'[x] = pods[x]
  BY NewOwnerType
<1> QED
  BY <1>1 DEF OwnedIn, Listed

-----------------------------------------------------------------------------
(* ShownAsItIs and GivenUp                                                 *)

(* A step of the store leaves what a lagging replica shows of the pods.    *)
ReplicaStays == local' # Absent => local # Absent /\ local'.pods = local.pods

LEMMA EnqueueKeepsReplica ==
    ASSUME TypeOK, NEW keys, Enqueue(keys)
    PROVE  ReplicaStays
  BY DEF TypeOK, Enqueue, ReplicaStays, Replica

LEMMA WrittenPod ==
    ASSUME TypeOK, ShownAsItIs, GivenUp, ReplicaStays, NEW p \in Pod, NEW v,
           pods' = [pods EXCEPT ![p] = v], sets' = sets, PodChanges(p)
    PROVE  ShownAsItIs' /\ GivenUp'
<1>1. \A q \in Pod \ {p} : pods'[q] = pods[q]
  BY DEF TypeOK
<1>2. ShownAsItIs'
  BY <1>1 DEF ShownAsItIs, ReplicaStays, PodChanges, Written, Current
<1>3. ASSUME NEW l \in late' PROVE MayHappen(l)'
  <2>1. l \in late /\ l.pod # p /\ MayHappen(l)
    BY <1>3 DEF PodChanges, GivenUp
  <2> QED
    BY <1>1, <2>1 DEF MayHappen, IsOwnedBy
<1> QED
  BY <1>2, <1>3 DEF GivenUp

LEMMA WrittenSet ==
    ASSUME TypeOK, ShownAsItIs, GivenUp, ReplicaStays, NEW r \in ReplicaSet, NEW v,
           sets' = [sets EXCEPT ![r] = v], pods' = pods, SetChanges(r)
    PROVE  ShownAsItIs' /\ GivenUp'
<1>1. \A q \in ReplicaSet \ {r} : sets'[q] = sets[q]
  BY DEF TypeOK
<1>2. ShownAsItIs'
  BY DEF ShownAsItIs, ReplicaStays, SetChanges, Written, Current
<1>3. ASSUME NEW l \in late' PROVE MayHappen(l)'
  <2>1. l \in late /\ ~ (l.op = "status" /\ l.set = r) /\ MayHappen(l)
    BY <1>3 DEF SetChanges, GivenUp
  <2>2. l.set \in ReplicaSet
    BY <2>1 DEF TypeOK, Request
  <2> QED
    BY <1>1, <2>1, <2>2 DEF MayHappen, IsOwnedBy
<1> QED
  BY <1>2, <1>3 DEF GivenUp

LEMMA NewPodCopies ==
    ASSUME TypeOK, ShownAsItIs, GivenUp, ReplicaStays, Existing # Pod, NEW r \in ReplicaSet,
           pods' = NewPod(r), sets' = sets, newer' = newer, late' \subseteq late
    PROVE  ShownAsItIs' /\ GivenUp'
<1>1. \A p \in Pod : pods[p] # Absent => pods'[p] = pods[p]
  BY PodAdded DEF TypeOK
<1>2. ShownAsItIs'
  BY <1>1 DEF ShownAsItIs, ReplicaStays, Current
<1>3. ASSUME NEW l \in late' PROVE MayHappen(l)'
  BY <1>1, <1>3 DEF GivenUp, MayHappen, IsOwnedBy
<1> QED
  BY <1>2, <1>3 DEF GivenUp

LEMMA NothingWritten ==
    ASSUME ShownAsItIs, GivenUp, ReplicaStays, sets' = sets, pods' = pods,
           newer' = newer, \A l \in late' : l \in late \/ MayHappen(l)
    PROVE  ShownAsItIs' /\ GivenUp'
  BY DEF ShownAsItIs, ReplicaStays, Current, GivenUp, MayHappen, IsOwnedBy

LEMMA PeopleCopies ==
    ASSUME TypeOK, ShownAsItIs, GivenUp, People
    PROVE  ShownAsItIs' /\ GivenUp'
<1>1. ASSUME NEW r \in ReplicaSet, NEW n \in 0..MaxReplicas, ApplySet(r, n)
      PROVE  ShownAsItIs' /\ GivenUp'
  <2>1. \E v : sets' = [sets EXCEPT ![r] = v]
    BY <1>1 DEF ApplySet
  <2> QED
    BY <1>1, <2>1, WrittenSet, EnqueueKeepsReplica DEF ApplySet
<1>2. ASSUME NEW r \in ReplicaSet, DeleteSet(r) PROVE ShownAsItIs' /\ GivenUp'
  BY <1>2, WrittenSet, EnqueueKeepsReplica DEF DeleteSet
<1>3. ASSUME NEW p \in Pod, ApplyPod(p) PROVE ShownAsItIs' /\ GivenUp'
  <2>1. \E v : pods' = [pods EXCEPT ![p] = v]
    BY <1>3 DEF ApplyPod
  <2>2. ReplicaStays
    BY <1>3 DEF ApplyPod, ReplicaStays
  <2> QED
    BY <1>3, <2>1, <2>2, WrittenPod DEF ApplyPod
<1>4. ASSUME NEW p \in Pod, DeletePod(p) PROVE ShownAsItIs' /\ GivenUp'
  BY <1>4, WrittenPod, EnqueueKeepsReplica DEF DeletePod
<1>5. ASSUME NEW p \in Pod, ReplacePodStatus(p) PROVE ShownAsItIs' /\ GivenUp'
  <2>1. \E v : pods' = [pods EXCEPT ![p] = v]
    BY <1>5 DEF ReplacePodStatus
  <2> QED
    BY <1>5, <2>1, WrittenPod, EnqueueKeepsReplica DEF ReplacePodStatus
<1> QED
  BY <1>1, <1>2, <1>3, <1>4, <1>5 DEF People

-----------------------------------------------------------------------------
(* FreshCopies *)

(* Copies stay current as long as nobody else writes.                      *)
LEMMA FreshStays ==
    ASSUME FreshCopies, ctl'.key = ctl.key, ctl'.fresh \subseteq ctl.fresh,
           ctl'.owned \subseteq ctl.owned, ctl'.adopt \subseteq ctl.adopt,
           \A p \in ctl'.fresh : p \in ctl'.owned \cup ctl'.adopt => pods'[p] = pods[p]
    PROVE  FreshCopies'
  BY DEF FreshCopies, IsOwnedBy, CanAdopt

LEMMA FreshEmpty == ctl'.fresh = {} => FreshCopies'
  BY DEF FreshCopies

LEMMA OutdatedPodFresh ==
    ASSUME TypeOK, FreshCopies, NEW p \in Pod, \A q \in Pod \ {p} : pods'[q] = pods[q],
           ctl'.key = ctl.key, ctl'.fresh = ctl.fresh \ {p},
           ctl'.owned = ctl.owned, ctl'.adopt = ctl.adopt
    PROVE  FreshCopies'
<1>1. ctl.fresh \subseteq Pod
  BY DEF TypeOK
<1> QED
  BY <1>1, FreshStays

LEMMA OutdatedIsTheRest ==
    ASSUME ctl \in Worker
    PROVE  /\ \A p : LET c == OutdatedPod(p)
                     IN  /\ c.pc = ctl.pc /\ c.key = ctl.key /\ c.desired = ctl.desired
                         /\ c.turns = ctl.turns /\ c.unseen = ctl.unseen
                         /\ c.fresh = ctl.fresh \ {p} /\ c.owned = ctl.owned
                         /\ c.adopt = ctl.adopt
           /\ \A r : LET c == OutdatedSet(r)
                     IN  /\ c.pc = ctl.pc /\ c.key = ctl.key /\ c.desired = ctl.desired
                         /\ c.turns = ctl.turns /\ c.unseen = ctl.unseen
                         /\ c.fresh = ctl.fresh /\ c.owned = ctl.owned
                         /\ c.adopt = ctl.adopt
  BY DEF OutdatedPod, OutdatedSet, Worker

LEMMA PeopleFresh ==
    ASSUME TypeOK, FreshCopies, People
    PROVE  FreshCopies'
<1>0. ctl \in Worker /\ pods \in [Pod -> PodObject \cup {Absent}]
  BY DEF TypeOK, Worker, Phase
<1>s. ASSUME NEW r, pods' = pods, ctl' = OutdatedSet(r) PROVE FreshCopies'
  BY <1>0, <1>s, OutdatedIsTheRest, FreshStays
<1>p. ASSUME NEW p \in Pod, NEW v, pods' = [pods EXCEPT ![p] = v], ctl' = OutdatedPod(p)
      PROVE  FreshCopies'
  <2>1. \A q \in Pod \ {p} : pods'[q] = pods[q]
    BY <1>0, <1>p
  <2> QED
    BY <1>0, <1>p, <2>1, OutdatedIsTheRest, OutdatedPodFresh
<1>1. ASSUME NEW r \in ReplicaSet, NEW n \in 0..MaxReplicas, ApplySet(r, n) PROVE FreshCopies'
  BY <1>1, <1>s DEF ApplySet
<1>2. ASSUME NEW r \in ReplicaSet, DeleteSet(r) PROVE FreshCopies'
  BY <1>2, <1>s DEF DeleteSet
<1>3. ASSUME NEW p \in Pod, ApplyPod(p) PROVE FreshCopies'
  BY <1>3, <1>p DEF ApplyPod
<1>4. ASSUME NEW p \in Pod, DeletePod(p) PROVE FreshCopies'
  BY <1>4, <1>p DEF DeletePod
<1>5. ASSUME NEW p \in Pod, ReplacePodStatus(p) PROVE FreshCopies'
  <2>1. \E v : pods' = [pods EXCEPT ![p] = v]
    BY <1>5 DEF ReplacePodStatus
  <2> QED
    BY <1>5, <1>p, <2>1 DEF ReplacePodStatus
<1> QED
  BY <1>1, <1>2, <1>3, <1>4, <1>5 DEF People

LEMMA NewPodFresh ==
    ASSUME TypeOK, FreshCopies, Existing # Pod, NEW q \in ReplicaSet, pods' = NewPod(q),
           ctl'.key = ctl.key, ctl'.fresh = ctl.fresh,
           ctl'.owned = ctl.owned, ctl'.adopt = ctl.adopt
    PROVE  FreshCopies'
<1>1. \A p \in Pod : pods[p] # Absent => pods'[p] = pods[p]
  BY PodAdded DEF TypeOK
<1>2. \A p \in ctl.fresh : p \in Pod /\ (p \in ctl.owned \cup ctl.adopt => pods[p] # Absent)
  BY DEF TypeOK, FreshCopies, IsOwnedBy
<1> QED
  BY <1>1, <1>2, FreshStays

(* What is listed is as it is, or not among the current copies.            *)
LEMMA ListedAsItIs ==
    ASSUME TypeOK, ShownAsItIs, NEW p \in Fresh
    PROVE  p \in Pod /\ pods[p] # Absent /\ pods[p] = Seen.pods[p]
  BY DEF Fresh, Listed, Seen, ShownAsItIs, TypeOK

(* The store lets a request pass only if its copy is current, and then the *)
(* pod is the set's own, or nobody's.                                      *)
LEMMA DeletesItsOwn ==
    ASSUME FreshCopies, NEW p \in ctl.owned, DeleteAllowed(p)
    PROVE  IsOwnedBy(p, ctl.key) /\ p \in ctl.fresh
  BY DEF FreshCopies, DeleteAllowed, RvCheck

LEMMA AdoptsNobodys ==
    ASSUME FreshCopies, NEW p \in ctl.adopt, p \in ctl.fresh
    PROVE  pods[p] # Absent /\ CanAdopt(pods[p])
  BY DEF FreshCopies

LEMMA GaveUp ==
    ASSUME ShownAsItIs, GivenUp, ReplicaStays, sets' = sets, pods' = pods,
           NEW op, NEW p, NEW s, NEW c, GiveUp(op, p, s, c),
           c => /\ op = "adopt" => p \in Pod /\ pods[p] # Absent /\ CanAdopt(pods[p])
                /\ op = "delete" => p \in Pod /\ IsOwnedBy(p, ctl.key)
                /\ op = "status" => sets[ctl.key] # Absent
    PROVE  ShownAsItIs' /\ GivenUp'
<1>1. newer' = newer /\ (late' = late \/ (c /\ \E l : /\ l.op = op /\ l.set = ctl.key /\ l.pod = p
                                                     /\ late' = late \cup {l}))
  <2>1. PICK l : l = [op |-> op, set |-> ctl.key, pod |-> p, status |-> s, nr |-> mishaps]
    OBVIOUS
  <2>2. l.op = op /\ l.set = ctl.key /\ l.pod = p
    BY <2>1
  <2>3. newer' = newer /\ (late' = late \/ (c /\ late' = late \cup {l}))
    BY <2>1 DEF GiveUp
  <2> QED
    BY <2>2, <2>3
<1>2. \A l \in late' : l \in late \/ MayHappen(l)
  BY <1>1 DEF MayHappen
<1> QED
  BY <1>1, <1>2, NothingWritten

(* One request for a deletion, of whatever becomes of it.                  *)
LEMMA DeletionCopies ==
    ASSUME TypeOK, TrueCopies, NEW p \in ctl.owned, ctl' = [ctl EXCEPT !.owned = @ \ {p}],
           ctl.key \in ReplicaSet, sets' = sets,
           \/ /\ DeleteAllowed(p) /\ pods' = [pods EXCEPT ![p] = Absent]
              /\ PodChanges(p) /\ Enqueue({ctl.key})
           \/ /\ UNCHANGED <<copies, pods, local>>
           \/ /\ GiveUp("delete", p, NoStatus, DeleteAllowed(p)) /\ UNCHANGED <<pods, local>>
    PROVE  TrueCopies'
<1>0. /\ ctl \in Worker /\ pods \in [Pod -> PodObject \cup {Absent}]
      /\ FreshCopies /\ ShownAsItIs /\ GivenUp
  BY DEF TypeOK, Worker, Phase, TrueCopies
<1>1. /\ ctl'.key = ctl.key /\ ctl'.fresh = ctl.fresh
      /\ ctl'.owned = ctl.owned \ {p} /\ ctl'.adopt = ctl.adopt
  BY <1>0 DEF Worker
<1>2. ctl.owned \subseteq Pod /\ ctl.adopt \subseteq Pod
  BY <1>0 DEF Worker
<1>3. DeleteAllowed(p) => p \in Pod /\ IsOwnedBy(p, ctl.key) /\ p \in ctl.fresh
  BY <1>0, <1>2, DeletesItsOwn
<1>4. CASE /\ DeleteAllowed(p) /\ pods' = [pods EXCEPT ![p] = Absent]
           /\ PodChanges(p) /\ Enqueue({ctl.key})
  <2>1. p \notin ctl.adopt
    BY <1>0, <1>3, <1>4, NoOwnerIsNoSet DEF FreshCopies, IsOwnedBy, CanAdopt
  <2>2. \A q \in Pod \ {p} : pods'[q] = pods[q]
    BY <1>0, <1>4
  <2>3. FreshCopies'
    BY <1>0, <1>1, <1>2, <2>1, <2>2, FreshStays
  <2>4. ShownAsItIs' /\ GivenUp'
    BY <1>0, <1>2, <1>4, WrittenPod, EnqueueKeepsReplica
  <2> QED
    BY <2>3, <2>4 DEF TrueCopies
<1>5. CASE /\ pods' = pods /\ local' = local
           /\ UNCHANGED copies \/ GiveUp("delete", p, NoStatus, DeleteAllowed(p))
  <2>1. FreshCopies'
    BY <1>0, <1>1, <1>5, FreshStays
  <2>2. ReplicaStays
    BY <1>5 DEF ReplicaStays
  <2>3. CASE UNCHANGED copies
    BY <1>0, <1>5, <2>1, <2>2, <2>3, NothingWritten DEF TrueCopies, copies
  <2>4. CASE GiveUp("delete", p, NoStatus, DeleteAllowed(p))
    <3>1. ShownAsItIs' /\ GivenUp'
      BY <1>0, <1>3, <1>5, <2>2, <2>4, GaveUp
    <3> QED
      BY <2>1, <3>1 DEF TrueCopies
  <2> QED
    BY <1>5, <2>3, <2>4
<1> QED
  BY <1>4, <1>5

LEMMA AdoptCopies ==
    ASSUME TypeOK, Started(ctl), TrueCopies, NEW p \in Pod, Adopt(p)
    PROVE  TrueCopies'
<1>0. /\ ctl \in Worker /\ pods \in [Pod -> PodObject \cup {Absent}] /\ ctl.key \in ReplicaSet
      /\ FreshCopies /\ ShownAsItIs /\ GivenUp /\ p \in ctl.adopt /\ sets' = sets
  BY DEF TypeOK, Worker, Phase, TrueCopies, Adopt, Started
<1>1. CASE /\ RvCheck(pods[p], p \in ctl.fresh) = "Ok"
           /\ pods' = [pods EXCEPT ![p].owner = ctl.key]
           /\ ctl' = [ctl EXCEPT !.adopt = @ \ {p}, !.owned = @ \cup {p}]
           /\ PodChanges(p) /\ Enqueue({ctl.key})
  <2>1. /\ ctl'.key = ctl.key /\ ctl'.fresh = ctl.fresh
        /\ ctl'.owned = ctl.owned \cup {p} /\ ctl'.adopt = ctl.adopt \ {p}
    BY <1>0, <1>1 DEF Worker
  <2>2. pods[p] # Absent
    BY <1>1 DEF RvCheck
  <2>3. /\ pods'[p] # Absent /\ pods'[p].owner = ctl.key
        /\ \A q \in Pod \ {p} : pods'[q] = pods[q]
        /\ \E v : pods' = [pods EXCEPT ![p] = v]
    BY <1>0, <1>1, <2>2, NewOwnerType
  <2>4. ctl.fresh \subseteq Pod
    BY <1>0 DEF Worker
  <2>5. ASSUME NEW q \in ctl'.fresh
        PROVE  /\ q \in ctl'.owned => pods'[q] # Absent /\ pods'[q].owner = ctl'.key
               /\ q \in ctl'.adopt => pods'[q] # Absent /\ pods'[q].owner = NoOwner
    BY <1>0, <2>1, <2>3, <2>4 DEF FreshCopies, IsOwnedBy, CanAdopt
  <2>6. FreshCopies'
    BY <2>5 DEF FreshCopies, IsOwnedBy, CanAdopt
  <2>7. ShownAsItIs' /\ GivenUp'
    BY <1>0, <1>1, <2>3, WrittenPod, EnqueueKeepsReplica
  <2> QED
    BY <2>6, <2>7 DEF TrueCopies
<1>2. CASE /\ pods' = pods /\ local' = local /\ ctl' = [ctl EXCEPT !.adopt = @ \ {p}]
           /\ UNCHANGED copies \/ GiveUp("adopt", p, NoStatus, p \in ctl.fresh)
  <2>1. /\ ctl'.key = ctl.key /\ ctl'.fresh = ctl.fresh
        /\ ctl'.owned = ctl.owned /\ ctl'.adopt = ctl.adopt \ {p}
    BY <1>0, <1>2 DEF Worker
  <2>2. FreshCopies'
    BY <1>0, <1>2, <2>1, FreshStays
  <2>3. ReplicaStays
    BY <1>2 DEF ReplicaStays
  <2>4. CASE UNCHANGED copies
    BY <1>0, <1>2, <2>2, <2>3, <2>4, NothingWritten DEF TrueCopies, copies
  <2>5. CASE GiveUp("adopt", p, NoStatus, p \in ctl.fresh)
    <3>1. p \in ctl.fresh => pods[p] # Absent /\ CanAdopt(pods[p])
      BY <1>0, AdoptsNobodys
    <3>2. ShownAsItIs' /\ GivenUp'
      BY <1>0, <1>2, <2>3, <2>5, <3>1, GaveUp
    <3> QED
      BY <2>2, <3>2 DEF TrueCopies
  <2> QED
    BY <1>2, <2>4, <2>5
<1> QED
  BY <1>1, <1>2 DEF Adopt

LEMMA ReconcileCopies ==
    ASSUME TypeOK, Started(ctl), TrueCopies, Reconcile
    PROVE  TrueCopies'
<1>0. ctl \in Worker /\ FreshCopies /\ ShownAsItIs /\ GivenUp
  BY DEF TypeOK, Worker, Phase, TrueCopies
<1>i. ctl' = Idle => FreshCopies'
  BY FreshEmpty DEF Idle
<1>r. ASSUME UNCHANGED <<sets, pods, local, newer, late>>, FreshCopies' PROVE TrueCopies'
  <2>1. ShownAsItIs' /\ GivenUp'
    BY <1>0, <1>r, NothingWritten DEF ReplicaStays
  <2> QED
    BY <1>r, <2>1 DEF TrueCopies
<1>1. CASE GetReplicaSet
  <2>1. /\ ctl'.key = ctl.key /\ ctl'.fresh = ctl.fresh /\ pods' = pods
        /\ ctl'.owned = ctl.owned /\ ctl'.adopt = ctl.adopt
    BY <1>0, <1>1 DEF GetReplicaSet, Worker, apiVars
  <2>2. FreshCopies'
    BY <1>0, <2>1, FreshStays
  <2> QED
    BY <1>1, <1>r, <2>2 DEF GetReplicaSet, apiVars, copies
<1>2. CASE ListPods
  <2>1. /\ ctl'.key = ctl.key /\ ctl'.fresh = Fresh /\ pods' = pods
        /\ ctl'.owned = OwnedIn(Seen.pods, ctl.key)
        /\ ctl'.adopt = {p \in Listed(Seen.pods) : CanAdopt(Seen.pods[p])}
    BY <1>0, <1>2 DEF ListPods, Worker, apiVars
  <2>2. FreshCopies'
    BY <1>0, <2>1, ListedAsItIs DEF FreshCopies, OwnedIn, IsOwnedBy
  <2> QED
    BY <1>2, <1>r, <2>2 DEF ListPods, apiVars, copies
<1>3. CASE CreatePod
  <2>1. /\ ctl'.key = ctl.key /\ ctl'.fresh = ctl.fresh
        /\ ctl'.owned = ctl.owned /\ ctl'.adopt = ctl.adopt /\ sets' = sets
    BY <1>0, <1>3 DEF CreatePod, Worker
  <2>2. ctl.key \in ReplicaSet
    BY <1>3 DEF CreatePod, Scaling, Started
  <2>3. CASE Existing # Pod /\ pods' = NewPod(ctl.key) /\ Enqueue({ctl.key}) /\ UNCHANGED copies
    <3>1. FreshCopies'
      BY <1>0, <2>1, <2>2, <2>3, NewPodFresh
    <3>2. ShownAsItIs' /\ GivenUp'
      BY <1>0, <2>1, <2>2, <2>3, NewPodCopies, EnqueueKeepsReplica DEF copies
    <3> QED
      BY <3>1, <3>2 DEF TrueCopies
  <2>4. CASE pods' = pods /\ local' = local /\ UNCHANGED copies
    BY <1>0, <1>r, <2>1, <2>4, FreshStays DEF copies
  <2>5. CASE pods' = pods /\ local' = local /\ GiveUp("create", NoPod, NoStatus, TRUE)
    <3>1. FreshCopies'
      BY <1>0, <2>1, <2>5, FreshStays
    <3>2. ReplicaStays
      BY <2>5 DEF ReplicaStays
    <3>3. ShownAsItIs' /\ GivenUp'
      BY <1>0, <2>1, <2>5, <3>2, GaveUp
    <3> QED
      BY <3>1, <3>3 DEF TrueCopies
  <2> QED
    BY <1>3, <2>3, <2>4, <2>5 DEF CreatePod
<1>4. CASE UpdateStatus
  <2>1. ctl'.fresh = {}
    BY <1>4 DEF UpdateStatus, Idle
  <2> QED
    BY <1>4, <1>r, <2>1, FreshEmpty DEF UpdateStatus, apiVars, copies
<1>5. CASE PutStatus
  <2>1. FreshCopies' /\ pods' = pods /\ ctl.key \in ReplicaSet
    BY <1>5, <1>i DEF PutStatus, Retry, Started
  <2>2. CASE /\ sets' = ReplaceReplicaSetStatus(ctl.key, ctl.status)
             /\ SetChanges(ctl.key) /\ Enqueue({ctl.key})
    <3>1. \E v : sets' = [sets EXCEPT ![ctl.key] = v]
      BY <2>2 DEF ReplaceReplicaSetStatus
    <3>2. ShownAsItIs' /\ GivenUp'
      BY <1>0, <2>1, <2>2, <3>1, WrittenSet, EnqueueKeepsReplica
    <3> QED
      BY <2>1, <3>2 DEF TrueCopies
  <2>3. CASE sets' = sets /\ local' = local /\ UNCHANGED copies
    BY <1>r, <2>1, <2>3 DEF copies
  <2>4. CASE /\ sets' = sets /\ local' = local
             /\ GiveUp("status", NoPod, ctl.status, RvCheck(sets[ctl.key], ctl.current) = "Ok")
    <3>1. RvCheck(sets[ctl.key], ctl.current) = "Ok" => sets[ctl.key] # Absent
      BY DEF RvCheck
    <3>2. ReplicaStays
      BY <2>4 DEF ReplicaStays
    <3>3. ShownAsItIs' /\ GivenUp'
      BY <1>0, <2>1, <2>4, <3>1, <3>2, GaveUp
    <3> QED
      BY <2>1, <3>3 DEF TrueCopies
  <2> QED
    BY <1>5, <2>2, <2>3, <2>4 DEF PutStatus
<1>6. CASE CascadeList
  <2>1. /\ ctl'.key = ctl.key /\ ctl'.fresh = Fresh /\ pods' = pods
        /\ ctl'.owned = OwnedIn(Seen.pods, ctl.key) /\ ctl'.adopt = {}
    BY <1>0, <1>6 DEF CascadeList, Worker, Started, apiVars
  <2>2. FreshCopies'
    BY <1>0, <2>1, ListedAsItIs DEF FreshCopies, OwnedIn, IsOwnedBy
  <2> QED
    BY <1>6, <1>r, <2>2 DEF CascadeList, apiVars, copies
<1>7. CASE CascadeDone
  BY <1>7, <1>i, <1>r DEF CascadeDone, apiVars, copies
<1>8. ASSUME NEW p \in Pod, Adopt(p) PROVE TrueCopies'
  BY <1>8, AdoptCopies
<1>9. ASSUME NEW p \in Pod, DeleteSurplus(p) PROVE TrueCopies'
  <2>1. ctl.key \in ReplicaSet
    BY <1>9 DEF DeleteSurplus, Scaling, Started
  <2> QED
    BY <1>9, <2>1, DeletionCopies DEF DeleteSurplus
<1>10. ASSUME NEW p \in Pod, CascadeDelete(p) PROVE TrueCopies'
  <2>1. ctl.key \in ReplicaSet
    BY <1>10 DEF CascadeDelete, Started
  <2> QED
    BY <1>10, <2>1, DeletionCopies DEF CascadeDelete
<1> QED
  BY <1>1, <1>2, <1>3, <1>4, <1>5, <1>6, <1>7, <1>8, <1>9, <1>10 DEF Reconcile

LEMMA HappensCopies ==
    ASSUME TypeOK, TrueCopies, NEW l \in late, Happens(l)
    PROVE  TrueCopies'
<1>0. /\ ctl \in Worker /\ pods \in [Pod -> PodObject \cup {Absent}]
      /\ FreshCopies /\ ShownAsItIs /\ GivenUp /\ MayHappen(l) /\ l.set \in ReplicaSet
  BY DEF TypeOK, Worker, Phase, TrueCopies, GivenUp, Request
<1>q. ReplicaStays
  BY EnqueueKeepsReplica DEF Happens
<1>w. ASSUME l.pod \in Pod, NEW v, pods' = [pods EXCEPT ![l.pod] = v], sets' = sets,
             PodChanges(l.pod), ctl'.key = ctl.key, ctl'.fresh = ctl.fresh \ {l.pod},
             ctl'.owned = ctl.owned, ctl'.adopt = ctl.adopt
      PROVE  TrueCopies'
  <2>1. \A q \in Pod \ {l.pod} : pods'[q] = pods[q]
    BY <1>0, <1>w
  <2>2. FreshCopies'
    BY <1>0, <1>w, <2>1, OutdatedPodFresh
  <2>3. ShownAsItIs' /\ GivenUp'
    BY <1>0, <1>q, <1>w, WrittenPod
  <2> QED
    BY <2>2, <2>3 DEF TrueCopies
<1>1. CASE LateCreate(l)
  <2>1. /\ ctl'.key = ctl.key /\ ctl'.fresh = ctl.fresh
        /\ ctl'.owned = ctl.owned /\ ctl'.adopt = ctl.adopt
    BY <1>0, <1>1 DEF LateCreate, Worker
  <2>2. FreshCopies'
    BY <1>0, <1>1, <2>1, NewPodFresh DEF LateCreate
  <2>3. late' \subseteq late
    BY <1>1 DEF LateCreate
  <2>4. ShownAsItIs' /\ GivenUp'
    BY <1>0, <1>1, <1>q, <2>3, NewPodCopies DEF LateCreate
  <2> QED
    BY <2>2, <2>4 DEF TrueCopies
<1>2. CASE LateAdopt(l)
  <2>1. l.pod \in Pod /\ pods[l.pod] # Absent
    BY <1>0, <1>2 DEF LateAdopt, MayHappen
  <2>2. \E v : pods' = [pods EXCEPT ![l.pod] = v]
    BY <1>0, <1>2, <2>1, NewOwnerType DEF LateAdopt
  <2>3. PICK c : c = OutdatedPod(l.pod)
    OBVIOUS
  <2>4. /\ c \in Worker /\ c.key = ctl.key /\ c.fresh = ctl.fresh \ {l.pod}
        /\ c.owned = ctl.owned /\ c.adopt = ctl.adopt
    BY <1>0, <2>3 DEF OutdatedPod, Worker
  <2>5. /\ ctl'.key = ctl.key /\ ctl'.fresh = ctl.fresh \ {l.pod}
        /\ ctl'.owned = ctl.owned /\ ctl'.adopt = ctl.adopt
    BY <1>2, <2>3, <2>4 DEF LateAdopt, Worker
  <2> QED
    BY <1>2, <1>w, <2>1, <2>2, <2>5 DEF LateAdopt
<1>3. CASE LateDelete(l)
  <2>1. l.pod \in Pod
    BY <1>0, <1>3 DEF LateDelete, MayHappen
  <2> QED
    BY <1>0, <1>3, <1>w, <2>1, OutdatedIsTheRest DEF LateDelete
<1>4. CASE LateStatus(l)
  <2>1. FreshCopies'
    BY <1>0, <1>4, OutdatedIsTheRest, FreshStays DEF LateStatus
  <2>2. \E v : sets' = [sets EXCEPT ![l.set] = v]
    BY <1>4 DEF LateStatus, ReplaceReplicaSetStatus
  <2>3. ShownAsItIs' /\ GivenUp'
    BY <1>0, <1>4, <1>q, <2>2, WrittenSet DEF LateStatus
  <2> QED
    BY <2>1, <2>3 DEF TrueCopies
<1> QED
  BY <1>1, <1>2, <1>3, <1>4 DEF Happens

LEMMA StepCopies ==
    ASSUME TypeOK, Started(ctl), TrueCopies, [Next]_vars
    PROVE  TrueCopies'
<1>0. ctl \in Worker /\ FreshCopies /\ ShownAsItIs /\ GivenUp
  BY DEF TypeOK, Worker, Phase, TrueCopies
<1>f. pods' = pods /\ (ctl' = ctl \/ ctl'.fresh = {}) => FreshCopies'
  BY <1>0, FreshStays, FreshEmpty
<1>r. UNCHANGED <<sets, pods, local, newer, late>> => ShownAsItIs' /\ GivenUp'
  BY <1>0, NothingWritten DEF ReplicaStays
<1>1. ASSUME NEW r \in ReplicaSet, TakeKey(r) PROVE TrueCopies'
  BY <1>1, <1>f, <1>r DEF TakeKey, Idle, apiVars, copies, TrueCopies
<1>2. ASSUME NEW l \in late, Happens(l) PROVE TrueCopies'
  BY <1>2, HappensCopies
<1>3. CASE RequestFails \/ Restart
  BY <1>3, <1>f, <1>r DEF RequestFails, Retry, Restart, Idle, apiVars, copies, TrueCopies
<1>4. CASE Resync \/ InformerReconnects \/ UNCHANGED vars
  BY <1>4, <1>f, <1>r DEF Resync, InformerReconnects, vars, apiVars, copies, TrueCopies
<1>5. CASE FallsBehind
  <2>1. local' = [sets |-> sets, pods |-> pods, events |-> {}]
    BY <1>5 DEF FallsBehind, Seen
  <2>2. local'.pods = pods /\ pods' = pods /\ sets' = sets /\ late' = late /\ ctl' = ctl
    BY <1>5, <2>1 DEF FallsBehind, apiVars, copies
  <2>3. ShownAsItIs'
    BY <2>2 DEF ShownAsItIs
  <2>4. GivenUp'
    BY <1>0, <2>2 DEF GivenUp, MayHappen, IsOwnedBy
  <2> QED
    BY <1>f, <2>2, <2>3, <2>4 DEF TrueCopies
<1>6. CASE CatchesUp
  <2>1. local' = Absent /\ pods' = pods /\ sets' = sets /\ late' = late /\ ctl' = ctl
    BY <1>6 DEF CatchesUp, apiVars
  <2>2. ShownAsItIs' /\ GivenUp'
    BY <1>0, <2>1 DEF ShownAsItIs, GivenUp, MayHappen, IsOwnedBy
  <2> QED
    BY <1>f, <2>1, <2>2 DEF TrueCopies
<1>7. CASE People
  BY <1>0, <1>7, PeopleFresh, PeopleCopies DEF TrueCopies
<1> QED
  BY <1>1, <1>2, <1>3, <1>4, <1>5, <1>6, <1>7, ReconcileCopies DEF Next

-----------------------------------------------------------------------------
(* NotYetOwned *)

LEMMA NotScaling == ctl'.pc # "scale" => NotYetOwned'
  BY DEF NotYetOwned

LEMMA CountStays ==
    ASSUME ctl \in Worker, ctl' \in Worker, NotYetOwned, ctl'.pc = ctl.pc,
           ctl'.key = ctl.key, ctl'.desired = ctl.desired, ctl'.turns = ctl.turns,
           ctl.unseen => ctl'.unseen, ctl.owned \subseteq ctl'.owned,
           ~ctl'.unseen => Uncounted' \subseteq Uncounted
    PROVE  NotYetOwned'
<1> SUFFICES ASSUME ctl'.pc = "scale", ~ctl'.unseen, Missing' > 0
             PROVE  Cardinality(Uncounted') <= ctl'.turns
  BY DEF NotYetOwned
<1>1. ctl.owned \in SUBSET Pod /\ ctl'.owned \in SUBSET Pod
  BY DEF Worker
<1>2. Cardinality(ctl.owned) <= Cardinality(ctl'.owned)
  BY <1>1, FewerPods
<1>3. /\ Cardinality(ctl.owned) \in Nat /\ Cardinality(ctl'.owned) \in Nat
      /\ ctl.turns \in Nat /\ ctl.desired \in Nat
  BY <1>1, PodsAreFinite, MissingIsInt, Bounds
<1>4. Missing > 0
  BY <1>2, <1>3 DEF Missing
<1>5. Cardinality(Uncounted) <= ctl.turns
  BY <1>4 DEF NotYetOwned
<1>6. Uncounted \in SUBSET Pod
  BY DEF Uncounted, OwnedIn, Listed
<1>7. PICK S, T : S = Uncounted /\ T = Uncounted'
  OBVIOUS
<1>8. T \in SUBSET S /\ S \in SUBSET Pod /\ T \in SUBSET Pod
  BY <1>6, <1>7
<1>9. Cardinality(T) <= Cardinality(S) /\ Cardinality(T) \in Nat /\ Cardinality(S) \in Nat
  BY <1>8, FewerPods, PodsAreFinite, Bounds
<1> QED
  BY <1>3, <1>5, <1>7, <1>9

(* The pods change, or not, and the worker's count does not.               *)
LEMMA CountUntouched ==
    ASSUME ctl \in Worker, ctl' \in Worker, NotYetOwned, ctl'.pc = ctl.pc,
           ctl'.key = ctl.key, ctl'.desired = ctl.desired, ctl'.turns = ctl.turns,
           ctl.unseen => ctl'.unseen, ctl'.owned = ctl.owned,
           ~ctl'.unseen => OwnedIn(pods', ctl.key) \subseteq OwnedIn(pods, ctl.key)
    PROVE  NotYetOwned'
<1>1. Uncounted' = OwnedIn(pods', ctl'.key) \ ctl'.owned
  BY DEF Uncounted, OwnedIn, Listed
<1>2. ~ctl'.unseen => Uncounted' \subseteq Uncounted
  BY <1>1 DEF Uncounted
<1> QED
  BY <1>2, CountStays

LEMMA PeopleLosePods ==
    ASSUME TypeOK, People, NEW r \in ReplicaSet \cup {NoOwner}, r # NoOwner
    PROVE  OwnedIn(pods', r) \subseteq OwnedIn(pods, r)
<1>0. pods \in [Pod -> PodObject \cup {Absent}]
  BY DEF TypeOK
<1>1. CASE pods' = pods
  BY <1>1
<1>2. ASSUME NEW p \in Pod, ApplyPod(p) PROVE OwnedIn(pods', r) \subseteq OwnedIn(pods, r)
  <2>1. PICK o : o = [owner |-> NoOwner,
                      ready |-> IF pods[p] = Absent THEN FALSE ELSE pods[p].ready]
    OBVIOUS
  <2>2. pods' = [pods EXCEPT ![p] = o] /\ o.owner = NoOwner
    BY <1>2, <2>1 DEF ApplyPod
  <2>3. pods'[p].owner = NoOwner /\ \A q \in Pod \ {p} : pods'[q] = pods[q]
    BY <1>0, <2>2
  <2> QED
    BY <2>3 DEF OwnedIn, Listed
<1>3. ASSUME NEW p \in Pod, DeletePod(p) PROVE OwnedIn(pods', r) \subseteq OwnedIn(pods, r)
  BY <1>0, <1>3, PodGone DEF DeletePod
<1>4. ASSUME NEW p \in Pod, ReplacePodStatus(p) PROVE OwnedIn(pods', r) \subseteq OwnedIn(pods, r)
  <2>1. pods[p] \in PodObject
    BY <1>0, <1>4 DEF ReplacePodStatus
  <2>2. PICK o : o = [pods[p] EXCEPT !.ready = ~ @]
    OBVIOUS
  <2>3. pods' = [pods EXCEPT ![p] = o] /\ o.owner = pods[p].owner
    BY <1>4, <2>1, <2>2 DEF ReplacePodStatus, PodObject
  <2>4. pods'[p].owner = pods[p].owner /\ \A q \in Pod \ {p} : pods'[q] = pods[q]
    BY <1>0, <2>3
  <2> QED
    BY <1>4, <2>4 DEF OwnedIn, Listed, ReplacePodStatus
<1> QED
  BY <1>1, <1>2, <1>3, <1>4 DEF People, ApplySet, DeleteSet

LEMMA PeopleKeepCount ==
    ASSUME ctl \in Worker, People
    PROVE  /\ ctl'.pc = ctl.pc /\ ctl'.key = ctl.key /\ ctl'.desired = ctl.desired
           /\ ctl'.turns = ctl.turns /\ ctl'.unseen = ctl.unseen /\ ctl'.owned = ctl.owned
<1>1. \/ \E r \in ReplicaSet : ctl' = OutdatedSet(r)
      \/ \E p \in Pod : ctl' = OutdatedPod(p)
  BY DEF People, ApplySet, DeleteSet, ApplyPod, DeletePod, ReplacePodStatus
<1>2. ASSUME NEW r \in ReplicaSet
      PROVE  /\ OutdatedSet(r).pc = ctl.pc /\ OutdatedSet(r).key = ctl.key
             /\ OutdatedSet(r).desired = ctl.desired /\ OutdatedSet(r).turns = ctl.turns
             /\ OutdatedSet(r).unseen = ctl.unseen /\ OutdatedSet(r).owned = ctl.owned
  BY DEF OutdatedSet, Worker
<1>3. ASSUME NEW p \in Pod
      PROVE  /\ OutdatedPod(p).pc = ctl.pc /\ OutdatedPod(p).key = ctl.key
             /\ OutdatedPod(p).desired = ctl.desired /\ OutdatedPod(p).turns = ctl.turns
             /\ OutdatedPod(p).unseen = ctl.unseen /\ OutdatedPod(p).owned = ctl.owned
  BY DEF OutdatedPod, Worker
<1> QED
  BY <1>1, <1>2, <1>3

LEMMA PeopleCount ==
    ASSUME TypeOK, Started(ctl), NotYetOwned, People
    PROVE  NotYetOwned'
<1>0. ctl \in Worker /\ ctl' \in Worker
  BY PeopleType DEF TypeOK, Worker, Phase
<1>1. /\ ctl'.pc = ctl.pc /\ ctl'.key = ctl.key /\ ctl'.desired = ctl.desired
      /\ ctl'.turns = ctl.turns /\ ctl'.unseen = ctl.unseen /\ ctl'.owned = ctl.owned
  BY <1>0, PeopleKeepCount
<1>2. CASE ctl.pc = "scale"
  <2>1. ctl.key \in ReplicaSet
    BY <1>2 DEF Started
  <2>2. OwnedIn(pods', ctl.key) \subseteq OwnedIn(pods, ctl.key)
    BY <2>1, PeopleLosePods, NoOwnerIsNoSet
  <2> QED
    BY <1>0, <1>1, <2>2, CountUntouched
<1>3. CASE ctl.pc # "scale"
  BY <1>1, <1>3, NotScaling
<1> QED
  BY <1>2, <1>3

LEMMA CreateCount ==
    ASSUME TypeOK, Started(ctl), NotYetOwned, CreatePod
    PROVE  NotYetOwned'
<1>0. ctl \in Worker /\ pods \in [Pod -> PodObject \cup {Absent}] /\ ctl.key \in ReplicaSet
  BY DEF TypeOK, Worker, Phase, CreatePod, Scaling, Started
<1>1. /\ ctl'.pc = ctl.pc /\ ctl'.key = ctl.key /\ ctl'.desired = ctl.desired
      /\ ctl'.turns = ctl.turns + 1 /\ ctl'.unseen = ctl.unseen /\ ctl'.owned = ctl.owned
  BY <1>0 DEF CreatePod, Worker
<1>2. ctl.pc = "scale" /\ Missing > 0
  BY DEF CreatePod, Scaling, CreateMissing
<1> SUFFICES ASSUME ~ctl'.unseen PROVE Cardinality(Uncounted') <= ctl'.turns
  BY DEF NotYetOwned
<1>3. Cardinality(Uncounted) <= ctl.turns
  BY <1>1, <1>2 DEF NotYetOwned
<1>4. PICK S, T : S = Uncounted /\ T = Uncounted'
  OBVIOUS
<1>5. S = OwnedIn(pods, ctl.key) \ ctl.owned /\ T = OwnedIn(pods', ctl.key) \ ctl.owned
  BY <1>1, <1>4 DEF Uncounted, OwnedIn, Listed
<1>6. S \in SUBSET Pod /\ T \in SUBSET Pod
  BY <1>5 DEF OwnedIn, Listed
<1>7. Cardinality(T) <= Cardinality(S) + 1
  <2>1. CASE Existing # Pod /\ pods' = NewPod(ctl.key)
    <3>1. OwnedIn(pods', ctl.key) \subseteq OwnedIn(pods, ctl.key) \cup {NewName}
      BY <1>0, <2>1, PodAdded
    <3>2. T \in SUBSET (S \cup {NewName}) /\ NewName \in Pod
      BY <1>5, <2>1, <3>1, NewNameIsFree
    <3> QED
      BY <1>6, <3>2, OnePodMore
  <2>2. CASE pods' = pods
    <3>1. S = T
      BY <1>5, <2>2
    <3>2. Cardinality(S) \in Nat
      BY <1>6, PodsAreFinite, Bounds
    <3> QED
      BY <3>1, <3>2
  <2> QED
    BY <2>1, <2>2 DEF CreatePod
<1>8. Cardinality(S) \in Nat /\ Cardinality(T) \in Nat /\ ctl.turns \in Nat
  BY <1>0, <1>6, PodsAreFinite, MissingIsInt, Bounds
<1> QED
  BY <1>1, <1>3, <1>4, <1>7, <1>8

LEMMA AdoptCount ==
    ASSUME TypeOK, Started(ctl), NotYetOwned, NEW p \in Pod, Adopt(p)
    PROVE  NotYetOwned'
<1>0. ctl \in Worker /\ pods \in [Pod -> PodObject \cup {Absent}] /\ ctl.key \in ReplicaSet
  BY DEF TypeOK, Worker, Phase, Adopt, Started
<1>1. CASE /\ RvCheck(pods[p], p \in ctl.fresh) = "Ok"
           /\ pods' = [pods EXCEPT ![p].owner = ctl.key]
           /\ ctl' = [ctl EXCEPT !.adopt = @ \ {p}, !.owned = @ \cup {p}]
  <2>1. /\ ctl'.pc = ctl.pc /\ ctl'.key = ctl.key /\ ctl'.desired = ctl.desired
        /\ ctl'.turns = ctl.turns /\ ctl'.unseen = ctl.unseen /\ ctl'.owned = ctl.owned \cup {p}
        /\ ctl' \in Worker
    BY <1>0, <1>1 DEF Worker
  <2>2. \A q \in Pod \ {p} : pods'[q] = pods[q]
    BY <1>0, <1>1
  <2>3. Uncounted' = OwnedIn(pods', ctl.key) \ (ctl.owned \cup {p})
    BY <2>1 DEF Uncounted, OwnedIn, Listed
  <2>4. Uncounted' \subseteq Uncounted
    BY <2>2, <2>3 DEF Uncounted, OwnedIn, Listed
  <2> QED
    BY <1>0, <2>1, <2>4, CountStays
<1>2. CASE pods' = pods /\ ctl' = [ctl EXCEPT !.adopt = @ \ {p}]
  <2>1. /\ ctl'.pc = ctl.pc /\ ctl'.key = ctl.key /\ ctl'.desired = ctl.desired
        /\ ctl'.turns = ctl.turns /\ ctl'.unseen = ctl.unseen /\ ctl'.owned = ctl.owned
        /\ ctl' \in Worker
    BY <1>0, <1>2 DEF Worker
  <2> QED
    BY <1>0, <1>2, <2>1, CountUntouched
<1> QED
  BY <1>1, <1>2 DEF Adopt

(* Once there was a surplus, reconcile creates nothing any more.           *)
LEMMA SurplusCount ==
    ASSUME TypeOK, NEW p \in Pod, DeleteSurplus(p)
    PROVE  NotYetOwned'
<1>0. ctl \in Worker /\ p \in ctl.owned /\ Missing < 0
  BY DEF TypeOK, Worker, Phase, DeleteSurplus
<1>1. /\ ctl'.desired = ctl.desired /\ ctl'.turns = ctl.turns
      /\ ctl'.owned = ctl.owned \ {p}
  BY <1>0 DEF DeleteSurplus, Worker
<1>2. Cardinality(ctl'.owned) = Cardinality(ctl.owned) - 1
  BY <1>0, <1>1, OnePodLess DEF Worker
<1>3. ctl.desired \in Nat /\ ctl.turns \in Nat /\ Cardinality(ctl.owned) \in Nat
  BY <1>0, MissingIsInt
<1>4. ~(Missing' > 0)
  BY <1>0, <1>1, <1>2, <1>3 DEF Missing
<1> QED
  BY <1>4 DEF NotYetOwned

(* What was given up and happens late is unseen, if it adds to the set.    *)
LEMMA LosesPodsLate ==
    ASSUME TypeOK, GivenUp, NEW l \in late, Happens(l), NEW r \in ReplicaSet,
           l.set # r \/ l.op \in {"delete", "status"}
    PROVE  OwnedIn(pods', r) \subseteq OwnedIn(pods, r)
<1>0. pods \in [Pod -> PodObject \cup {Absent}] /\ l.set \in ReplicaSet /\ MayHappen(l)
  BY DEF TypeOK, Request, GivenUp
<1>1. CASE LateCreate(l)
  BY <1>0, <1>1, PodAdded DEF LateCreate
<1>2. CASE LateAdopt(l)
  <2>1. /\ l.pod \in Pod /\ pods[l.pod] # Absent /\ pods[l.pod].owner = NoOwner
        /\ pods' = [pods EXCEPT ![l.pod].owner = l.set] /\ l.set # r
    BY <1>0, <1>2 DEF LateAdopt, MayHappen, CanAdopt
  <2> QED
    BY <1>0, <2>1, PodTakenOver
<1>3. CASE LateDelete(l)
  <2>1. l.pod \in Pod /\ pods' = [pods EXCEPT ![l.pod] = Absent]
    BY <1>0, <1>3 DEF LateDelete, MayHappen
  <2> QED
    BY <1>0, <2>1, PodGone
<1>4. CASE LateStatus(l)
  BY <1>4 DEF LateStatus
<1> QED
  BY <1>1, <1>2, <1>3, <1>4 DEF Happens

LEMMA HappensCount ==
    ASSUME TypeOK, Started(ctl), GivenUp, NotYetOwned, NEW l \in late, Happens(l)
    PROVE  NotYetOwned'
<1>0. ctl \in Worker /\ ctl' \in Worker
  BY HappensType DEF TypeOK, Worker, Phase
<1>1. PICK c : c = OutdatedPod(l.pod)
  OBVIOUS
<1>2. /\ c \in Worker /\ c.pc = ctl.pc /\ c.key = ctl.key /\ c.desired = ctl.desired
      /\ c.turns = ctl.turns /\ c.owned = ctl.owned /\ c.unseen = ctl.unseen
  BY <1>0, <1>1 DEF OutdatedPod, Worker
<1>3. /\ ctl'.pc = ctl.pc /\ ctl'.key = ctl.key /\ ctl'.desired = ctl.desired
      /\ ctl'.turns = ctl.turns /\ ctl'.owned = ctl.owned
      /\ ctl.unseen \/ (l.op \in {"create", "adopt"} /\ ctl.key = l.set) => ctl'.unseen
  <2>1. CASE LateCreate(l)
    BY <1>0, <2>1 DEF LateCreate, Worker
  <2>2. CASE LateAdopt(l)
    BY <1>1, <1>2, <2>2 DEF LateAdopt, Worker
  <2>3. CASE LateDelete(l)
    BY <1>1, <1>2, <2>3 DEF LateDelete
  <2>4. CASE LateStatus(l)
    BY <1>0, <2>4, OutdatedIsTheRest DEF LateStatus
  <2> QED
    BY <2>1, <2>2, <2>3, <2>4 DEF Happens
<1>4. CASE ctl.pc = "scale" /\ ~ ctl'.unseen
  <2>1. ctl.key \in ReplicaSet
    BY <1>4 DEF Started
  <2>2. l.op \in {"create", "adopt", "delete", "status"}
    BY DEF TypeOK, Request
  <2>3. ctl.key # l.set \/ l.op \in {"delete", "status"}
    BY <1>3, <1>4, <2>2
  <2>4. OwnedIn(pods', ctl.key) \subseteq OwnedIn(pods, ctl.key)
    BY <2>1, <2>3, LosesPodsLate
  <2>5. ctl.unseen => ctl'.unseen
    BY <1>3
  <2> QED
    BY <1>0, <1>3, <2>4, <2>5, CountUntouched
<1>5. CASE ctl.pc # "scale"
  BY <1>3, <1>5, NotScaling
<1>6. CASE ctl'.unseen
  BY <1>6 DEF NotYetOwned
<1> QED
  BY <1>4, <1>5, <1>6

LEMMA StepCount ==
    ASSUME TypeOK, Started(ctl), TrueCopies, NotYetOwned, [Next]_vars
    PROVE  NotYetOwned'
<1>0. ctl \in Worker /\ ctl' \in Worker /\ pods \in [Pod -> PodObject \cup {Absent}]
  BY StepType DEF TypeOK, Worker, Phase, TrueCopies
<1>1. CASE Reconcile
  <2>1. CASE GetReplicaSet
    BY <1>0, <2>1, NotScaling DEF GetReplicaSet, Worker
  <2>2. CASE ListPods
    <3>1. /\ ctl'.key = ctl.key /\ pods' = pods /\ ctl'.turns = ctl.turns
          /\ ctl'.owned = OwnedIn(Seen.pods, ctl.key)
          /\ ctl'.unseen = ~ (Owned(ctl.key) \subseteq OwnedIn(Seen.pods, ctl.key))
      BY <1>0, <2>2 DEF ListPods, Worker, apiVars
    <3>2. Uncounted' = OwnedIn(pods, ctl.key) \ OwnedIn(Seen.pods, ctl.key)
      BY <3>1 DEF Uncounted, OwnedIn, Listed
    <3>3. ~ ctl'.unseen => Uncounted' = {}
      BY <3>1, <3>2 DEF Owned
    <3>4. ~ ctl'.unseen => Cardinality(Uncounted') = 0
      BY <3>3, FS_EmptySet
    <3>5. ctl'.turns >= 0
      BY <1>0, <3>1, MissingIsInt
    <3> QED
      BY <3>4, <3>5 DEF NotYetOwned
  <2>3. CASE CreatePod
    BY <2>3, CreateCount
  <2>4. CASE UpdateStatus
    BY <1>0, <2>4, NotScaling DEF UpdateStatus, Worker, Idle
  <2>5. CASE PutStatus \/ CascadeDone
    BY <2>5, NotScaling DEF PutStatus, Retry, CascadeDone, Idle
  <2>6. CASE CascadeList
    BY <1>0, <2>6, NotScaling DEF CascadeList, Worker
  <2>7. ASSUME NEW p \in Pod, CascadeDelete(p) PROVE NotYetOwned'
    BY <1>0, <2>7, NotScaling DEF CascadeDelete, Worker
  <2> QED
    BY <1>1, <2>1, <2>2, <2>3, <2>4, <2>5, <2>6, <2>7, AdoptCount, SurplusCount DEF Reconcile
<1>2. ASSUME NEW r \in ReplicaSet, TakeKey(r) PROVE NotYetOwned'
  BY <1>2, NotScaling DEF TakeKey, Idle
<1>3. ASSUME NEW l \in late, Happens(l) PROVE NotYetOwned'
  BY <1>3, HappensCount DEF TrueCopies
<1>4. CASE RequestFails \/ Restart
  BY <1>4, NotScaling DEF RequestFails, Retry, Restart, Idle
<1>5. CASE \/ Resync \/ InformerReconnects \/ FallsBehind \/ CatchesUp \/ UNCHANGED vars
  <2>1. ctl' = ctl /\ pods' = pods
    BY <1>5 DEF Resync, InformerReconnects, FallsBehind, CatchesUp, vars, apiVars
  <2> QED
    BY <1>0, <2>1, CountUntouched
<1> QED
  BY <1>1, <1>2, <1>3, <1>4, <1>5, PeopleCount DEF Next

-----------------------------------------------------------------------------
(* The theorems *)

LEMMA InitInv == Init => Inv
<1> SUFFICES ASSUME Init PROVE Inv
  OBVIOUS
<1>1. TypeOK /\ Started(ctl)
  BY InitType
<1>2. TrueCopies
  BY DEF Init, Idle, TrueCopies, FreshCopies, ShownAsItIs, GivenUp
<1>3. NotYetOwned
  BY DEF Init, Idle, NotYetOwned
<1> QED
  BY <1>1, <1>2, <1>3 DEF Inv

LEMMA StepInv == Inv /\ [Next]_vars => Inv'
  BY StepType, StepCopies, StepCount DEF Inv, TrueCopies

(* At any moment, whatever people, kubelets and failing requests have done *)
(* since reconcile read, and however far its replica lags: its memory has  *)
(* its type, its current copies show the true owners, what it gave up and  *)
(* may still happen finds the pod as it was read; and as long as it is     *)
(* going to create pods, it has counted all pods of the set but those of   *)
(* its own turns, unless a pod was unseen: not yet in its replica when it  *)
(* listed, or created or adopted since by a request that it had given up.  *)
THEOREM Invariance == Spec => []Inv
  BY InitInv, StepInv, PTL DEF Spec

(* Type correctness of the objects, the worker and the queue; turns stays  *)
(* within the replicas asked for.                                          *)
THEOREM TypeCorrect == Spec => []TypeOK
<1>1. Inv => TypeOK
  BY DEF Inv
<1> QED
  BY <1>1, Invariance, PTL

(* The controller touches a pod only if it is the set's own, or nobody's   *)
(* and then to adopt it: a step that is not people's or a kubelet's and    *)
(* changes a pod is an adoption or a deletion that the store let pass, now *)
(* or late, so the copy was current and showed the true owner.             *)
THEOREM OthersLeftAlone == Spec => LeavesOthersAlone
<1> DEFINE A == \A p \in Existing :
                  \/ edits' # edits \/ pods'[p] = pods[p]
                  \/ \E r \in {ctl.key} \cup {l.set : l \in late \ late'} :
                       \/ IsOwnedBy(p, r)
                       \/ pods[p].owner = NoOwner /\ pods'[p] # Absent /\ pods'[p].owner = r
<1>1. ASSUME Inv, [Next]_vars PROVE [A]_vars
  <2>0. /\ TypeOK /\ FreshCopies /\ GivenUp /\ Started(ctl) /\ ctl \in Worker
        /\ pods \in [Pod -> PodObject \cup {Absent}]
    BY <1>1 DEF Inv, TrueCopies, TypeOK, Worker, Phase
  <2>p. Existing \subseteq Pod /\ \A p \in Existing : pods[p] # Absent
    BY DEF Existing, Listed
  <2>s. pods' = pods => A
    OBVIOUS
  <2>n. ASSUME Existing # Pod, NEW q \in ReplicaSet, pods' = NewPod(q) PROVE A
    BY <2>0, <2>n, PodAdded
  <2>d. ASSUME NEW p \in Pod, NEW r \in {ctl.key} \cup {l.set : l \in late \ late'},
               IsOwnedBy(p, r), pods' = [pods EXCEPT ![p] = Absent]
        PROVE  A
    <3>1. \A q \in Pod \ {p} : pods'[q] = pods[q]
      BY <2>0, <2>d
    <3> QED
      BY <2>d, <2>p, <3>1
  <2>a. ASSUME NEW p \in Pod, NEW r \in {ctl.key} \cup {l.set : l \in late \ late'},
               r \in ReplicaSet, pods[p] # Absent, CanAdopt(pods[p]),
               pods' = [pods EXCEPT ![p].owner = r]
        PROVE  A
    <3>1. /\ pods'[p] # Absent /\ pods'[p].owner = r
          /\ \A q \in Pod \ {p} : pods'[q] = pods[q]
      BY <2>0, <2>a, NewOwnerType
    <3> QED
      BY <2>a, <2>p, <3>1 DEF CanAdopt
  <2>1. CASE People
    <3>1. Edit
      BY <2>1 DEF People, ApplySet, DeleteSet, ApplyPod, DeletePod, ReplacePodStatus
    <3>2. edits' # edits
      BY <2>0, <3>1, Bounds DEF Edit, TypeOK
    <3> QED
      BY <3>2
  <2>2. ASSUME NEW p \in Pod, Adopt(p) PROVE A
    <3>1. CASE /\ RvCheck(pods[p], p \in ctl.fresh) = "Ok"
               /\ pods' = [pods EXCEPT ![p].owner = ctl.key]
      <4>1. p \in ctl.adopt /\ ctl.key \in ReplicaSet /\ p \in ctl.fresh
        BY <2>0, <2>2, <3>1 DEF Adopt, Started, RvCheck
      <4>2. pods[p] # Absent /\ CanAdopt(pods[p])
        BY <2>0, <4>1, AdoptsNobodys
      <4> QED
        BY <2>a, <3>1, <4>1, <4>2
    <3>2. CASE pods' = pods
      BY <3>2, <2>s
    <3> QED
      BY <2>2, <3>1, <3>2 DEF Adopt
  <2>3. ASSUME NEW p \in Pod, DeleteSurplus(p) \/ CascadeDelete(p) PROVE A
    <3>1. /\ p \in ctl.owned
          /\ pods' = pods \/ (DeleteAllowed(p) /\ pods' = [pods EXCEPT ![p] = Absent])
      BY <2>3 DEF DeleteSurplus, CascadeDelete
    <3>2. DeleteAllowed(p) => IsOwnedBy(p, ctl.key)
      BY <2>0, <3>1, DeletesItsOwn
    <3> QED
      BY <2>d, <2>s, <3>1, <3>2
  <2>5. CASE CreatePod
    <3>1. ctl.key \in ReplicaSet /\ (pods' = pods \/ (Existing # Pod /\ pods' = NewPod(ctl.key)))
      BY <2>0, <2>5 DEF CreatePod, Scaling, Started
    <3> QED
      BY <3>1, <2>n, <2>s
  <2>6. ASSUME NEW l \in late, Happens(l) PROVE A
    <3>0. l.set \in ReplicaSet /\ MayHappen(l)
      BY <2>0, <2>6 DEF TypeOK, Request, GivenUp
    <3>1. CASE LateCreate(l)
      BY <2>n, <3>0, <3>1 DEF LateCreate
    <3>2. CASE LateAdopt(l)
      <4>1. l \in late \ late'
        BY <2>6, <3>2 DEF LateAdopt, PodChanges
      <4> QED
        BY <2>a, <3>0, <3>2, <4>1 DEF LateAdopt, MayHappen
    <3>3. CASE LateDelete(l)
      <4>1. l \in late \ late'
        BY <2>6, <3>3 DEF LateDelete, PodChanges
      <4> QED
        BY <2>d, <3>0, <3>3, <4>1 DEF LateDelete, MayHappen
    <3>4. CASE LateStatus(l)
      BY <2>s, <3>4 DEF LateStatus
    <3> QED
      BY <2>6, <3>1, <3>2, <3>3, <3>4 DEF Happens
  <2>7. CASE \/ GetReplicaSet \/ ListPods \/ UpdateStatus \/ PutStatus \/ CascadeList
             \/ CascadeDone \/ RequestFails \/ Resync \/ InformerReconnects \/ Restart
             \/ FallsBehind \/ CatchesUp \/ \E r \in ReplicaSet : TakeKey(r)
    <3>1. pods' = pods
      BY <2>7 DEF GetReplicaSet, ListPods, UpdateStatus, PutStatus, CascadeList, CascadeDone,
                  RequestFails, Resync, InformerReconnects, Restart, FallsBehind, CatchesUp,
                  TakeKey, apiVars
    <3> QED
      BY <3>1, <2>s
  <2> HIDE DEF A
  <2> QED
    BY <1>1, <2>1, <2>2, <2>3, <2>5, <2>6, <2>7 DEF Next, Reconcile
<1> QED
  BY <1>1, Invariance, PTL DEF Spec, LeavesOthersAlone

(* reconcile never brings a set above the replicas it read, for any number *)
(* of failing and late requests and of writes by others between its list   *)
(* and its last creation, unless the set has pods that it cannot know.     *)
(* Only CreatePod, an adoption and what happens late can enlarge a set;    *)
(* when CreatePod does, Missing > 0 says that counted pods and turns       *)
(* together are fewer than desired, and NotYetOwned that there are no more *)
(* pods than those, if none was unseen.                                    *)
THEOREM NeverOvershoots == Spec => NoOvershoot
<1> DEFINE B(r) == \/ Cardinality(Owned(r)') <= Cardinality(Owned(r))
                   \/ ctl.pc = "scale" /\ ctl.adopt # {}
                   \/ ctl.unseen \/ \E l \in late \ late' : l.set = r
                   \/ ctl.key = r /\ Cardinality(Owned(r)') <= ctl.desired
<1>1. ASSUME Inv, [Next]_vars, NEW r \in ReplicaSet PROVE B(r)
  <2>0. /\ TypeOK /\ Started(ctl) /\ ctl \in Worker /\ NotYetOwned /\ GivenUp
        /\ pods \in [Pod -> PodObject \cup {Absent}]
    BY <1>1 DEF Inv, TrueCopies, TypeOK, Worker, Phase
  <2>s. OwnedIn(pods', r) \subseteq OwnedIn(pods, r) => B(r)
    <3> SUFFICES ASSUME OwnedIn(pods', r) \subseteq OwnedIn(pods, r) PROVE B(r)
      OBVIOUS
    <3>1. /\ Owned(r)' = OwnedIn(pods', r) /\ Owned(r) = OwnedIn(pods, r)
          /\ OwnedIn(pods, r) \in SUBSET Pod
      BY OwnedIsOwnedIn
    <3>2. Cardinality(OwnedIn(pods', r)) <= Cardinality(OwnedIn(pods, r))
      BY <3>1, FewerPods
    <3> QED
      BY <3>1, <3>2
  <2>n. ASSUME Existing # Pod, NEW q \in ReplicaSet, pods' = NewPod(q), q # r PROVE B(r)
    BY <2>0, <2>n, <2>s, PodAdded
  <2>d. ASSUME NEW p \in Pod, pods' = [pods EXCEPT ![p] = Absent] PROVE B(r)
    BY <2>0, <2>d, <2>s, PodGone
  <2>1. CASE People
    BY <2>0, <2>1, <2>s, PeopleLosePods, NoOwnerIsNoSet
  <2>2. ASSUME NEW p \in Pod, Adopt(p) PROVE B(r)
    BY <2>2 DEF Adopt
  <2>3. ASSUME NEW p \in Pod, DeleteSurplus(p) \/ CascadeDelete(p) PROVE B(r)
    BY <2>3, <2>d, <2>s DEF DeleteSurplus, CascadeDelete
  <2>5. CASE CreatePod
    <3>1. ctl.key \in ReplicaSet /\ (pods' = pods \/ (Existing # Pod /\ pods' = NewPod(ctl.key)))
      BY <2>0, <2>5 DEF CreatePod, Scaling, Started
    <3>2. CASE Existing # Pod /\ pods' = NewPod(ctl.key) /\ ctl.key = r /\ ~ctl.unseen
      <4>1. ctl.pc = "scale" /\ Missing > 0
        BY <2>5 DEF CreatePod, Scaling, CreateMissing
      <4>2. Cardinality(Uncounted) <= ctl.turns
        BY <2>0, <3>2, <4>1 DEF NotYetOwned
      <4>3. Uncounted = OwnedIn(pods, r) \ ctl.owned
        BY <3>2 DEF Uncounted
      <4>4. /\ Owned(r)' = OwnedIn(pods', r) /\ OwnedIn(pods, r) \in SUBSET Pod
            /\ OwnedIn(pods', r) \in SUBSET Pod /\ ctl.owned \in SUBSET Pod
        BY <2>0, OwnedIsOwnedIn DEF Worker
      <4>5. Cardinality(OwnedIn(pods, r))
              <= Cardinality(ctl.owned) + Cardinality(OwnedIn(pods, r) \ ctl.owned)
        BY <4>4, CountedOrNot
      <4>6. OwnedIn(pods', r) \in SUBSET (OwnedIn(pods, r) \cup {NewName}) /\ NewName \in Pod
        BY <2>0, <3>1, <3>2, PodAdded, NewNameIsFree
      <4>7. Cardinality(OwnedIn(pods', r)) <= Cardinality(OwnedIn(pods, r)) + 1
        BY <4>4, <4>6, OnePodMore
      <4>8. /\ Cardinality(OwnedIn(pods, r)) \in Nat /\ Cardinality(OwnedIn(pods', r)) \in Nat
            /\ Cardinality(ctl.owned) \in Nat /\ Cardinality(OwnedIn(pods, r) \ ctl.owned) \in Nat
            /\ ctl.desired \in Nat /\ ctl.turns \in Nat
        BY <2>0, <4>4, PodsAreFinite, MissingIsInt, Bounds
      <4>9. Cardinality(OwnedIn(pods', r)) <= ctl.desired
        BY <4>1, <4>2, <4>3, <4>5, <4>7, <4>8 DEF Missing
      <4> QED
        BY <3>2, <4>4, <4>9
    <3> QED
      BY <3>1, <3>2, <2>n, <2>s
  <2>6. ASSUME NEW l \in late, Happens(l) PROVE B(r)
    <3>0. l.op \in {"create", "adopt", "delete", "status"}
      BY <2>0 DEF TypeOK, Request
    <3>1. CASE l.set # r \/ l.op \in {"delete", "status"}
      BY <2>0, <2>6, <2>s, <3>1, LosesPodsLate
    <3>2. CASE l.set = r /\ l.op \in {"create", "adopt"}
      <4>1. l \notin late'
        BY <2>6, <3>2 DEF Happens, LateCreate, LateAdopt, LateDelete, LateStatus, PodChanges
      <4> QED
        BY <3>2, <4>1
    <3> QED
      BY <3>0, <3>1, <3>2
  <2>7. CASE \/ GetReplicaSet \/ ListPods \/ UpdateStatus \/ PutStatus \/ CascadeList
             \/ CascadeDone \/ RequestFails \/ Resync \/ InformerReconnects \/ Restart
             \/ FallsBehind \/ CatchesUp \/ (\E q \in ReplicaSet : TakeKey(q)) \/ UNCHANGED vars
    <3>1. pods' = pods
      BY <2>7 DEF GetReplicaSet, ListPods, UpdateStatus, PutStatus, CascadeList, CascadeDone,
                  RequestFails, Resync, InformerReconnects, Restart, FallsBehind, CatchesUp,
                  TakeKey, apiVars, vars
    <3> QED
      BY <3>1, <2>s
  <2> HIDE DEF B
  <2> QED
    BY <1>1, <2>1, <2>2, <2>3, <2>5, <2>6, <2>7 DEF Next, Reconcile
<1>2. ASSUME Inv, [Next]_vars PROVE [\A r \in ReplicaSet : B(r)]_vars
  <2> HIDE DEF B
  <2> QED
    BY <1>1, <1>2
<1> QED
  BY <1>2, Invariance, PTL DEF Spec, NoOvershoot
=============================================================================
