--------------------------- MODULE KubeletProofs ---------------------------
(***************************************************************************)
(* What the operations of the address allocator guarantee, for slices of   *)
(* any size, and that the kubelet keeps pods, addresses and trackers in    *)
(* order, for any number of pods, crashes and failures.                    *)
(***************************************************************************)
EXTENDS Kubelet, TLAPS, WellFoundedInduction, FiniteSetTheorems

Pool == [next : FirstHost .. BroadcastHost, released : SUBSET Host, allocated : SUBSET Host]

(* A set of hosts has a smallest one.                                      *)
LEMMA SmallestIsLeast ==
    ASSUME NEW S \in SUBSET Nat, S # {}
    PROVE  Smallest(S) \in S /\ \A g \in S : Smallest(S) <= g
<1>1. \E h \in S : \A g \in S : h <= g
  <2> DEFINE Less == {ss \in Nat \X Nat : ss[1] < ss[2]}
  <2>1. IsWellFoundedOn(Less, Nat)
    BY NatLessThanWellFounded, Zenon DEF OpToRel
  <2>2. PICK h \in S : \A g \in S : <<g, h>> \notin Less
    <3> HIDE DEF Less
    <3> QED
      BY <2>1, WFMin, Zenon
  <2>3. ASSUME NEW g \in S PROVE h <= g
    <3>1. ~(g < h)
      BY <2>2
    <3> QED
      BY <3>1
  <2> QED
    BY <2>3
<1> QED
  BY <1>1 DEF Smallest

(* from_cidr makes a sound pool.                                           *)
THEOREM FreshPoolIsSound == FreshPool \in Pool /\ Sound(FreshPool)
BY PoolAssumption DEF FreshPool, Pool, Sound, FirstHost, Host

(* reserve keeps the pool sound, whether the address was ahead of the      *)
(* cursor, free or already in use.                                         *)
THEOREM ReserveKeepsSound ==
    ASSUME NEW a \in Pool, Sound(a), NEW h \in Host
    PROVE  Reserve(a, h) \in Pool /\ Sound(Reserve(a, h))
BY PoolAssumption DEF Reserve, Pool, Sound

(* release keeps the pool sound; releasing twice, or what was never handed *)
(* out, changes nothing.                                                   *)
LEMMA ReleaseAllKeepsSound ==
    ASSUME NEW a \in Pool, Sound(a), NEW H
    PROVE  ReleaseAll(a, H) \in Pool /\ Sound(ReleaseAll(a, H))
BY PoolAssumption DEF ReleaseAll, Pool, Sound

THEOREM ReleaseKeepsSound ==
    ASSUME NEW a \in Pool, Sound(a), NEW h \in Host
    PROVE  /\ Release(a, h) \in Pool /\ Sound(Release(a, h))
           /\ h \notin a.allocated => Release(a, h) = a
<1>1. Release(a, h) \in Pool /\ Sound(Release(a, h))
  BY ReleaseAllKeepsSound DEF Release
<1>2. ASSUME h \notin a.allocated PROVE Release(a, h) = a
  <2>1. a.allocated \ {h} = a.allocated /\ a.released \cup ({h} \cap a.allocated) = a.released
    BY <1>2
  <2> QED
    BY <2>1 DEF Release, ReleaseAll, Pool
<1> QED
  BY <1>1, <1>2

(* allocate keeps the pool sound, hands out a usable address that nobody   *)
(* has, and fails only when every address of the slice is in use.          *)
THEOREM AllocateIsFresh ==
    ASSUME NEW a \in Pool, Sound(a)
    PROVE  /\ Allocate(a).pool \in Pool /\ Sound(Allocate(a).pool)
           /\ Allocate(a).ip # NoIp =>
                 /\ Allocate(a).ip \in Host \ a.allocated
                 /\ Allocate(a).pool.allocated = a.allocated \cup {Allocate(a).ip}
           /\ Allocate(a).ip = NoIp => a.allocated = Host
<1>0. /\ a.next \in FirstHost .. BroadcastHost
      /\ a.released \subseteq Host /\ a.allocated \subseteq Host
      /\ BroadcastHost \in Nat /\ FirstHost \in Nat /\ FirstHost <= BroadcastHost
      /\ Host \subseteq Nat /\ NoIp \notin Host
  BY PoolAssumption DEF Pool, Host, FirstHost
<1>1. CASE a.released # {}
  <2>1. PICK h : h = Smallest(a.released)
    OBVIOUS
  <2>2. h \in a.released /\ h \in Host /\ h \notin a.allocated /\ h # NoIp
    <3>1. a.released \in SUBSET Nat
      BY <1>0
    <3>2. h \in a.released
      BY <1>1, <2>1, <3>1, SmallestIsLeast
    <3> QED
      BY <1>0, <3>2 DEF Sound
  <2>3. PICK b : b = [a EXCEPT !.released = @ \ {h}, !.allocated = @ \cup {h}]
    OBVIOUS
  <2>4. /\ b \in Pool
        /\ Allocate(a).pool = b /\ Allocate(a).ip = h
        /\ b.next = a.next /\ b.released = a.released \ {h} /\ b.allocated = a.allocated \cup {h}
    <3>1. Allocate(a) = [ip |-> h, pool |-> b]
      BY <1>1, <2>1, <2>3 DEF Allocate
    <3>2. b.next = a.next /\ b.released = a.released \ {h} /\ b.allocated = a.allocated \cup {h}
      BY <2>3 DEF Pool
    <3>3. a.released \ {h} \in SUBSET Host /\ a.allocated \cup {h} \in SUBSET Host
      BY <1>0, <2>2
    <3>4. b \in Pool
      BY <2>3, <3>3 DEF Pool
    <3> QED
      BY <3>1, <3>2, <3>4
  <2>5. Sound(b)
    BY <1>0, <2>2, <2>4 DEF Sound
  <2> QED
    BY <2>2, <2>4, <2>5
<1>2. CASE a.released = {} /\ Ahead(a) # {}
  <2>1. PICK h : h = Smallest(Ahead(a))
    OBVIOUS
  <2>2. h \in Ahead(a) /\ \A g \in Ahead(a) : h <= g
    <3>1. Ahead(a) \in SUBSET Nat
      BY <1>0 DEF Ahead
    <3> QED
      BY <1>2, <2>1, <3>1, SmallestIsLeast
  <2>3. /\ h \in a.next .. BroadcastHost - 1 /\ h \notin a.allocated
        /\ h \in Host /\ h # NoIp /\ h + 1 \in FirstHost .. BroadcastHost
    BY <1>0, <2>2 DEF Ahead, Host
  <2>4. ASSUME NEW g \in FirstHost .. h PROVE g \in a.allocated \cup {h}
    <3>1. CASE g < a.next
      BY <1>0, <1>2, <2>3, <3>1 DEF Sound
    <3>2. CASE g >= a.next /\ g # h
      <4>1. g \in a.next .. BroadcastHost - 1 /\ ~(h <= g)
        BY <1>0, <2>3, <3>2
      <4> QED
        BY <2>2, <4>1 DEF Ahead
    <3> QED
      BY <1>0, <2>3, <3>1, <3>2
  <2>5. PICK b : b = [a EXCEPT !.next = h + 1, !.allocated = @ \cup {h}]
    OBVIOUS
  <2>6. /\ b \in Pool
        /\ Allocate(a).pool = b /\ Allocate(a).ip = h
        /\ b.next = h + 1 /\ b.released = {} /\ b.allocated = a.allocated \cup {h}
    <3>1. Allocate(a) = [ip |-> h, pool |-> b]
      BY <1>2, <2>1, <2>5 DEF Allocate
    <3>2. b.next = h + 1 /\ b.released = a.released /\ b.allocated = a.allocated \cup {h}
      BY <2>5 DEF Pool
    <3>3. a.allocated \cup {h} \in SUBSET Host
      BY <1>0, <2>3
    <3>4. b \in Pool
      BY <2>3, <2>5, <3>3 DEF Pool
    <3> QED
      BY <1>2, <3>1, <3>2, <3>4
  <2>7. FirstHost .. b.next - 1 \subseteq b.allocated
    BY <1>0, <2>3, <2>4, <2>6
  <2>8. Sound(b)
    BY <2>6, <2>7 DEF Sound, Pool
  <2> QED
    BY <2>3, <2>6, <2>8
<1>3. CASE a.released = {} /\ Ahead(a) = {}
  <2>1. Allocate(a) = [ip |-> NoIp, pool |-> [a EXCEPT !.next = BroadcastHost]]
    BY <1>3 DEF Allocate
  <2>2. ASSUME NEW g \in Host PROVE g \in a.allocated
    <3>1. CASE g < a.next
      BY <1>0, <1>3, <3>1 DEF Sound, Host
    <3>2. CASE g >= a.next
      BY <1>0, <1>3, <3>2 DEF Ahead, Host
    <3> QED
      BY <1>0, <3>1, <3>2
  <2>3. PICK b \in Pool :
            /\ Allocate(a).pool = b /\ Allocate(a).ip = NoIp
            /\ b.next = BroadcastHost /\ b.released = {} /\ b.allocated = Host
    BY <1>0, <1>3, <2>1, <2>2 DEF Pool
  <2>4. Sound(b)
    BY <1>0, <2>3 DEF Sound, Host
  <2> QED
    BY <2>2, <2>3, <2>4, <1>0
<1> QED
  BY <1>1, <1>2, <1>3

-----------------------------------------------------------------------------
(* The reconciler and its containers *)

Maps == [cache : MapOf(Object), store : MapOf(Sandbox), trackers : [Pod -> Tracker],
         pushed : MapOf(Status), ipam : Pool]
Worlds == [k : Maps, c : [Pod -> Containers]]

(* Trackers have sandboxes, and addresses are neither lost nor doubled.    *)
Good(w) ==
    /\ w \in Worlds
    /\ Sound(w.k.ipam)
    /\ \A p \in Pod : w.k.trackers[p] # NoTracker => w.k.store[p] # Absent

LEMMA WorldFields ==
    ASSUME NEW w \in Worlds
    PROVE  /\ w.k \in Maps /\ w.c \in [Pod -> Containers]
           /\ w.k.cache \in MapOf(Object) /\ w.k.store \in MapOf(Sandbox)
           /\ w.k.trackers \in [Pod -> Tracker] /\ w.k.pushed \in MapOf(Status)
           /\ w.k.ipam \in Pool
           /\ w = [k |-> w.k, c |-> w.c]
  BY DEF Worlds, Maps

LEMMA WorldEntries ==
    ASSUME NEW w \in Worlds, NEW p \in Pod
    PROVE  /\ w.k.cache[p] \in Object \cup {Absent}
           /\ w.k.store[p] \in Sandbox \cup {Absent}
           /\ w.k.trackers[p] \in Tracker
           /\ w.k.pushed[p] \in Status \cup {Absent}
           /\ w.c[p] \in Containers
  BY WorldFields DEF MapOf

(* v is w with these parts.                                                *)
With(w, st, tr, pu, a, c, v) ==
    v = [k |-> [w.k EXCEPT !.store = st, !.pushed = pu, !.trackers = tr, !.ipam = a], c |-> c]

LEMMA MakeWorld ==
    ASSUME NEW w \in Worlds, NEW st \in MapOf(Sandbox), NEW tr \in [Pod -> Tracker],
           NEW pu \in MapOf(Status), NEW a \in Pool, NEW c \in [Pod -> Containers],
           NEW v, With(w, st, tr, pu, a, c, v)
    PROVE  /\ v \in Worlds
           /\ v.k.cache = w.k.cache /\ v.k.store = st /\ v.k.trackers = tr
           /\ v.k.pushed = pu /\ v.k.ipam = a /\ v.c = c
  BY DEF With, Worlds, Maps

LEMMA WithoutType ==
    ASSUME NEW T, NEW f \in [Pod -> T], NEW S, NEW none \in T
    PROVE  Without(f, S, none) \in [Pod -> T]
  BY DEF Without

(* remove_pod: what is in the store goes with its containers, its tracker  *)
(* and its address.                                                        *)
Removed(w, S, v) ==
    /\ v.k.cache = w.k.cache
    /\ \A q \in Pod :
          IF q \in S /\ w.k.store[q] # Absent
          THEN v.k.store[q] = Absent /\ ~v.c[q].pause /\ v.c[q].ip = NoIp
          ELSE v.k.store[q] = w.k.store[q] /\ v.c[q] = w.c[q]

LEMMA DestroyedType ==
    ASSUME NEW c \in Containers, NEW sandbox \in Sandbox
    PROVE  /\ Destroyed(c, sandbox) \in Containers
           /\ ~Destroyed(c, sandbox).pause /\ Destroyed(c, sandbox).ip = NoIp
  BY DEF Destroyed, Nothing, Containers, Sandbox, Ip

LEMMA RemoveEffect ==
    ASSUME NEW w, Good(w), NEW S
    PROVE  Good(RemovePods(w, S)) /\ Removed(w, S, RemovePods(w, S))
<1> DEFINE gone == {p \in S : w.k.store[p] # Absent}
           st == Without(w.k.store, gone, Absent)
           tr == Without(w.k.trackers, gone, NoTracker)
           pu == Without(w.k.pushed, gone, Absent)
           a  == ReleaseAll(w.k.ipam, {w.k.store[p].ip : p \in gone})
           c  == [p \in Pod |-> IF p \in gone THEN Destroyed(w.c[p], w.k.store[p]) ELSE w.c[p]]
<1>0. w \in Worlds
  BY DEF Good
<1>1. PICK v : v = RemovePods(w, S)
  OBVIOUS
<1>2. With(w, st, tr, pu, a, c, v)
  BY <1>0, <1>1, WorldFields DEF With, RemovePods, Maps
<1>3. st \in MapOf(Sandbox) /\ pu \in MapOf(Status)
  BY <1>0, WorldFields, WithoutType DEF MapOf
<1>4. tr \in [Pod -> Tracker]
  <2>1. NoTracker \in Tracker
    BY DEF NoTracker, Tracker
  <2> QED
    BY <1>0, <2>1, WorldFields, WithoutType
<1>5. a \in Pool /\ Sound(a)
  BY <1>0, WorldFields, ReleaseAllKeepsSound DEF Good
<1>6. c \in [Pod -> Containers]
  <2>1. ASSUME NEW p \in Pod
        PROVE  (IF p \in gone THEN Destroyed(w.c[p], w.k.store[p]) ELSE w.c[p]) \in Containers
    <3>1. CASE p \in gone
      <4>1. w.k.store[p] \in Sandbox /\ w.c[p] \in Containers
        BY <1>0, <3>1, WorldEntries
      <4> QED
        BY <3>1, <4>1, DestroyedType
    <3>2. CASE p \notin gone
      BY <1>0, <3>2, WorldEntries
    <3> QED
      BY <3>1, <3>2
  <2> HIDE DEF gone
  <2> QED
    BY <2>1
<1>7. /\ v \in Worlds
      /\ v.k.cache = w.k.cache /\ v.k.store = st /\ v.k.trackers = tr
      /\ v.k.pushed = pu /\ v.k.ipam = a /\ v.c = c
  <2> HIDE DEF st, tr, pu, a, c
  <2> QED
    BY <1>0, <1>2, <1>3, <1>4, <1>5, <1>6, MakeWorld
<1>8. ASSUME NEW q \in Pod
      PROVE  /\ q \in gone => st[q] = Absent /\ tr[q] = NoTracker
                              /\ ~c[q].pause /\ c[q].ip = NoIp
             /\ q \notin gone => st[q] = w.k.store[q] /\ tr[q] = w.k.trackers[q] /\ c[q] = w.c[q]
  <2>1. st[q] = (IF q \in gone THEN Absent ELSE w.k.store[q])
    BY DEF Without
  <2>2. tr[q] = (IF q \in gone THEN NoTracker ELSE w.k.trackers[q])
    BY DEF Without
  <2>3. c[q] = IF q \in gone THEN Destroyed(w.c[q], w.k.store[q]) ELSE w.c[q]
    OBVIOUS
  <2>4. ASSUME q \in gone PROVE ~c[q].pause /\ c[q].ip = NoIp
    <3>1. w.k.store[q] \in Sandbox /\ w.c[q] \in Containers
      BY <1>0, <2>4, WorldEntries
    <3> QED
      BY <2>3, <2>4, <3>1, DestroyedType
  <2> HIDE DEF st, tr, c, gone
  <2> QED
    BY <2>1, <2>2, <2>3, <2>4
<1>9. Good(v)
  <2>1. ASSUME NEW q \in Pod, tr[q] # NoTracker PROVE st[q] # Absent
    <3>1. q \notin gone
      BY <1>8, <2>1
    <3>2. w.k.trackers[q] # NoTracker /\ st[q] = w.k.store[q]
      BY <1>8, <2>1, <3>1
    <3> QED
      BY <3>2 DEF Good
  <2> HIDE DEF st, tr, a
  <2> QED
    BY <1>5, <1>7, <2>1 DEF Good
<1>10. Removed(w, S, v)
  <2>1. ASSUME NEW q \in Pod PROVE q \in gone <=> q \in S /\ w.k.store[q] # Absent
    OBVIOUS
  <2> HIDE DEF gone, st, tr, c
  <2> QED
    BY <1>7, <1>8, <2>1 DEF Removed
<1> QED
  BY <1>1, <1>9, <1>10

(* reconcile_liveness leaves pause containers and addresses alone.         *)
Looked(w, v) ==
    /\ v.k.cache = w.k.cache
    /\ \A q \in Pod :
          /\ v.k.store[q] = Absent <=> w.k.store[q] = Absent
          /\ w.k.store[q] # Absent => v.k.store[q].ip = w.k.store[q].ip
          /\ v.c[q].pause = w.c[q].pause /\ v.c[q].ip = w.c[q].ip

Views == [tracker : Tracker, sandbox : Sandbox \cup {Absent},
          app : {"NotFound", "Created", "Running", "Stopped"}]

LEMMA LivenessOfOne ==
    ASSUME NEW v \in Views, NEW o \in {"ok", "app", "start"}
    PROVE  /\ ReconcileLiveness(v, o) \in Views
           /\ ReconcileLiveness(v, o).sandbox = Absent <=> v.sandbox = Absent
           /\ v.sandbox # Absent => ReconcileLiveness(v, o).sandbox.ip = v.sandbox.ip
           /\ v.sandbox = Absent => ReconcileLiveness(v, o) = v
<1>1. CASE Restarts(v)
  <2>1. v.sandbox \in Sandbox /\ v.tracker \in Tracker /\ v.sandbox # Absent
    BY <1>1 DEF Restarts, Views
  <2>2. PICK s : s = [v.sandbox EXCEPT !.tracked = (o = "ok")]
    OBVIOUS
  <2>3. s \in Sandbox /\ s.ip = v.sandbox.ip /\ s # Absent
    <3>1. s \in Sandbox /\ s.ip = v.sandbox.ip
      BY <2>1, <2>2 DEF Sandbox
    <3> QED
      BY <3>1, AbsentAssumption
  <2>4. PICK t : t = [count |-> v.tracker.count + 1, due |-> FALSE]
    OBVIOUS
  <2>5. t \in Tracker
    BY <2>1, <2>4 DEF Tracker
  <2>6. PICK app \in {"NotFound", "Created", "Running", "Stopped"} :
            Restart(v, o) = [tracker |-> t, sandbox |-> s, app |-> app]
    BY <2>2, <2>4 DEF Restart
  <2> QED
    BY <1>1, <2>1, <2>3, <2>5, <2>6 DEF ReconcileLiveness, Views
<1>2. CASE ~Restarts(v) /\ v.sandbox # Absent /\ v.app = "Running"
  <2>1. NoTracker \in Tracker
    BY DEF NoTracker, Tracker
  <2> QED
    BY <1>2, <2>1 DEF ReconcileLiveness, Views
<1>3. CASE ~Restarts(v) /\ ~(v.sandbox # Absent /\ v.app = "Running")
  BY <1>3 DEF ReconcileLiveness
<1> QED
  BY <1>1, <1>2, <1>3

LEMMA LivenessEffect ==
    ASSUME NEW w, Good(w), NEW outcome \in RestartOutcomes
    PROVE  Good(LivenessPass(w, outcome)) /\ Looked(w, LivenessPass(w, outcome))
<1> DEFINE after == [p \in Pod |-> IF w.k.cache[p] = Absent THEN View(w, p)
                                   ELSE ReconcileLiveness(View(w, p), outcome[p])]
           st == [p \in Pod |-> after[p].sandbox]
           tr == [p \in Pod |-> after[p].tracker]
           c  == [p \in Pod |-> [w.c[p] EXCEPT !.app = after[p].app]]
<1>0. w \in Worlds
  BY DEF Good
<1>1. PICK v : v = LivenessPass(w, outcome)
  OBVIOUS
<1>2. With(w, st, tr, w.k.pushed, w.k.ipam, c, v)
  BY <1>0, <1>1, WorldFields DEF With, LivenessPass, Maps
<1>3. ASSUME NEW p \in Pod
      PROVE  /\ after[p] \in Views
             /\ after[p].sandbox = Absent <=> w.k.store[p] = Absent
             /\ w.k.store[p] # Absent => after[p].sandbox.ip = w.k.store[p].ip
             /\ w.k.store[p] = Absent => after[p].tracker = w.k.trackers[p]
  <2>1. PICK x : x = View(w, p)
    OBVIOUS
  <2>2. /\ x \in Views /\ x.sandbox = w.k.store[p] /\ x.tracker = w.k.trackers[p]
    BY <1>0, <2>1, WorldEntries DEF View, Views, Containers
  <2>3. outcome[p] \in {"ok", "app", "start"}
    BY DEF RestartOutcomes
  <2>4. after[p] = x \/ after[p] = ReconcileLiveness(x, outcome[p])
    BY <2>1
  <2> HIDE DEF after
  <2> QED
    BY <2>2, <2>3, <2>4, LivenessOfOne
<1> HIDE DEF after
<1>4. st \in MapOf(Sandbox) /\ tr \in [Pod -> Tracker]
  BY <1>3 DEF MapOf, Views
<1>5. ASSUME NEW p \in Pod
      PROVE  c[p] \in Containers /\ c[p].pause = w.c[p].pause /\ c[p].ip = w.c[p].ip
  <2>1. w.c[p] \in Containers /\ after[p].app \in {"NotFound", "Created", "Running", "Stopped"}
    BY <1>0, <1>3, WorldEntries DEF Views
  <2>2. c[p] = [w.c[p] EXCEPT !.app = after[p].app]
    OBVIOUS
  <2> QED
    BY <2>1, <2>2 DEF Containers
<1>6. c \in [Pod -> Containers]
  <2>1. c = [p \in Pod |-> c[p]]
    OBVIOUS
  <2> HIDE DEF c
  <2> QED
    BY <1>5, <2>1
<1>7. /\ v \in Worlds
      /\ v.k.cache = w.k.cache /\ v.k.store = st /\ v.k.trackers = tr
      /\ v.k.ipam = w.k.ipam /\ v.c = c
  <2>1. w.k.pushed \in MapOf(Status) /\ w.k.ipam \in Pool
    BY <1>0, WorldFields
  <2> HIDE DEF st, tr, c
  <2> QED
    BY <1>0, <1>2, <1>4, <1>6, <2>1, MakeWorld
<1>8. ASSUME NEW q \in Pod PROVE st[q] = after[q].sandbox /\ tr[q] = after[q].tracker
  OBVIOUS
<1> HIDE DEF st, tr, c
<1>9. Good(v)
  <2>1. ASSUME NEW q \in Pod, tr[q] # NoTracker PROVE st[q] # Absent
    BY <1>3, <1>8, <2>1 DEF Good
  <2> QED
    BY <1>7, <2>1 DEF Good
<1>10. Looked(w, v)
  BY <1>3, <1>5, <1>7, <1>8 DEF Looked
<1> QED
  BY <1>1, <1>9, <1>10

(* create_pod builds the pod with the address of its status, or a fresh    *)
(* one, if there is no pause container in the way; a failure may leave a   *)
(* pause container without an address.                                     *)
Untouched(w, p, v) == v.k.store[p] = w.k.store[p] /\ v.c[p].ip = w.c[p].ip

Built(obj, v, p) ==
    /\ v.k.store[p] # Absent /\ v.c[p].pause /\ v.c[p].ip \in Host
    /\ v.k.store[p].ip = v.c[p].ip
    /\ obj.status.ip # NoIp => v.c[p].ip = obj.status.ip

Created(w, p, obj, v) ==
    /\ v.k.cache = w.k.cache
    /\ \A q \in Pod \ {p} : v.k.store[q] = w.k.store[q] /\ v.c[q] = w.c[q]
    /\ \/ Untouched(w, p, v) /\ v.c[p].pause = w.c[p].pause
       \/ Untouched(w, p, v) /\ ~w.c[p].pause
       \/ Built(obj, v, p) /\ ~w.c[p].pause

(* An address for the pod: sound pools before and after it is given back.  *)
LEMMA EnsureEffect ==
    ASSUME NEW a \in Pool, Sound(a), NEW obj \in Object, NEW got, got = EnsurePodIp(a, obj)
    PROVE  /\ got.ip \in Ip /\ got.pool \in Pool /\ Sound(got.pool)
           /\ obj.status.ip # NoIp => got.ip = obj.status.ip
           /\ got.ip # NoIp => /\ got.ip \in Host
                               /\ Release(got.pool, got.ip) \in Pool
                               /\ Sound(Release(got.pool, got.ip))
<1>1. obj.status.ip \in Ip
  BY DEF Object, Status
<1>2. CASE obj.status.ip # NoIp
  <2>1. PICK h \in Host : h = obj.status.ip
    BY <1>1, <1>2 DEF Ip
  <2>2. Reserve(a, h) \in Pool /\ Sound(Reserve(a, h))
    BY ReserveKeepsSound
  <2>3. got = [ip |-> h, pool |-> Reserve(a, h)]
    BY <1>2, <2>1 DEF EnsurePodIp
  <2>4. got.ip = h /\ got.pool = Reserve(a, h)
    BY <2>3
  <2> QED
    BY <1>1, <2>1, <2>2, <2>4, ReleaseKeepsSound
<1>3. CASE obj.status.ip = NoIp
  <2>1. got = Allocate(a)
    BY <1>3 DEF EnsurePodIp
  <2>2. got.pool \in Pool /\ Sound(got.pool) /\ (got.ip # NoIp => got.ip \in Host)
    BY <2>1, AllocateIsFresh
  <2> QED
    BY <1>3, <2>2, ReleaseKeepsSound DEF Ip
<1> QED
  BY <1>2, <1>3

(* Another pool.                                                           *)
Pooled(w, a, v) == v = [w EXCEPT !.k = [w.k EXCEPT !.ipam = a]]

LEMMA PoolEffect ==
    ASSUME NEW w, Good(w), NEW a \in Pool, Sound(a), NEW v, Pooled(w, a, v)
    PROVE  /\ Good(v) /\ v.c = w.c /\ v.k = [w.k EXCEPT !.ipam = a]
           /\ v.k.cache = w.k.cache /\ v.k.store = w.k.store
<1>1. w \in Worlds
  BY DEF Good
<1>2. /\ v \in Worlds /\ v.c = w.c /\ v.k = [w.k EXCEPT !.ipam = a]
      /\ v.k.cache = w.k.cache /\ v.k.store = w.k.store
      /\ v.k.trackers = w.k.trackers /\ v.k.ipam = a
  BY <1>1 DEF Pooled, Worlds, Maps
<1> QED
  BY <1>2 DEF Good

(* Another state of one pod's containers.                                  *)
HostSet(w, p, c, v) == v = [w EXCEPT !.c = [w.c EXCEPT ![p] = c]]

LEMMA HostEffect ==
    ASSUME NEW w, Good(w), NEW p \in Pod, NEW c \in Containers, NEW v, HostSet(w, p, c, v)
    PROVE  /\ Good(v) /\ v.k = w.k /\ v.c[p] = c
           /\ \A q \in Pod \ {p} : v.c[q] = w.c[q]
<1>1. w \in Worlds
  BY DEF Good
<1>2. v \in Worlds /\ v.k = w.k /\ v.c = [w.c EXCEPT ![p] = c]
  BY <1>1 DEF HostSet, Worlds
<1>3. w.c \in [Pod -> Containers]
  BY <1>1, WorldFields
<1> QED
  BY <1>2, <1>3 DEF Good

(* Another sandbox of one pod.                                             *)
StoreSet(w, p, s, v) == v = [w EXCEPT !.k = [w.k EXCEPT !.store = [w.k.store EXCEPT ![p] = s]]]

LEMMA StoreEffect ==
    ASSUME NEW w, Good(w), NEW p \in Pod, NEW s \in Sandbox, NEW v, StoreSet(w, p, s, v)
    PROVE  /\ Good(v) /\ v.c = w.c /\ v.k.cache = w.k.cache /\ v.k.store[p] = s
           /\ \A q \in Pod \ {p} : v.k.store[q] = w.k.store[q]
<1>1. w \in Worlds
  BY DEF Good
<1>2. PICK st : st = [w.k.store EXCEPT ![p] = s]
  OBVIOUS
<1>3. st \in MapOf(Sandbox) /\ st[p] = s /\ \A q \in Pod \ {p} : st[q] = w.k.store[q]
  BY <1>1, <1>2, WorldFields DEF MapOf
<1>4. /\ v \in Worlds /\ v.c = w.c /\ v.k.cache = w.k.cache /\ v.k.store = st
      /\ v.k.trackers = w.k.trackers /\ v.k.ipam = w.k.ipam
  BY <1>1, <1>2, <1>3 DEF StoreSet, Worlds, Maps
<1>5. ASSUME NEW q \in Pod, w.k.trackers[q] # NoTracker PROVE st[q] # Absent
  <2>1. CASE q = p
    BY <1>3, <2>1, AbsentAssumption
  <2>2. CASE q # p
    BY <1>3, <1>5, <2>2 DEF Good
  <2> QED
    BY <2>1, <2>2
<1> QED
  BY <1>3, <1>4, <1>5 DEF Good

LEMMA CreateEffect ==
    ASSUME NEW w, Good(w), NEW p \in Pod, NEW obj \in Object, NEW o \in CreateOutcomes
    PROVE  Good(CreatePod(w, p, obj, o)) /\ Created(w, p, obj, CreatePod(w, p, obj, o))
<1>0. w \in Worlds /\ w.k.ipam \in Pool /\ Sound(w.k.ipam)
  BY WorldFields DEF Good
<1>1. PICK v : v = CreatePod(w, p, obj, o)
  OBVIOUS
<1>2. PICK got : got = EnsurePodIp(w.k.ipam, obj)
  OBVIOUS
<1>3. /\ got.ip \in Ip /\ got.pool \in Pool /\ Sound(got.pool)
      /\ obj.status.ip # NoIp => got.ip = obj.status.ip
      /\ got.ip # NoIp => /\ got.ip \in Host
                          /\ Release(got.pool, got.ip) \in Pool
                          /\ Sound(Release(got.pool, got.ip))
  BY <1>0, <1>2, EnsureEffect
<1>4. PICK how : how = Outcome(w.c[p], o)
  OBVIOUS
<1>5. /\ how \in CreateOutcomes
      /\ how \in {"ok", "network"} => ~w.c[p].pause
  BY <1>4 DEF Outcome, AlreadyExists, CreateOutcomes, PossibleFaults
<1>6. w.c[p] \in Containers
  BY <1>0, WorldEntries
<1>7. PICK u : Pooled(w, got.pool, u)
  BY DEF Pooled
<1>8. PICK x : Pooled(w, Release(got.pool, got.ip), x)
  BY DEF Pooled
<1>9. /\ Good(u) /\ u.c = w.c /\ u.k = [w.k EXCEPT !.ipam = got.pool]
      /\ u.k.cache = w.k.cache /\ u.k.store = w.k.store
  BY <1>3, <1>7, PoolEffect
<1>10. ASSUME got.ip # NoIp
       PROVE  /\ Good(x) /\ x.c = w.c /\ x.k = [w.k EXCEPT !.ipam = Release(got.pool, got.ip)]
              /\ x.k.cache = w.k.cache /\ x.k.store = w.k.store
  BY <1>3, <1>8, <1>10, PoolEffect
<1>11. CASE got.ip = NoIp \/ how = "pause"
  <2>1. v = u
    BY <1>1, <1>2, <1>4, <1>7, <1>11 DEF CreatePod, Pooled
  <2> QED
    BY <1>1, <1>9, <2>1 DEF Created, Untouched
<1>12. CASE got.ip # NoIp /\ how = "app"
  <2>1. v = x
    BY <1>1, <1>2, <1>4, <1>8, <1>12 DEF CreatePod, Pooled
  <2> QED
    BY <1>1, <1>10, <1>12, <2>1 DEF Created, Untouched
<1>13. CASE got.ip # NoIp /\ how = "network"
  <2>1. PICK c : c = [w.c[p] EXCEPT !.pause = TRUE]
    OBVIOUS
  <2>2. c \in Containers /\ c.ip = w.c[p].ip
    BY <1>6, <2>1 DEF Containers
  <2>3. v = [w EXCEPT !.k = [w.k EXCEPT !.ipam = got.pool], !.c[p].pause = TRUE]
    BY <1>1, <1>2, <1>4, <1>13 DEF CreatePod
  <2>4. HostSet(u, p, c, v)
    BY <1>0, <1>7, <2>1, <2>3 DEF HostSet, Pooled, Worlds
  <2>5. /\ Good(v) /\ v.k = u.k /\ v.c[p] = c
        /\ \A q \in Pod \ {p} : v.c[q] = u.c[q]
    BY <1>9, <2>2, <2>4, HostEffect
  <2> QED
    BY <1>1, <1>5, <1>9, <1>13, <2>2, <2>5 DEF Created, Untouched
<1>14. CASE got.ip # NoIp /\ how = "start"
  <2>1. PICK c : c = [w.c[p] EXCEPT !.app = "Created"]
    OBVIOUS
  <2>2. c \in Containers /\ c.ip = w.c[p].ip /\ c.pause = w.c[p].pause
    BY <1>6, <2>1 DEF Containers
  <2>3. v = [w EXCEPT !.k = [w.k EXCEPT !.ipam = Release(got.pool, got.ip)], !.c[p].app = "Created"]
    BY <1>1, <1>2, <1>4, <1>14 DEF CreatePod
  <2>4. HostSet(x, p, c, v)
    BY <1>0, <1>8, <2>1, <2>3 DEF HostSet, Pooled, Worlds
  <2>5. /\ Good(v) /\ v.k = x.k /\ v.c[p] = c
        /\ \A q \in Pod \ {p} : v.c[q] = x.c[q]
    BY <1>10, <1>14, <2>2, <2>4, HostEffect
  <2> QED
    BY <1>1, <1>10, <1>14, <2>2, <2>5 DEF Created, Untouched
<1>15. CASE got.ip # NoIp /\ how = "ok"
  <2>1. PICK c : c = [pause |-> TRUE, ip |-> got.ip, app |-> "Running"]
    OBVIOUS
  <2>2. c \in Containers /\ c.ip = got.ip /\ c.pause
    BY <1>3, <2>1 DEF Containers
  <2>3. PICK s : s = [ip |-> got.ip, tracked |-> TRUE]
    OBVIOUS
  <2>4. s \in Sandbox /\ s.ip = got.ip /\ s # Absent
    <3>1. s \in Sandbox /\ s.ip = got.ip
      BY <1>3, <2>3 DEF Sandbox
    <3> QED
      BY <3>1, AbsentAssumption
  <2>5. v = [k |-> [u.k EXCEPT !.store[p] = s], c |-> [w.c EXCEPT ![p] = c]]
    <3>1. v = [k |-> [[w.k EXCEPT !.ipam = got.pool]
                          EXCEPT !.store[p] = [ip |-> got.ip, tracked |-> TRUE]],
               c |-> [w.c EXCEPT ![p] = [pause |-> TRUE, ip |-> got.ip, app |-> "Running"]]]
      BY <1>1, <1>2, <1>4, <1>15 DEF CreatePod
    <3>2. [w.k EXCEPT !.ipam = got.pool] = u.k
      BY <1>9
    <3> QED
      BY <2>1, <2>3, <3>1, <3>2, Zenon
  <2>6. PICK y : StoreSet(u, p, s, y)
    BY DEF StoreSet
  <2>7. /\ Good(y) /\ y.c = u.c /\ y.k.cache = u.k.cache /\ y.k.store[p] = s
        /\ \A q \in Pod \ {p} : y.k.store[q] = u.k.store[q]
    <3>1. Good(u)
      BY <1>9
    <3> QED
      BY <2>4, <2>6, <3>1, StoreEffect
  <2>8. HostSet(y, p, c, v)
    <3>1. u \in Worlds
      BY <1>9 DEF Good
    <3>2. PICK k : k = [u.k EXCEPT !.store[p] = s]
      OBVIOUS
    <3>3. y = [u EXCEPT !.k = k]
      <4>1. [u.k EXCEPT !.store = [u.k.store EXCEPT ![p] = s]] = k
        BY <3>1, <3>2 DEF Worlds, Maps
      <4> QED
        BY <2>6, <4>1, Zenon DEF StoreSet
    <3>4. y.k = k /\ y.c = w.c /\ y = [k |-> k, c |-> w.c]
      BY <1>9, <3>1, <3>3 DEF Worlds
    <3>5. v = [k |-> k, c |-> [w.c EXCEPT ![p] = c]]
      BY <2>5, <3>2, Zenon
    <3>6. [y EXCEPT !.c = [y.c EXCEPT ![p] = c]] = [k |-> k, c |-> [w.c EXCEPT ![p] = c]]
      BY <3>4
    <3> QED
      BY <3>5, <3>6, Zenon DEF HostSet
  <2>9. /\ Good(v) /\ v.k = y.k /\ v.c[p] = c
        /\ \A q \in Pod \ {p} : v.c[q] = y.c[q]
    BY <2>2, <2>7, <2>8, HostEffect
  <2>10. Built(obj, v, p)
    BY <1>3, <1>15, <2>2, <2>4, <2>7, <2>9 DEF Built
  <2> QED
    BY <1>1, <1>5, <1>9, <1>15, <2>7, <2>9, <2>10 DEF Created
<1> QED
  BY <1>5, <1>11, <1>12, <1>13, <1>14, <1>15 DEF CreateOutcomes, PossibleFaults

-----------------------------------------------------------------------------
(* The inductive invariant *)

(* An address that is shown or remembered is the one that the pod has.     *)
Fits(c, ip) == c.pause /\ c.ip # NoIp /\ ip # NoIp => ip = c.ip

(* One pod: how often its name was used, its object, its containers, what  *)
(* the reconciler has cached and stored of it and is about to push, and    *)
(* what the reconciler is doing.  During startup and a diff the cache is   *)
(* fresh; a live pod that the kubelet does not know yet has nothing.       *)
FirstLife(a, c, ca, st, di, where) ==
    /\ Fits(c, a.status.ip)
    /\ st # Absent => Fits(c, st.ip)
    /\ di # Absent => Fits(c, di.ip)
    /\ where \in {"startup", "diff"} /\ ca # Absent => ca.status.ip = a.status.ip
    /\ where # "down" /\ ca = Absent => a.status.ip = NoIp /\ ~c.pause

PodOK(lives, a, c, ca, st, di, where) ==
    /\ lives = 0 => a = Absent /\ ca = Absent /\ st = Absent /\ di = Absent /\ ~c.pause
    /\ ~c.pause => c.ip = NoIp
    /\ di # Absent => ca # Absent
    /\ lives = 1 /\ a # Absent => FirstLife(a, c, ca, st, di, where)

PodsOK ==
    \A p \in Pod :
        PodOK(history[p].lives, api[p], host[p], kubelet.cache[p], kubelet.store[p], dirty[p], pc)

(* An event is about a pod that has existed; a Deleted about one that is   *)
(* gone, unless the name is used again.                                    *)
EventOK(e, h, a) ==
    /\ h[e.pod].lives > 0
    /\ e.type = "Deleted" /\ h[e.pod].lives = 1 => a[e.pod] = Absent

EventsOK == \A i \in 1..Len(stream.events) : EventOK(stream.events[i], history, api)

ControlOK ==
    /\ pc \in {"startup", "diff"} => todo \subseteq Cached /\ dirty = Nowhere
    /\ pc \in {"refetch", "retry"} => \A p \in todo : dirty[p] # Absent

Event == [type : {"Set", "Deleted"}, pod : Pod, object : Object]
Lives == [lives : Nat, rv : Nat, lost : BOOLEAN]
Control == {"down", "startup", "idle", "diff", "push", "refetch", "retry"}

(* The types of the variables that are no part of the world.               *)
Typed ==
    /\ api \in MapOf(Object)
    /\ history \in [Pod -> Lives]
    /\ stream \in [open : BOOLEAN, events : Seq(Event)]
    /\ pc \in Control
    /\ todo \subseteq Pod
    /\ pc \in {"down", "idle"} => todo = {} /\ dirty = Nowhere
    /\ dirty \in MapOf(Status)
    /\ mishaps \in 0..MaxMishaps

Inv == Typed /\ Good(World) /\ PodsOK /\ EventsOK /\ ControlOK

LEMMA ThisWorld ==
    World.k = kubelet /\ World.c = host
  BY DEF World

LEMMA NextWorld ==
    ASSUME NEW v, Good(v), kubelet' = v.k, host' = v.c
    PROVE  Good(World)'
<1>1. v = [k |-> v.k, c |-> v.c]
  BY WorldFields DEF Good
<1>2. World' = v
  BY <1>1 DEF World
<1> QED
  BY <1>2 DEF Good

LEMMA PodEntries ==
    ASSUME Inv, NEW p \in Pod
    PROVE  /\ api[p] \in Object \cup {Absent} /\ history[p] \in Lives
           /\ host[p] \in Containers
           /\ kubelet.cache[p] \in Object \cup {Absent}
           /\ kubelet.store[p] \in Sandbox \cup {Absent}
           /\ kubelet.trackers[p] \in Tracker
           /\ dirty[p] \in Status \cup {Absent}
           /\ PodOK(history[p].lives, api[p], host[p], kubelet.cache[p], kubelet.store[p], dirty[p], pc)
<1>1. World \in Worlds
  BY DEF Inv, Good
<1>2. /\ World.k.cache[p] \in Object \cup {Absent}
      /\ World.k.store[p] \in Sandbox \cup {Absent}
      /\ World.k.trackers[p] \in Tracker
      /\ World.c[p] \in Containers
  BY <1>1, WorldEntries
<1> QED
  BY <1>2, ThisWorld DEF Inv, Typed, MapOf, PodsOK

LEMMA NowhereType == Nowhere \in MapOf(Object) /\ Nowhere \in MapOf(Sandbox) /\ Nowhere \in MapOf(Status)
  BY DEF Nowhere, MapOf

LEMMA NewReconcilerType ==
    ASSUME NEW ca \in MapOf(Object), NEW c \in [Pod -> Containers],
           NEW v, v = [k |-> [NewReconciler EXCEPT !.cache = ca], c |-> c]
    PROVE  /\ Good(v)
           /\ v.k.cache = ca /\ v.k.store = Nowhere /\ v.c = c
<1>1. PICK tr : tr = [p \in Pod |-> NoTracker]
  OBVIOUS
<1>2. tr \in [Pod -> Tracker] /\ \A p \in Pod : tr[p] = NoTracker
  BY <1>1 DEF NoTracker, Tracker
<1>3. NewReconciler = [cache |-> Nowhere, store |-> Nowhere, trackers |-> tr,
                       pushed |-> Nowhere, ipam |-> FreshPool]
  BY <1>1 DEF NewReconciler
<1>4. /\ v \in Worlds
      /\ v.k.cache = ca /\ v.k.store = Nowhere /\ v.c = c
      /\ v.k.trackers = tr /\ v.k.ipam = FreshPool
  BY <1>2, <1>3, NowhereType, FreshPoolIsSound DEF Worlds, Maps
<1> QED
  BY <1>2, <1>4, FreshPoolIsSound DEF Good

LEMMA InitInv ==
    ASSUME Init PROVE Inv
<1>1. Good(World)
  <2>1. [p \in Pod |-> Nothing] \in [Pod -> Containers]
    BY DEF Nothing, Containers, Ip
  <2>2. NewReconciler = [NewReconciler EXCEPT !.cache = Nowhere]
    BY DEF NewReconciler
  <2> QED
    BY <2>1, <2>2, NowhereType, NewReconcilerType DEF Init, World
<1>2. Typed
  <2>1. << >> \in Seq(Event)
    OBVIOUS
  <2> QED
    BY <2>1, NowhereType, KubeletAssumption DEF Init, Typed, Lives, Control, Closed
<1>3. PodsOK
  BY DEF Init, PodsOK, PodOK, Nowhere, NewReconciler, Nothing
<1>4. EventsOK /\ ControlOK
  BY DEF Init, EventsOK, ControlOK, Closed
<1> QED
  BY <1>1, <1>2, <1>3, <1>4 DEF Inv

(* What the safety properties need of it.                                  *)
LEMMA InvSuffices ==
    ASSUME Inv
    PROVE  TypeOK /\ AllocatorSound /\ ShownAddressIsReal /\ TrackersBelongToPods
<1>1. TypeOK
  <2>1. kubelet \in Maps /\ host \in [Pod -> Containers]
    BY ThisWorld, WorldFields DEF Inv, Good
  <2>2. Pool \subseteq [next : Nat, released : SUBSET Host, allocated : SUBSET Host]
    BY PoolAssumption DEF Pool, FirstHost
  <2> QED
    BY <2>1, <2>2 DEF Inv, Typed, TypeOK, Maps, Lives, Event, Control
<1>2. AllocatorSound /\ TrackersBelongToPods
  BY ThisWorld DEF Inv, Good, AllocatorSound, TrackersBelongToPods, Stored
<1>3. ShownAddressIsReal
  BY PodEntries DEF ShownAddressIsReal, Live, UsedOnce, HasAddress, PodOK, FirstLife, Fits
<1> QED
  BY <1>1, <1>2, <1>3

-----------------------------------------------------------------------------
(* Objects and events *)

(* Names are not used less, and no name is used again for the same life.   *)
Grows ==
    /\ history' \in [Pod -> Lives]
    /\ \A q \in Pod :
          /\ history'[q].lives >= history[q].lives
          /\ history'[q].lives = 1 /\ history[q].lives = 1 /\ api[q] = Absent => api'[q] = Absent

LEMMA OldEvents ==
    ASSUME Inv, Grows
    PROVE  /\ stream.events \in Seq(Event) /\ Len(stream.events) \in Nat
           /\ \A i \in 1..Len(stream.events) :
                 stream.events[i] \in Event /\ EventOK(stream.events[i], history', api')
<1>1. stream.events \in Seq(Event) /\ Len(stream.events) \in Nat
  BY DEF Inv, Typed
<1>2. ASSUME NEW i \in 1..Len(stream.events)
      PROVE  stream.events[i] \in Event /\ EventOK(stream.events[i], history', api')
  <2>1. PICK e : e = stream.events[i]
    OBVIOUS
  <2>2. e \in Event /\ EventOK(e, history, api)
    BY <1>1, <2>1 DEF Inv, EventsOK
  <2>3. e.pod \in Pod
    BY <2>2 DEF Event
  <2>4. history[e.pod].lives \in Nat /\ history'[e.pod].lives \in Nat
    BY <2>3 DEF Inv, Typed, Grows, Lives
  <2>5. EventOK(e, history', api')
    BY <2>2, <2>3, <2>4 DEF EventOK, Grows
  <2> QED
    BY <2>1, <2>2, <2>5
<1> QED
  BY <1>1, <1>2

(* Nothing new on the stream.                                              *)
LEMMA SameEvents ==
    ASSUME Inv, Grows,
           stream'.events \in {stream.events, << >>}
           \/ (stream.events # << >> /\ stream'.events = Tail(stream.events))
    PROVE  EventsOK'
<1>1. CASE stream'.events = stream.events
  BY <1>1, OldEvents DEF EventsOK
<1>2. CASE stream'.events = << >>
  BY <1>2 DEF EventsOK
<1>3. CASE stream.events # << >> /\ stream'.events = Tail(stream.events)
  <2>1. PICK ev : ev = stream.events
    OBVIOUS
  <2>2. ev \in Seq(Event) /\ Len(ev) \in Nat /\ \A i \in 1..Len(ev) : EventOK(ev[i], history', api')
    BY <2>1, OldEvents
  <2>3. Len(Tail(ev)) = Len(ev) - 1 /\ \A i \in 1..Len(ev) - 1 : Tail(ev)[i] = ev[i + 1]
    BY <1>3, <2>1, <2>2
  <2> QED
    BY <1>3, <2>1, <2>2, <2>3 DEF EventsOK
<1> QED
  BY <1>1, <1>2, <1>3

LEMMA EmitEffect ==
    ASSUME Inv, Grows, NEW type \in {"Set", "Deleted"}, NEW p \in Pod, NEW obj \in Object,
           Emit(type, p, obj), history'[p].lives > 0,
           type = "Deleted" => api'[p] = Absent
    PROVE  EventsOK' /\ stream' \in [open : BOOLEAN, events : Seq(Event)]
<1>1. stream \in [open : BOOLEAN, events : Seq(Event)]
  BY DEF Inv, Typed
<1>2. CASE ~stream.open
  BY <1>1, <1>2, SameEvents DEF Emit
<1>3. CASE stream.open
  <2>1. PICK ev : ev = stream.events
    OBVIOUS
  <2>2. PICK e : e = [type |-> type, pod |-> p, object |-> obj]
    OBVIOUS
  <2>3. e \in Event /\ e.pod = p /\ e.type = type
    BY <2>2 DEF Event
  <2>4. ev \in Seq(Event) /\ Len(ev) \in Nat /\ \A i \in 1..Len(ev) : EventOK(ev[i], history', api')
    BY <2>1, OldEvents
  <2>5. stream' = [stream EXCEPT !.events = Append(ev, e)]
    BY <1>3, <2>1, <2>2 DEF Emit
  <2>6. PICK new : new = Append(ev, e)
    OBVIOUS
  <2>7. /\ new \in Seq(Event) /\ Len(new) = Len(ev) + 1
        /\ \A i \in 1..Len(ev) : new[i] = ev[i]
        /\ new[Len(ev) + 1] = e
    BY <2>3, <2>4, <2>6
  <2>8. stream' \in [open : BOOLEAN, events : Seq(Event)] /\ stream'.events = new
    BY <1>1, <2>5, <2>6, <2>7
  <2>9. EventOK(e, history', api')
    BY <2>3 DEF EventOK
  <2>10. ASSUME NEW i \in 1..Len(new) PROVE EventOK(new[i], history', api')
    BY <2>4, <2>7, <2>9
  <2> QED
    BY <2>8, <2>10 DEF EventsOK
<1> QED
  BY <1>2, <1>3

(* A write of an object.                                                   *)
LEMMA PutEffect ==
    ASSUME Inv, NEW p \in Pod, NEW status \in Status, NEW new \in Lives,
           Put(p, status, new),
           new.lives >= history[p].lives, new.lives > 0,
           api[p] = Absent => new.lives > 1 \/ history[p].lives = 0
    PROVE  /\ api' \in MapOf(Object) /\ history' \in [Pod -> Lives]
           /\ stream' \in [open : BOOLEAN, events : Seq(Event)]
           /\ api'[p] \in Object /\ api'[p] # Absent /\ api'[p].status = status
           /\ history'[p].lives = new.lives
           /\ \A q \in Pod \ {p} : api'[q] = api[q] /\ history'[q] = history[q]
           /\ EventsOK'
<1>1. api \in MapOf(Object) /\ history \in [Pod -> Lives]
  BY DEF Inv, Typed
<1>2. PICK obj : obj = [rv |-> history[p].rv + 1, status |-> status]
  OBVIOUS
<1>3. history[p] \in Lives
  BY <1>1
<1>4. obj \in Object /\ obj.status = status
  BY <1>2, <1>3 DEF Object, Lives
<1>5. obj # Absent
  BY <1>4, AbsentAssumption
<1>6. PICK n : n = [new EXCEPT !.rv = @ + 1]
  OBVIOUS
<1>7. n \in Lives /\ n.lives = new.lives
  BY <1>6 DEF Lives
<1>8. api' = [api EXCEPT ![p] = obj] /\ history' = [history EXCEPT ![p] = n] /\ Emit("Set", p, obj)
  BY <1>2, <1>6 DEF Put
<1>9. /\ api' \in MapOf(Object) /\ api'[p] = obj /\ \A q \in Pod \ {p} : api'[q] = api[q]
  BY <1>1, <1>4, <1>8 DEF MapOf
<1>10. /\ history' \in [Pod -> Lives] /\ history'[p] = n
       /\ \A q \in Pod \ {p} : history'[q] = history[q]
  BY <1>1, <1>7, <1>8
<1>11. Grows
  <2>1. ASSUME NEW q \in Pod
        PROVE  /\ history'[q].lives >= history[q].lives
               /\ history'[q].lives = 1 /\ history[q].lives = 1 /\ api[q] = Absent
                     => api'[q] = Absent
    <3>1. CASE q = p
      BY <1>7, <1>10, <3>1
    <3>2. CASE q # p
      <4>1. history[q].lives \in Nat
        BY <1>1 DEF Lives
      <4> QED
        BY <1>9, <1>10, <3>2, <4>1
    <3> QED
      BY <3>1, <3>2
  <2> QED
    BY <1>10, <2>1 DEF Grows
<1>12. EventsOK' /\ stream' \in [open : BOOLEAN, events : Seq(Event)]
  <2>1. Emit("Set", p, obj) /\ history'[p].lives > 0
    BY <1>7, <1>8, <1>10
  <2> QED
    BY <1>4, <1>11, <2>1, EmitEffect
<1> QED
  BY <1>4, <1>5, <1>7, <1>9, <1>10, <1>12

(* Nothing written.                                                        *)
LEMMA NoWrite ==
    ASSUME Inv, UNCHANGED <<api, history>>
    PROVE  Grows
<1>1. ASSUME NEW q \in Pod PROVE history[q].lives \in Nat
  BY DEF Inv, Typed, Lives
<1> QED
  BY <1>1 DEF Inv, Typed, Grows

-----------------------------------------------------------------------------
(* Clients and containers *)

(* The reconciler and the containers are left alone.                       *)
LEMMA SameWorld ==
    ASSUME Inv, UNCHANGED <<kubelet, host>>
    PROVE  Good(World)'
<1>1. World' = World
  BY DEF World
<1> QED
  BY <1>1 DEF Inv, Good

LEMMA ClientCreatesInv ==
    ASSUME Inv, NEW p \in Pod, ClientCreates(p)
    PROVE  Inv'
<1> DEFINE new == [history[p] EXCEPT !.lives = @ + 1, !.lost = FALSE]
<1>1. /\ api[p] = Absent /\ Put(p, NoStatus, new)
      /\ UNCHANGED <<host, mishaps, pc, todo, kubelet, dirty>>
  BY DEF ClientCreates, kubeletVars
<1>2. history[p] \in Lives
  BY PodEntries
<1>3. new \in Lives /\ new.lives = history[p].lives + 1
  <2>1. PICK h : h = history[p]
    OBVIOUS
  <2>2. h \in Lives /\ h.lives + 1 \in Nat
    BY <1>2, <2>1 DEF Lives
  <2>3. PICK g : g = [h EXCEPT !.lives = h.lives + 1]
    OBVIOUS
  <2>4. g \in Lives /\ g.lives = h.lives + 1
    BY <2>2, <2>3 DEF Lives
  <2>5. new = [g EXCEPT !.lost = FALSE]
    BY <2>1, <2>2, <2>3 DEF Lives
  <2>6. [g EXCEPT !.lost = FALSE] \in Lives /\ [g EXCEPT !.lost = FALSE].lives = g.lives
    BY <2>4 DEF Lives
  <2> QED
    BY <2>1, <2>4, <2>5, <2>6
<1>4. NoStatus \in Status /\ NoStatus.ip = NoIp
  BY DEF NoStatus, Status, Ip
<1>5. history[p].lives \in Nat
  BY <1>2 DEF Lives
<1> HIDE DEF new
<1>6. /\ api' \in MapOf(Object) /\ history' \in [Pod -> Lives]
      /\ stream' \in [open : BOOLEAN, events : Seq(Event)]
      /\ api'[p] \in Object /\ api'[p] # Absent /\ api'[p].status = NoStatus
      /\ history'[p].lives = new.lives
      /\ \A q \in Pod \ {p} : api'[q] = api[q] /\ history'[q] = history[q]
      /\ EventsOK'
  <2>1. new.lives >= history[p].lives /\ new.lives > 0
        /\ (api[p] = Absent => new.lives > 1 \/ history[p].lives = 0)
    BY <1>3, <1>5
  <2> QED
    BY <1>1, <1>3, <1>4, <2>1, PutEffect
<1>7. Typed'
  BY <1>1, <1>6 DEF Inv, Typed, Nowhere
<1>8. PodsOK'
  <2>1. ASSUME NEW q \in Pod
        PROVE  PodOK(history'[q].lives, api'[q], host[q], kubelet.cache[q], kubelet.store[q],
                     dirty[q], pc)
    <3>1. CASE q = p
      <4>1. PodOK(history[p].lives, api[p], host[p], kubelet.cache[p], kubelet.store[p], dirty[p], pc)
        BY PodEntries
      <4>2. history'[p].lives = history[p].lives + 1
        BY <1>3, <1>6
      <4> QED
        BY <1>4, <1>5, <1>6, <3>1, <4>1, <4>2 DEF PodOK, FirstLife, Fits
    <3>2. CASE q # p
      BY <1>6, <3>2, PodEntries
    <3> QED
      BY <3>1, <3>2
  <2> QED
    BY <1>1, <2>1 DEF PodsOK
<1>9. ControlOK' /\ Good(World)'
  BY <1>1, SameWorld DEF Inv, ControlOK, Cached, Nowhere
<1> QED
  BY <1>6, <1>7, <1>8, <1>9 DEF Inv

LEMMA ClientEditsInv ==
    ASSUME Inv, NEW p \in Pod, ClientEdits(p)
    PROVE  Inv'
<1>1. /\ api[p] # Absent /\ Put(p, api[p].status, history[p])
      /\ UNCHANGED <<host, pc, todo, kubelet, dirty>>
      /\ mishaps < MaxMishaps /\ mishaps' = mishaps + 1
  BY DEF ClientEdits, kubeletVars, Mishap
<1>2. history[p] \in Lives /\ api[p] \in Object
      /\ PodOK(history[p].lives, api[p], host[p], kubelet.cache[p], kubelet.store[p], dirty[p], pc)
  BY <1>1, PodEntries
<1>3. api[p].status \in Status /\ history[p].lives \in Nat /\ history[p].lives > 0
  BY <1>1, <1>2 DEF Object, Lives, PodOK
<1>4. /\ api' \in MapOf(Object) /\ history' \in [Pod -> Lives]
      /\ stream' \in [open : BOOLEAN, events : Seq(Event)]
      /\ api'[p] \in Object /\ api'[p] # Absent /\ api'[p].status = api[p].status
      /\ history'[p].lives = history[p].lives
      /\ \A q \in Pod \ {p} : api'[q] = api[q] /\ history'[q] = history[q]
      /\ EventsOK'
  <2>1. history[p].lives >= history[p].lives
    BY <1>3
  <2> QED
    BY <1>1, <1>2, <1>3, <2>1, PutEffect
<1>5. Typed'
  BY <1>1, <1>4, KubeletAssumption DEF Inv, Typed, Nowhere
<1>6. PodsOK'
  <2>1. ASSUME NEW q \in Pod
        PROVE  PodOK(history'[q].lives, api'[q], host[q], kubelet.cache[q], kubelet.store[q],
                     dirty[q], pc)
    <3>1. CASE q = p
      BY <1>1, <1>2, <1>3, <1>4, <3>1 DEF PodOK, FirstLife, Fits
    <3>2. CASE q # p
      BY <1>4, <3>2, PodEntries
    <3> QED
      BY <3>1, <3>2
  <2> QED
    BY <1>1, <2>1 DEF PodsOK
<1>7. ControlOK' /\ Good(World)'
  BY <1>1, SameWorld DEF Inv, ControlOK, Cached, Nowhere
<1> QED
  BY <1>4, <1>5, <1>6, <1>7 DEF Inv

LEMMA ClientDeletesInv ==
    ASSUME Inv, NEW p \in Pod, ClientDeletes(p)
    PROVE  Inv'
<1>1. /\ api[p] # Absent /\ api' = [api EXCEPT ![p] = Absent]
      /\ Emit("Deleted", p, api[p])
      /\ UNCHANGED <<history, host, mishaps, pc, todo, kubelet, dirty>>
  BY DEF ClientDeletes, kubeletVars
<1>2. history[p] \in Lives /\ api[p] \in Object
      /\ PodOK(history[p].lives, api[p], host[p], kubelet.cache[p], kubelet.store[p], dirty[p], pc)
  BY <1>1, PodEntries
<1>3. history[p].lives \in Nat /\ history[p].lives > 0
  BY <1>1, <1>2 DEF Lives, PodOK
<1>4. api' \in MapOf(Object) /\ api'[p] = Absent /\ \A q \in Pod \ {p} : api'[q] = api[q]
  BY <1>1 DEF Inv, Typed, MapOf
<1>5. Grows
  <2>1. ASSUME NEW q \in Pod PROVE history[q].lives \in Nat /\ (api[q] = Absent => api'[q] = Absent)
    <3>1. history[q].lives \in Nat
      BY DEF Inv, Typed, Lives
    <3> QED
      BY <1>4, <3>1
  <2> QED
    BY <1>1, <2>1 DEF Inv, Typed, Grows
<1>6. EventsOK' /\ stream' \in [open : BOOLEAN, events : Seq(Event)]
  BY <1>1, <1>2, <1>3, <1>4, <1>5, EmitEffect
<1>7. Typed'
  BY <1>1, <1>4, <1>6 DEF Inv, Typed, Nowhere
<1>8. PodsOK'
  <2>1. ASSUME NEW q \in Pod
        PROVE  PodOK(history[q].lives, api'[q], host[q], kubelet.cache[q], kubelet.store[q],
                     dirty[q], pc)
    <3>1. CASE q = p
      BY <1>2, <1>3, <1>4, <3>1 DEF PodOK
    <3>2. CASE q # p
      BY <1>4, <3>2, PodEntries
    <3> QED
      BY <3>1, <3>2
  <2> QED
    BY <1>1, <2>1 DEF PodsOK
<1>9. ControlOK' /\ Good(World)'
  BY <1>1, SameWorld DEF Inv, ControlOK, Cached, Nowhere
<1> QED
  BY <1>6, <1>7, <1>8, <1>9 DEF Inv

LEMMA StreamClosesInv ==
    ASSUME Inv, StreamCloses
    PROVE  Inv'
<1>1. /\ stream' = [stream EXCEPT !.open = FALSE]
      /\ UNCHANGED <<api, history, host, pc, todo, kubelet, dirty>>
      /\ mishaps < MaxMishaps /\ mishaps' = mishaps + 1
  BY DEF StreamCloses, kubeletVars, Mishap
<1>2. stream' \in [open : BOOLEAN, events : Seq(Event)] /\ stream'.events = stream.events
  BY <1>1 DEF Inv, Typed
<1>3. EventsOK'
  BY <1>1, <1>2, NoWrite, SameEvents
<1>4. Typed'
  BY <1>1, <1>2, KubeletAssumption DEF Inv, Typed, Nowhere
<1>5. PodsOK' /\ ControlOK' /\ Good(World)'
  BY <1>1, SameWorld DEF Inv, PodsOK, ControlOK, Cached, Nowhere
<1> QED
  BY <1>3, <1>4, <1>5 DEF Inv

(* A pod that exists for the first time keeps its containers.              *)
Keeps ==
    \A q \in Pod :
        UsedOnce(q) /\ host[q].pause /\ api[q] # Absent =>
            host'[q].pause /\ host'[q].ip = host[q].ip

LEMMA ContainerExitsInv ==
    ASSUME Inv, NEW p \in Pod, ContainerExits(p)
    PROVE  Inv' /\ Keeps
<1>1. /\ host' = [host EXCEPT ![p].app = "Stopped"]
      /\ UNCHANGED <<api, history, stream, pc, todo, kubelet, dirty>>
      /\ mishaps < MaxMishaps /\ mishaps' = mishaps + 1
  BY DEF ContainerExits, apiVars, kubeletVars, Mishap
<1>2. PICK c : c = [host[p] EXCEPT !.app = "Stopped"]
  OBVIOUS
<1>3. c \in Containers /\ c.pause = host[p].pause /\ c.ip = host[p].ip
  BY <1>2, PodEntries DEF Containers
<1>4. PICK v : HostSet(World, p, c, v)
  BY DEF HostSet
<1>5. /\ Good(v) /\ v.k = World.k /\ v.c[p] = c
      /\ \A q \in Pod \ {p} : v.c[q] = World.c[q]
  BY <1>3, <1>4, HostEffect DEF Inv
<1>6. v.c = host' /\ v.k = kubelet'
  BY <1>1, <1>2, <1>4, <1>5, ThisWorld DEF HostSet, World
<1>7. Good(World)'
  BY <1>5, <1>6, NextWorld
<1>8. EventsOK'
  BY <1>1, NoWrite, SameEvents
<1>9. Typed' /\ ControlOK'
  BY <1>1, KubeletAssumption DEF Inv, Typed, ControlOK, Cached, Nowhere
<1>10. PodsOK'
  <2>1. ASSUME NEW q \in Pod
        PROVE  PodOK(history[q].lives, api[q], host'[q], kubelet.cache[q], kubelet.store[q],
                     dirty[q], pc)
    <3>1. host'[q].pause = host[q].pause /\ host'[q].ip = host[q].ip
      BY <1>3, <1>5, <1>6, ThisWorld
    <3>2. PodOK(history[q].lives, api[q], host[q], kubelet.cache[q], kubelet.store[q], dirty[q], pc)
      BY PodEntries
    <3> QED
      BY <3>1, <3>2 DEF PodOK, FirstLife, Fits
  <2> QED
    BY <1>1, <2>1 DEF PodsOK
<1>11. Keeps
  BY <1>3, <1>5, <1>6, ThisWorld DEF Keeps
<1> QED
  BY <1>7, <1>8, <1>9, <1>10, <1>11 DEF Inv
-----------------------------------------------------------------------------
(* What the handlers do to one pod *)

(* Its containers and its sandbox keep their addresses.                    *)
Steady(c, st, c2, st2) ==
    /\ c2.pause = c.pause /\ c2.ip = c.ip
    /\ st2 = Absent <=> st = Absent
    /\ st # Absent => st2.ip = st.ip

LEMMA SteadyPod ==
    ASSUME NEW lives, NEW a, NEW c, NEW ca, NEW st, NEW di, NEW where, NEW c2, NEW st2,
           PodOK(lives, a, c, ca, st, di, where), Steady(c, st, c2, st2)
    PROVE  PodOK(lives, a, c2, ca, st2, di, where)
  BY DEF PodOK, FirstLife, Fits, Steady

(* It is built, or not, from a fresh object or the first one seen.         *)
BuiltAs(obj, c2, st2) ==
    /\ st2 # Absent /\ c2.pause /\ c2.ip \in Host /\ st2.ip = c2.ip
    /\ obj.status.ip # NoIp => c2.ip = obj.status.ip

Attempted(obj, c, st, c2, st2) ==
    \/ st2 = st /\ c2.ip = c.ip /\ c2.pause = c.pause
    \/ st2 = st /\ c2.ip = c.ip /\ ~c.pause
    \/ BuiltAs(obj, c2, st2) /\ ~c.pause

LEMMA AttemptedPod ==
    ASSUME NEW lives, NEW a, NEW c, NEW ca, NEW st, NEW where, NEW c2, NEW st2, NEW obj,
           PodOK(lives, a, c, ca, st, Absent, where), Attempted(obj, c, st, c2, st2),
           lives # 0, obj # Absent,
           \/ ca = obj /\ where \in {"startup", "diff"}
           \/ ca = Absent /\ where = "idle"
    PROVE  PodOK(lives, a, c2, obj, st2, Absent, where)
<1>1. ~c2.pause => c2.ip = NoIp
  BY DEF PodOK, Attempted, BuiltAs
<1>2. ASSUME lives = 1, a # Absent PROVE FirstLife(a, c2, obj, st2, Absent, where)
  <2>1. FirstLife(a, c, ca, st, Absent, where)
    BY <1>2 DEF PodOK
  <2>2. CASE st2 = st /\ c2.ip = c.ip /\ c2.pause = c.pause
    BY <2>1, <2>2 DEF FirstLife, Fits
  <2>3. CASE st2 = st /\ c2.ip = c.ip /\ ~c.pause
    <3>1. c2.ip = NoIp
      BY <2>3 DEF PodOK
    <3> QED
      BY <2>1, <3>1 DEF FirstLife, Fits
  <2>4. CASE BuiltAs(obj, c2, st2) /\ ~c.pause
    BY <2>1, <2>4 DEF FirstLife, Fits, BuiltAs
  <2> QED
    BY <2>2, <2>3, <2>4 DEF Attempted
<1> QED
  BY <1>1, <1>2 DEF PodOK

LEMMA AttemptKeeps ==
    ASSUME NEW c, NEW st, NEW c2, NEW st2, NEW obj, Attempted(obj, c, st, c2, st2), c.pause
    PROVE  c2.pause /\ c2.ip = c.ip
  BY DEF Attempted

LEMMA CreatedPod ==
    ASSUME NEW w, NEW p \in Pod, NEW obj, NEW v, Created(w, p, obj, v)
    PROVE  Attempted(obj, w.c[p], w.k.store[p], v.c[p], v.k.store[p])
  BY DEF Created, Untouched, Built, Attempted, BuiltAs

(* The mishaps of a creation.                                              *)
LEMMA CreatingMishaps ==
    ASSUME Inv, NEW o, Creating(o)
    PROVE  mishaps' \in 0..MaxMishaps
  BY KubeletAssumption DEF Inv, Typed, Creating, Mishap

(* Nothing to push while the reconciler is at something else.              *)
LEMMA NothingDirty ==
    ASSUME Inv, pc \in {"down", "idle", "startup", "diff"}
    PROVE  dirty = Nowhere /\ \A p \in Pod : dirty[p] = Absent
<1>1. dirty = Nowhere
  BY DEF Inv, Typed, ControlOK
<1> QED
  BY <1>1 DEF Nowhere

-----------------------------------------------------------------------------
(* Startup *)

LEMMA StartInv ==
    ASSUME Inv, Start
    PROVE  Inv'
<1>1. /\ pc = "down" /\ kubelet' = [NewReconciler EXCEPT !.cache = api]
      /\ pc' = "startup" /\ todo' = Live
      /\ UNCHANGED <<api, history, stream, host, dirty, mishaps>>
  BY DEF Start, Goto, apiVars
<1>2. PICK v : v = [k |-> [NewReconciler EXCEPT !.cache = api], c |-> host]
  OBVIOUS
<1>3. host \in [Pod -> Containers] /\ api \in MapOf(Object)
  BY ThisWorld, WorldFields DEF Inv, Good, Typed
<1>4. Good(v) /\ v.k.cache = api /\ v.k.store = Nowhere /\ v.c = host
  BY <1>2, <1>3, NewReconcilerType
<1>5. kubelet' = v.k /\ host' = v.c
  BY <1>1, <1>2
<1>6. Good(World)'
  BY <1>4, <1>5, NextWorld
<1>7. kubelet'.cache = api /\ kubelet'.store = Nowhere
  BY <1>4, <1>5
<1>8. EventsOK'
  BY <1>1, NoWrite, SameEvents
<1>9. Typed'
  BY <1>1 DEF Inv, Typed, Live, Control
<1>10. ControlOK'
  BY <1>1, <1>7, NothingDirty DEF ControlOK, Cached, Live, Nowhere
<1>11. PodsOK'
  <2>1. ASSUME NEW q \in Pod
        PROVE  PodOK(history[q].lives, api[q], host[q], api[q], Absent, Absent, "startup")
    BY PodEntries DEF PodOK, FirstLife, Fits
  <2>2. ASSUME NEW q \in Pod PROVE kubelet'.store[q] = Absent /\ dirty[q] = Absent
    BY <1>1, <1>7, NothingDirty DEF Nowhere
  <2> QED
    BY <1>1, <1>7, <2>1, <2>2 DEF PodsOK
<1> QED
  BY <1>6, <1>8, <1>9, <1>10, <1>11 DEF Inv

(* A step that attempts to build p, during startup or a diff.              *)
LEMMA AttemptInv ==
    ASSUME Inv, pc \in {"startup", "diff"}, NEW p \in todo, NEW v, Good(v),
           kubelet' = v.k, host' = v.c, v.k.cache = kubelet.cache,
           \A q \in Pod \ {p} : v.k.store[q] = kubelet.store[q] /\ v.c[q] = host[q],
           PodOK(history[p].lives, api[p], v.c[p], kubelet.cache[p], v.k.store[p], Absent, pc),
           host[p].pause => v.c[p].pause /\ v.c[p].ip = host[p].ip,
           mishaps' \in 0..MaxMishaps, pc' = pc, todo' = todo \ {p},
           UNCHANGED <<api, history, stream, dirty>>
    PROVE  Inv' /\ Keeps
<1>1. Good(World)'
  BY NextWorld
<1>2. EventsOK'
  BY NoWrite, SameEvents
<1>3. Typed'
  BY DEF Inv, Typed
<1>4. ControlOK'
  BY DEF Inv, ControlOK, Cached, Nowhere
<1>5. PodsOK'
  <2>1. ASSUME NEW q \in Pod
        PROVE  PodOK(history[q].lives, api[q], v.c[q], kubelet.cache[q], v.k.store[q], dirty[q], pc)
    <3>1. CASE q = p
      BY <3>1, NothingDirty
    <3>2. CASE q # p
      BY <3>2, PodEntries
    <3> QED
      BY <3>1, <3>2
  <2> QED
    BY <2>1 DEF PodsOK
<1>6. Keeps
  BY DEF Keeps
<1> QED
  BY <1>1, <1>2, <1>3, <1>4, <1>5, <1>6 DEF Inv

LEMMA TodoIsCached ==
    ASSUME Inv, pc \in {"startup", "diff"}, NEW p \in todo
    PROVE  p \in Pod /\ kubelet.cache[p] \in Object /\ kubelet.cache[p] # Absent
           /\ history[p].lives # 0
           /\ PodOK(history[p].lives, api[p], host[p], kubelet.cache[p], kubelet.store[p], Absent, pc)
<1>1. p \in Pod /\ kubelet.cache[p] # Absent
  BY DEF Inv, Typed, ControlOK, Cached
<1>2. /\ kubelet.cache[p] \in Object
      /\ PodOK(history[p].lives, api[p], host[p], kubelet.cache[p], kubelet.store[p], Absent, pc)
  BY <1>1, PodEntries, NothingDirty
<1> QED
  BY <1>1, <1>2 DEF PodOK

LEMMA StartupInv ==
    ASSUME Inv, Startup
    PROVE  Inv' /\ Keeps
<1> DEFINE p == Smallest(todo)
           obj == kubelet.cache[p]
           w == IF obj.status.ip = NoIp THEN World
                ELSE [World EXCEPT !.k.ipam = Reserve(@, obj.status.ip)]
<1>1. /\ pc = "startup" /\ todo # {} /\ pc' = pc /\ todo' = todo \ {p}
      /\ UNCHANGED <<api, history, stream, dirty>>
  BY DEF Startup, Goto, apiVars
<1>2. PICK o \in CreateOutcomes : Creating(o) /\ Become(StartupPod(w, p, obj, o))
  BY DEF Startup
<1>3. PICK v : v = StartupPod(w, p, obj, o) /\ kubelet' = v.k /\ host' = v.c
  BY <1>2 DEF Become
<1>4. p \in todo
  <2>1. todo \in SUBSET Nat
    BY DEF Inv, Typed, Pod
  <2> QED
    BY <1>1, <2>1, SmallestIsLeast
<1> HIDE DEF p
<1>5. /\ p \in Pod /\ obj \in Object /\ obj # Absent /\ history[p].lives # 0
      /\ PodOK(history[p].lives, api[p], host[p], obj, kubelet.store[p], Absent, pc)
  BY <1>1, <1>4, TodoIsCached
<1>6. Good(w) /\ w.c = host /\ w.k.cache = kubelet.cache /\ w.k.store = kubelet.store
  <2>1. CASE obj.status.ip = NoIp
    BY <2>1, ThisWorld DEF Inv
  <2>2. CASE obj.status.ip # NoIp
    <3>1. obj.status.ip \in Host
      BY <1>5, <2>2 DEF Object, Status, Ip
    <3>2. World \in Worlds /\ World.k.ipam \in Pool /\ Sound(World.k.ipam)
      BY WorldFields DEF Inv, Good
    <3>3. PICK a : a = Reserve(World.k.ipam, obj.status.ip)
      OBVIOUS
    <3>4. a \in Pool /\ Sound(a)
      BY <3>1, <3>2, <3>3, ReserveKeepsSound
    <3>5. w = [World EXCEPT !.k.ipam = a]
      BY <2>2, <3>3
    <3>6. Pooled(World, a, w)
      BY <3>2, <3>5 DEF Pooled, Worlds, Maps
    <3>7. /\ Good(w) /\ w.c = World.c /\ w.k.cache = World.k.cache /\ w.k.store = World.k.store
      <4>1. Good(World)
        BY DEF Inv
      <4> HIDE DEF w
      <4>2. PICK x : x = w
        OBVIOUS
      <4>3. Pooled(World, a, x)
        BY <3>6, <4>2
      <4>4. /\ Good(x) /\ x.c = World.c /\ x.k = [World.k EXCEPT !.ipam = a]
            /\ x.k.cache = World.k.cache /\ x.k.store = World.k.store
        BY <3>4, <4>1, <4>3, PoolEffect
      <4> QED
        BY <4>2, <4>4
    <3> QED
      BY <3>7, ThisWorld
  <2> QED
    BY <2>1, <2>2
<1> HIDE DEF w, obj
<1>7. /\ Good(v) /\ v.k.cache = w.k.cache
      /\ \A q \in Pod \ {p} : v.k.store[q] = w.k.store[q] /\ v.c[q] = w.c[q]
      /\ PodOK(history[p].lives, api[p], v.c[p], obj, v.k.store[p], Absent, pc)
      /\ host[p].pause => v.c[p].pause /\ v.c[p].ip = host[p].ip
  <2>1. CASE w.c[p].pause
    <3>1. PICK s : s = [ip |-> obj.status.ip, tracked |-> w.c[p].app # "NotFound"]
      OBVIOUS
    <3>2. s \in Sandbox /\ s.ip = obj.status.ip
      BY <1>5, <3>1 DEF Sandbox, Object, Status
    <3>3. v = [w EXCEPT !.k.store[p] = s]
      BY <1>3, <2>1, <3>1 DEF StartupPod, Recovered, Reattach
    <3>4. StoreSet(w, p, s, v)
      BY <1>6, <3>3 DEF StoreSet, Good, Worlds, Maps
    <3>5. /\ Good(v) /\ v.c = w.c /\ v.k.cache = w.k.cache /\ v.k.store[p] = s
          /\ \A q \in Pod \ {p} : v.k.store[q] = w.k.store[q]
      BY <1>5, <1>6, <3>2, <3>4, StoreEffect
    <3>6. PodOK(history[p].lives, api[p], host[p], obj, s, Absent, pc)
      BY <1>1, <1>5, <3>2 DEF PodOK, FirstLife, Fits
    <3> QED
      BY <1>6, <3>5, <3>6
  <2>2. CASE ~w.c[p].pause
    <3>1. v = CreatePod(w, p, obj, o)
      BY <1>3, <2>2 DEF StartupPod, Recovered
    <3>2. Good(v) /\ Created(w, p, obj, v)
      BY <1>5, <1>6, <3>1, CreateEffect
    <3>3. Attempted(obj, host[p], kubelet.store[p], v.c[p], v.k.store[p])
      BY <1>5, <1>6, <3>2, CreatedPod
    <3>4. PodOK(history[p].lives, api[p], v.c[p], obj, v.k.store[p], Absent, pc)
      BY <1>1, <1>5, <3>3, AttemptedPod
    <3>5. host[p].pause => v.c[p].pause /\ v.c[p].ip = host[p].ip
      BY <3>3, AttemptKeeps
    <3> QED
      BY <3>2, <3>4, <3>5 DEF Created
  <2> QED
    BY <2>1, <2>2
<1>8. mishaps' \in 0..MaxMishaps
  BY <1>2, CreatingMishaps
<1>9. PodOK(history[p].lives, api[p], v.c[p], kubelet.cache[p], v.k.store[p], Absent, pc)
  BY <1>7 DEF obj
<1> QED
  BY <1>1, <1>3, <1>4, <1>6, <1>7, <1>8, <1>9, AttemptInv

LEMMA DiffCreateInv ==
    ASSUME Inv, NEW p \in Pod, DiffCreate(p)
    PROVE  Inv' /\ Keeps
<1>1. /\ pc = "diff" /\ p \in todo /\ pc' = pc /\ todo' = todo \ {p}
      /\ UNCHANGED <<api, history, stream, dirty>>
  BY DEF DiffCreate, Goto, apiVars
<1>2. PICK o \in CreateOutcomes : Creating(o) /\ Become(CreatePod(World, p, kubelet.cache[p], o))
  BY DEF DiffCreate
<1>3. PICK v : v = CreatePod(World, p, kubelet.cache[p], o) /\ kubelet' = v.k /\ host' = v.c
  BY <1>2 DEF Become
<1>4. /\ kubelet.cache[p] \in Object /\ kubelet.cache[p] # Absent /\ history[p].lives # 0
      /\ PodOK(history[p].lives, api[p], host[p], kubelet.cache[p], kubelet.store[p], Absent, pc)
  BY <1>1, TodoIsCached
<1>5. Good(v) /\ Created(World, p, kubelet.cache[p], v)
  BY <1>3, <1>4, CreateEffect DEF Inv
<1>6. Attempted(kubelet.cache[p], host[p], kubelet.store[p], v.c[p], v.k.store[p])
  BY <1>5, CreatedPod, ThisWorld
<1>7. PodOK(history[p].lives, api[p], v.c[p], kubelet.cache[p], v.k.store[p], Absent, pc)
  BY <1>1, <1>4, <1>6, AttemptedPod
<1>8. /\ v.k.cache = kubelet.cache
      /\ \A q \in Pod \ {p} : v.k.store[q] = kubelet.store[q] /\ v.c[q] = host[q]
  BY <1>5, ThisWorld DEF Created
<1>9. mishaps' \in 0..MaxMishaps
  BY <1>2, CreatingMishaps
<1>10. host[p].pause => v.c[p].pause /\ v.c[p].ip = host[p].ip
  BY <1>6, AttemptKeeps
<1> QED
  BY <1>1, <1>3, <1>5, <1>7, <1>8, <1>9, <1>10, AttemptInv

LEMMA EndStartupInv ==
    ASSUME Inv, EndStartup
    PROVE  Inv' /\ Keeps
<1>1. /\ pc = "startup" /\ todo = {} /\ pc' = "idle" /\ todo' = {}
      /\ host' = [p \in Pod |-> IF Orphan(p) THEN Nothing ELSE host[p]]
      /\ UNCHANGED <<api, history, kubelet, dirty, mishaps>>
  BY DEF EndStartup, Goto
<1>2. PICK names \in [1..Cardinality(Live) -> Live] :
          stream' = [open |-> TRUE, events |-> CatchUp(names)]
  BY DEF EndStartup
<1>3. PICK n \in Nat : n = Cardinality(Live)
  <2>1. IsFiniteSet(1..NumPods)
    BY KubeletAssumption, FS_Interval
  <2>2. IsFiniteSet(Live)
    BY <2>1, FS_Subset DEF Live, Pod
  <2> QED
    BY <2>2, FS_CardinalityType
<1>4. PICK ev : ev = CatchUp(names)
  OBVIOUS
<1>5. ASSUME NEW i \in 1..n
      PROVE  /\ names[i] \in Pod /\ api[names[i]] \in Object /\ history[names[i]].lives > 0
             /\ ev[i] = [type |-> "Set", pod |-> names[i], object |-> api[names[i]]]
  <2>1. names[i] \in Pod /\ api[names[i]] # Absent
    BY <1>2, <1>3 DEF Live
  <2>2. api[names[i]] \in Object /\ history[names[i]].lives > 0
    <3>1. PICK q \in Pod : q = names[i]
      BY <2>1
    <3>2. history[q].lives \in Nat
      BY PodEntries DEF Lives
    <3> QED
      BY <2>1, <3>1, <3>2, PodEntries DEF PodOK
  <2>3. DOMAIN names = 1..n
    BY <1>2, <1>3
  <2> QED
    BY <1>4, <2>1, <2>2, <2>3 DEF CatchUp
<1>6. ev \in Seq(Event) /\ Len(ev) = n /\ \A i \in 1..n : EventOK(ev[i], history, api)
  <2>1. DOMAIN names = 1..n
    BY <1>2, <1>3
  <2>2. ev = [i \in 1..n |-> [type |-> "Set", pod |-> names[i], object |-> api[names[i]]]]
    BY <1>4, <2>1 DEF CatchUp
  <2>3. ASSUME NEW i \in 1..n
        PROVE  ev[i] \in Event /\ EventOK(ev[i], history, api)
    <3>1. PICK e : e = [type |-> "Set", pod |-> names[i], object |-> api[names[i]]]
      OBVIOUS
    <3>2. e \in Event /\ e.type = "Set" /\ e.pod = names[i]
      BY <1>5, <3>1 DEF Event
    <3> QED
      BY <1>5, <3>1, <3>2 DEF EventOK
  <2>4. ev \in [1..n -> Event]
    BY <2>2, <2>3
  <2>5. ev \in Seq(Event)
    BY <2>4
  <2>6. Len(ev) = n
    BY <2>4, <2>5
  <2> QED
    BY <2>3, <2>5, <2>6
<1>7. stream' \in [open : BOOLEAN, events : Seq(Event)] /\ stream'.events = ev
  BY <1>2, <1>4, <1>6
<1>8. EventsOK'
  BY <1>1, <1>6, <1>7 DEF EventsOK
<1>9. ASSUME NEW q \in Pod
      PROVE  /\ q \notin Cached => host'[q] = Nothing
             /\ q \in Cached => host'[q] = host[q]
             /\ host'[q] \in Containers
  <2>1. Nothing \in Containers
    BY DEF Nothing, Containers, Ip
  <2> QED
    BY <1>1, <2>1, PodEntries DEF Orphan
<1>10. Good(World)'
  <2>1. host' \in [Pod -> Containers]
    BY <1>1, <1>9
  <2>2. World' = [World EXCEPT !.c = host']
    BY <1>1 DEF World
  <2>3. Good([World EXCEPT !.c = host'])
    BY <2>1 DEF Inv, Good, Worlds
  <2> QED
    BY <2>2, <2>3 DEF Good
<1>11. Typed'
  BY <1>1, <1>7, NothingDirty DEF Inv, Typed, Control, Nowhere
<1>12. ControlOK'
  BY <1>1 DEF ControlOK
<1>13. PodsOK'
  <2>1. ASSUME NEW q \in Pod
        PROVE  PodOK(history[q].lives, api[q], host'[q], kubelet.cache[q], kubelet.store[q],
                     dirty[q], "idle")
    <3>1. PodOK(history[q].lives, api[q], host[q], kubelet.cache[q], kubelet.store[q], dirty[q],
                "startup")
      BY <1>1, PodEntries
    <3>2. CASE q \in Cached
      BY <1>9, <3>1, <3>2 DEF PodOK, FirstLife
    <3>3. CASE q \notin Cached
      <4>1. kubelet.cache[q] = Absent
        BY <3>3 DEF Cached
      <4>2. ~host'[q].pause /\ host'[q].ip = NoIp
        BY <1>9, <3>3 DEF Nothing
      <4> QED
        BY <3>1, <4>1, <4>2 DEF PodOK, FirstLife, Fits
    <3> QED
      BY <3>2, <3>3
  <2> QED
    BY <1>1, <2>1 DEF PodsOK
<1>14. Keeps
  <2>1. ASSUME NEW q \in Pod, UsedOnce(q), host[q].pause, api[q] # Absent PROVE q \in Cached
    BY <1>1, <2>1, PodEntries DEF UsedOnce, PodOK, FirstLife, Cached
  <2> QED
    BY <1>9, <2>1 DEF Keeps
<1> QED
  BY <1>8, <1>10, <1>11, <1>12, <1>13, <1>14 DEF Inv

-----------------------------------------------------------------------------
(* The loop *)

(* Another cache.                                                          *)
CacheSet(w, ca, v) == v = [w EXCEPT !.k = [w.k EXCEPT !.cache = ca]]

LEMMA CacheEffect ==
    ASSUME NEW w, Good(w), NEW ca \in MapOf(Object), NEW v, CacheSet(w, ca, v)
    PROVE  Good(v) /\ v.c = w.c /\ v.k.cache = ca /\ v.k.store = w.k.store
           /\ v.k = [w.k EXCEPT !.cache = ca]
<1>1. w \in Worlds
  BY DEF Good
<1>2. /\ v \in Worlds /\ v.c = w.c /\ v.k.cache = ca /\ v.k.store = w.k.store
      /\ v.k.trackers = w.k.trackers /\ v.k.ipam = w.k.ipam
      /\ v.k = [w.k EXCEPT !.cache = ca]
  BY <1>1 DEF CacheSet, Worlds, Maps
<1> QED
  BY <1>2 DEF Good

CacheAt(w, p, x, v) == v = [w EXCEPT !.k.cache[p] = x]

LEMMA CacheOne ==
    ASSUME NEW w, Good(w), NEW p \in Pod, NEW x \in Object \cup {Absent}, NEW v, CacheAt(w, p, x, v)
    PROVE  /\ Good(v) /\ v.c = w.c /\ v.k.store = w.k.store
           /\ v.k.cache[p] = x /\ \A q \in Pod \ {p} : v.k.cache[q] = w.k.cache[q]
<1>1. w \in Worlds
  BY DEF Good
<1>2. PICK ca : ca = [w.k.cache EXCEPT ![p] = x]
  OBVIOUS
<1>3. ca \in MapOf(Object) /\ ca[p] = x /\ \A q \in Pod \ {p} : ca[q] = w.k.cache[q]
  BY <1>1, <1>2, WorldFields DEF MapOf
<1>4. CacheSet(w, ca, v)
  BY <1>1, <1>2 DEF CacheSet, CacheAt, Worlds, Maps
<1>5. Good(v) /\ v.c = w.c /\ v.k.cache = ca /\ v.k.store = w.k.store
  <2>1. ca \in MapOf(Object)
    BY <1>3
  <2>2. Good(v) /\ v.c = w.c /\ v.k.cache = ca /\ v.k.store = w.k.store
        /\ v.k = [w.k EXCEPT !.cache = ca]
    BY <1>4, <2>1, CacheEffect
  <2> QED
    BY <2>2
<1> QED
  BY <1>3, <1>5

LEMMA WatchEventInv ==
    ASSUME Inv, WatchEvent
    PROVE  Inv' /\ Keeps
<1> DEFINE e == Head(stream.events)
           p == e.pod
<1>1. /\ pc = "idle" /\ stream.events # << >>
      /\ stream' = [stream EXCEPT !.events = Tail(@)]
      /\ UNCHANGED <<api, history, pc, todo, dirty>>
  BY DEF WatchEvent
<1>2. PICK o \in CreateOutcomes : Creating(o) /\ Become(ApplyWatchEvent(e, o))
  BY DEF WatchEvent
<1>3. PICK v : v = ApplyWatchEvent(e, o) /\ kubelet' = v.k /\ host' = v.c
  BY <1>2 DEF Become
<1>4. stream.events \in Seq(Event) /\ Len(stream.events) \in Nat
  BY DEF Inv, Typed
<1>5. e \in Event /\ EventOK(e, history, api)
  <2>1. e = stream.events[1] /\ 1 \in 1..Len(stream.events)
    BY <1>1, <1>4
  <2> QED
    BY <1>4, <2>1 DEF Inv, EventsOK
<1>6. /\ stream' \in [open : BOOLEAN, events : Seq(Event)]
      /\ stream'.events = Tail(stream.events)
  <2>1. PICK t : t = Tail(stream.events)
    OBVIOUS
  <2>2. t \in Seq(Event)
    BY <1>1, <1>4, <2>1
  <2>3. stream' = [stream EXCEPT !.events = t]
    BY <1>1, <2>1
  <2> QED
    BY <2>1, <2>2, <2>3 DEF Inv, Typed
<1>7. EventsOK'
  BY <1>1, <1>6, NoWrite, SameEvents
<1> HIDE DEF e
<1>8. p \in Pod /\ e.object \in Object /\ e.object # Absent /\ e.type \in {"Set", "Deleted"}
  BY <1>5, AbsentAssumption DEF Event
<1>9. /\ history[p].lives # 0
      /\ e.type = "Deleted" /\ history[p].lives = 1 => api[p] = Absent
  <2>1. history[p].lives \in Nat
    BY <1>8, PodEntries DEF Lives
  <2> QED
    BY <1>5, <2>1 DEF EventOK
<1> HIDE DEF p
<1>10. /\ kubelet.cache[p] \in Object \cup {Absent}
       /\ PodOK(history[p].lives, api[p], host[p], kubelet.cache[p], kubelet.store[p], Absent, "idle")
  BY <1>1, <1>8, PodEntries, NothingDirty
<1>11. Good(World)
  BY DEF Inv
<1>12. /\ Good(v)
       /\ \A q \in Pod \ {p} : v.k.cache[q] = kubelet.cache[q]
                               /\ v.k.store[q] = kubelet.store[q] /\ v.c[q] = host[q]
       /\ PodOK(history[p].lives, api[p], v.c[p], v.k.cache[p], v.k.store[p], Absent, "idle")
       /\ host[p].pause /\ history[p].lives = 1 /\ api[p] # Absent
             => v.c[p].pause /\ v.c[p].ip = host[p].ip
  <2>1. CASE e.type = "Deleted"
    <3>1. PICK u : CacheAt(World, p, Absent, u)
      BY DEF CacheAt
    <3>2. /\ Good(u) /\ u.c = host /\ u.k.store = kubelet.store
          /\ u.k.cache[p] = Absent /\ \A q \in Pod \ {p} : u.k.cache[q] = kubelet.cache[q]
      <4>1. p \in Pod /\ Absent \in Object \cup {Absent}
        BY <1>8
      <4>2. /\ Good(u) /\ u.c = World.c /\ u.k.store = World.k.store
            /\ u.k.cache[p] = Absent /\ \A q \in Pod \ {p} : u.k.cache[q] = World.k.cache[q]
        BY <1>11, <3>1, <4>1, CacheOne
      <4> QED
        BY <4>2, ThisWorld
    <3>3. v = RemovePods(u, {p})
      BY <1>3, <2>1, <3>1 DEF ApplyWatchEvent, CacheAt, p
    <3>4. Good(v) /\ Removed(u, {p}, v)
      BY <3>2, <3>3, RemoveEffect
    <3>5. v.k.cache = u.k.cache
          /\ \A q \in Pod \ {p} : v.k.store[q] = u.k.store[q] /\ v.c[q] = u.c[q]
      BY <3>4 DEF Removed
    <3>6. \/ v.k.store[p] = Absent /\ ~v.c[p].pause /\ v.c[p].ip = NoIp
          \/ v.k.store[p] = kubelet.store[p] /\ v.c[p] = host[p]
      BY <1>8, <3>2, <3>4 DEF Removed
    <3>7. PodOK(history[p].lives, api[p], v.c[p], Absent, v.k.store[p], Absent, "idle")
      BY <1>9, <1>10, <2>1, <3>6 DEF PodOK
    <3> QED
      BY <1>9, <2>1, <3>2, <3>4, <3>5, <3>7
  <2>2. CASE e.type = "Set"
    <3>1. PICK u : CacheAt(World, p, e.object, u)
      BY DEF CacheAt
    <3>2. /\ Good(u) /\ u.c = host /\ u.k.store = kubelet.store
          /\ u.k.cache[p] = e.object /\ \A q \in Pod \ {p} : u.k.cache[q] = kubelet.cache[q]
      <4>1. p \in Pod /\ e.object \in Object \cup {Absent}
        BY <1>8
      <4>2. /\ Good(u) /\ u.c = World.c /\ u.k.store = World.k.store
            /\ u.k.cache[p] = e.object /\ \A q \in Pod \ {p} : u.k.cache[q] = World.k.cache[q]
        BY <1>11, <3>1, <4>1, CacheOne
      <4> QED
        BY <4>2, ThisWorld
    <3>3. CASE p \in Cached
      <4>1. v = u
        BY <1>3, <2>2, <3>1, <3>3 DEF ApplyWatchEvent, CacheAt, p
      <4>2. kubelet.cache[p] # Absent
        BY <3>3 DEF Cached
      <4>3. PodOK(history[p].lives, api[p], host[p], e.object, kubelet.store[p], Absent, "idle")
        BY <1>8, <1>9, <1>10, <4>2 DEF PodOK, FirstLife
      <4> QED
        BY <3>2, <4>1, <4>3
    <3>4. CASE p \notin Cached
      <4>1. v = CreatePod(u, p, e.object, o)
        BY <1>3, <2>2, <3>1, <3>4 DEF ApplyWatchEvent, CacheAt, p
      <4>2. kubelet.cache[p] = Absent
        BY <1>8, <3>4 DEF Cached
      <4>3. Good(v) /\ Created(u, p, e.object, v)
        BY <1>8, <3>2, <4>1, CreateEffect
      <4>4. Attempted(e.object, host[p], kubelet.store[p], v.c[p], v.k.store[p])
        BY <1>8, <3>2, <4>3, CreatedPod
      <4>5. PodOK(history[p].lives, api[p], v.c[p], e.object, v.k.store[p], Absent, "idle")
        BY <1>8, <1>9, <1>10, <4>2, <4>4, AttemptedPod
      <4>6. host[p].pause => v.c[p].pause /\ v.c[p].ip = host[p].ip
        BY <4>4, AttemptKeeps
      <4> QED
        BY <3>2, <4>3, <4>5, <4>6 DEF Created
    <3> QED
      BY <3>3, <3>4
  <2> QED
    BY <1>8, <2>1, <2>2
<1>13. Good(World)'
  BY <1>3, <1>12, NextWorld
<1>14. mishaps' \in 0..MaxMishaps
  BY <1>2, CreatingMishaps
<1>15. Typed'
  BY <1>1, <1>6, <1>14 DEF Inv, Typed, Nowhere
<1>16. ControlOK'
  BY <1>1 DEF ControlOK
<1>17. PodsOK'
  <2>1. ASSUME NEW q \in Pod
        PROVE  PodOK(history[q].lives, api[q], v.c[q], v.k.cache[q], v.k.store[q], dirty[q], "idle")
    <3>1. CASE q = p
      BY <1>1, <1>12, <3>1, NothingDirty
    <3>2. CASE q # p
      BY <1>1, <1>12, <3>2, PodEntries
    <3> QED
      BY <3>1, <3>2
  <2> QED
    BY <1>1, <1>3, <2>1 DEF PodsOK
<1>18. Keeps
  BY <1>3, <1>12 DEF Keeps, UsedOnce
<1> QED
  BY <1>7, <1>13, <1>15, <1>16, <1>17, <1>18 DEF Inv

LEMMA ResyncInv ==
    ASSUME Inv, Resync
    PROVE  Inv'
<1>1. /\ pc = "idle" /\ kubelet' = [kubelet EXCEPT !.cache = api]
      /\ pc' = "diff" /\ todo' = Live \ Stored
      /\ UNCHANGED <<api, history, stream, host, dirty, mishaps>>
  BY DEF Resync, Goto, apiVars
<1>2. PICK v : CacheSet(World, api, v)
  BY DEF CacheSet
<1>3. api \in MapOf(Object)
  BY DEF Inv, Typed
<1>4. Good(v) /\ v.c = World.c /\ v.k.cache = api /\ v.k.store = World.k.store
      /\ v.k = [World.k EXCEPT !.cache = api]
  BY <1>2, <1>3, CacheEffect DEF Inv
<1>5. kubelet' = v.k /\ host' = v.c
  BY <1>1, <1>4, ThisWorld
<1>6. Good(World)'
  BY <1>4, <1>5, NextWorld
<1>7. kubelet'.cache = api /\ kubelet'.store = kubelet.store
  BY <1>4, <1>5, ThisWorld
<1>8. EventsOK'
  BY <1>1, NoWrite, SameEvents
<1>9. Typed'
  BY <1>1 DEF Inv, Typed, Live, Control
<1>10. ControlOK'
  BY <1>1, <1>7, NothingDirty DEF ControlOK, Cached, Live, Nowhere
<1>11. PodsOK'
  <2>1. ASSUME NEW q \in Pod
        PROVE  PodOK(history[q].lives, api[q], host[q], api[q], kubelet.store[q], dirty[q], "diff")
    <3>1. dirty[q] = Absent
      BY <1>1, NothingDirty
    <3> QED
      BY <1>1, <3>1, PodEntries DEF PodOK, FirstLife, Fits
  <2> QED
    BY <1>1, <1>7, <2>1 DEF PodsOK
<1> QED
  BY <1>6, <1>8, <1>9, <1>10, <1>11 DEF Inv

LEMMA LookedPod ==
    ASSUME NEW w, NEW v, Looked(w, v), NEW q \in Pod
    PROVE  Steady(w.c[q], w.k.store[q], v.c[q], v.k.store[q])
  BY DEF Looked, Steady

LEMMA EndDiffInv ==
    ASSUME Inv, EndDiff
    PROVE  Inv' /\ Keeps
<1>1. /\ pc = "diff" /\ todo = {} /\ pc' = "idle" /\ todo' = {}
      /\ UNCHANGED <<api, history, stream, dirty>>
  BY DEF EndDiff, Goto, apiVars
<1>2. PICK w : w = RemovePods(World, Stored \ Cached)
  OBVIOUS
<1>3. PICK outcome \in RestartOutcomes :
          Restarting(w, outcome) /\ Become(LivenessPass(w, outcome))
  BY <1>2 DEF EndDiff
<1>4. PICK v : v = LivenessPass(w, outcome) /\ kubelet' = v.k /\ host' = v.c
  BY <1>3 DEF Become
<1>5. Good(w) /\ Removed(World, Stored \ Cached, w)
  BY <1>2, RemoveEffect DEF Inv
<1>6. Good(v) /\ Looked(w, v)
  BY <1>4, <1>5, LivenessEffect
<1>7. Good(World)'
  BY <1>4, <1>6, NextWorld
<1>8. mishaps' = mishaps
  BY <1>3 DEF Restarting
<1>9. EventsOK'
  BY <1>1, NoWrite, SameEvents
<1>10. Typed' /\ ControlOK'
  BY <1>1, <1>8, NothingDirty DEF Inv, Typed, ControlOK, Control, Nowhere
<1>11. PodsOK'
  <2>1. v.k.cache = kubelet.cache
    BY <1>5, <1>6, ThisWorld DEF Removed, Looked
  <2>2. ASSUME NEW q \in Pod
        PROVE  PodOK(history[q].lives, api[q], v.c[q], kubelet.cache[q], v.k.store[q], dirty[q], "idle")
    <3>1. PodOK(history[q].lives, api[q], host[q], kubelet.cache[q], kubelet.store[q], dirty[q], "diff")
      BY <1>1, PodEntries
    <3>2. PodOK(history[q].lives, api[q], w.c[q], kubelet.cache[q], w.k.store[q], dirty[q], "idle")
      <4>1. CASE q \in Stored \ Cached
        <5>1. w.k.store[q] = Absent /\ ~w.c[q].pause /\ w.c[q].ip = NoIp
          BY <1>5, <4>1, ThisWorld DEF Removed, Stored
        <5> QED
          BY <3>1, <5>1 DEF PodOK, FirstLife, Fits
      <4>2. CASE q \notin Stored \ Cached
        <5>1. w.k.store[q] = kubelet.store[q] /\ w.c[q] = host[q]
          BY <1>5, <4>2, ThisWorld DEF Removed
        <5> QED
          BY <3>1, <5>1 DEF PodOK, FirstLife
      <4> QED
        BY <4>1, <4>2
    <3>3. Steady(w.c[q], w.k.store[q], v.c[q], v.k.store[q])
      BY <1>6, LookedPod
    <3> QED
      BY <3>2, <3>3, SteadyPod
  <2> QED
    BY <1>1, <1>4, <2>1, <2>2 DEF PodsOK
<1>12. Keeps
  <2>1. ASSUME NEW q \in Pod, UsedOnce(q), host[q].pause, api[q] # Absent
        PROVE  w.c[q] = host[q]
    <3>1. q \in Cached
      BY <1>1, <2>1, PodEntries DEF UsedOnce, PodOK, FirstLife, Cached
    <3> QED
      BY <1>5, <3>1, ThisWorld DEF Removed
  <2> QED
    BY <1>4, <1>6, <2>1 DEF Keeps, Looked
<1> QED
  BY <1>7, <1>9, <1>10, <1>11, <1>12 DEF Inv

-----------------------------------------------------------------------------
(* Liveness ticks and status *)

LEMMA StatusType ==
    ASSUME NEW w \in Worlds, NEW p \in Pod
    PROVE  /\ ComputePodStatus(w, p) \in Status
           /\ w.k.store[p] # Absent => ComputePodStatus(w, p).ip = w.k.store[p].ip
           /\ w.k.store[p] = Absent => ComputePodStatus(w, p).ip = NoIp
<1>1. PICK s : s = w.k.store[p]
  OBVIOUS
<1>2. s = Absent \/ s \in Sandbox
  BY <1>1, WorldEntries
<1>3. PICK ip : ip = IF s = Absent THEN NoIp ELSE s.ip
  OBVIOUS
<1>4. ip \in Ip
  BY <1>2, <1>3 DEF Sandbox, Ip
<1>5. w.k.trackers[p].count \in Nat
  BY WorldEntries DEF Tracker
<1>6. PICK phase : phase = Phase(w.c[p].app) /\ phase \in {"None", "Pending", "Running", "Failed"}
  BY DEF Phase
<1>7. ComputePodStatus(w, p) = [phase |-> phase, restarts |-> w.k.trackers[p].count, ip |-> ip]
  BY <1>1, <1>3, <1>6 DEF ComputePodStatus
<1>8. ComputePodStatus(w, p) \in Status /\ ComputePodStatus(w, p).ip = ip
  BY <1>4, <1>5, <1>6, <1>7 DEF Status
<1> QED
  BY <1>1, <1>3, <1>8

LEMMA TickInv ==
    ASSUME Inv, Tick
    PROVE  Inv' /\ Keeps
<1>1. pc = "idle" /\ Pushing /\ UNCHANGED <<api, history, stream>>
  BY DEF Tick, apiVars
<1>2. PICK outcome \in RestartOutcomes :
          /\ Restarting(World, outcome)
          /\ \E w \in {LivenessPass(World, outcome)} : Become(w) /\ dirty' = Dirty(w)
  BY DEF Tick
<1>3. PICK v : /\ v = LivenessPass(World, outcome) /\ kubelet' = v.k /\ host' = v.c
               /\ dirty' = Dirty(v)
  BY <1>2 DEF Become
<1>4. Good(v) /\ Looked(World, v)
  BY <1>3, LivenessEffect DEF Inv
<1>5. Good(World)'
  BY <1>3, <1>4, NextWorld
<1>6. mishaps' = mishaps
  BY <1>2 DEF Restarting
<1>7. ASSUME NEW q \in Pod
      PROVE  /\ dirty'[q] \in Status \cup {Absent}
             /\ dirty'[q] # Absent =>
                   /\ kubelet.cache[q] # Absent
                   /\ v.k.store[q] # Absent => dirty'[q].ip = v.k.store[q].ip
                   /\ v.k.store[q] = Absent => dirty'[q].ip = NoIp
  <2>1. dirty'[q] = Absent \/ (q \in Cached /\ dirty'[q] = ComputePodStatus(v, q))
    BY <1>3 DEF Dirty
  <2>2. v \in Worlds
    BY <1>4 DEF Good
  <2> QED
    BY <2>1, <2>2, StatusType DEF Cached
<1>8. dirty' \in MapOf(Status)
  <2>1. dirty' = [q \in Pod |-> dirty'[q]]
    BY <1>3 DEF Dirty
  <2> QED
    BY <1>7, <2>1 DEF MapOf
<1>9. pc' \in {"idle", "push"} /\ todo' = {} /\ (pc' = "idle" => dirty' = Nowhere)
  BY <1>1 DEF Pushing, Goto
<1>10. EventsOK'
  BY <1>1, NoWrite, SameEvents
<1>11. Typed'
  BY <1>1, <1>6, <1>8, <1>9 DEF Inv, Typed, Control, Nowhere
<1>12. ControlOK'
  BY <1>9 DEF ControlOK
<1>13. PodsOK'
  <2>1. v.k.cache = kubelet.cache
    BY <1>4, ThisWorld DEF Looked
  <2>2. ASSUME NEW q \in Pod
        PROVE  PodOK(history[q].lives, api[q], v.c[q], kubelet.cache[q], v.k.store[q], dirty'[q], pc')
    <3>1. PodOK(history[q].lives, api[q], host[q], kubelet.cache[q], kubelet.store[q], Absent, "idle")
      BY <1>1, PodEntries, NothingDirty
    <3>2. Steady(host[q], kubelet.store[q], v.c[q], v.k.store[q])
      BY <1>4, LookedPod, ThisWorld
    <3>3. PodOK(history[q].lives, api[q], v.c[q], kubelet.cache[q], v.k.store[q], Absent, "idle")
      BY <3>1, <3>2, SteadyPod
    <3> QED
      BY <1>7, <1>9, <3>3 DEF PodOK, FirstLife, Fits
  <2> QED
    BY <1>1, <1>3, <2>1, <2>2 DEF PodsOK
<1>14. Keeps
  BY <1>3, <1>4, ThisWorld DEF Keeps, Looked
<1> QED
  BY <1>5, <1>10, <1>11, <1>12, <1>13, <1>14 DEF Inv

LEMMA BackoffElapsesInv ==
    ASSUME Inv, NEW p \in Pod, BackoffElapses(p)
    PROVE  Inv'
<1>1. /\ ~kubelet.trackers[p].due
      /\ kubelet' = [kubelet EXCEPT !.trackers[p].due = TRUE]
      /\ UNCHANGED <<api, history, stream, host, pc, todo, dirty, mishaps>>
  BY DEF BackoffElapses, apiVars
<1>2. kubelet \in Maps /\ host \in [Pod -> Containers]
  BY ThisWorld, WorldFields DEF Inv, Good
<1>3. PICK t : t = [kubelet.trackers[p] EXCEPT !.due = TRUE]
  OBVIOUS
<1>4. t \in Tracker
  BY <1>3, PodEntries DEF Tracker
<1>5. PICK tr : tr = [kubelet.trackers EXCEPT ![p] = t]
  OBVIOUS
<1>6. tr \in [Pod -> Tracker] /\ \A q \in Pod \ {p} : tr[q] = kubelet.trackers[q]
  BY <1>2, <1>4, <1>5 DEF Maps
<1>7. kubelet' = [kubelet EXCEPT !.trackers = tr]
  BY <1>1, <1>2, <1>3, <1>5 DEF Maps
<1>8. /\ kubelet' \in Maps /\ kubelet'.trackers = tr /\ kubelet'.cache = kubelet.cache
      /\ kubelet'.store = kubelet.store /\ kubelet'.ipam = kubelet.ipam
  BY <1>2, <1>6, <1>7 DEF Maps
<1>9. ASSUME NEW q \in Pod, tr[q] # NoTracker PROVE kubelet.store[q] # Absent
  <2>1. CASE q = p
    <3>1. kubelet.trackers[p] # NoTracker
      BY <1>1 DEF NoTracker
    <3> QED
      BY <2>1, <3>1, ThisWorld DEF Inv, Good
  <2>2. CASE q # p
    BY <1>6, <1>9, <2>2, ThisWorld DEF Inv, Good
  <2> QED
    BY <2>1, <2>2
<1>10. Good(World)'
  <2>1. PICK v : v = [k |-> kubelet', c |-> host']
    OBVIOUS
  <2>2. v \in Worlds /\ v.k = kubelet' /\ v.c = host'
    BY <1>1, <1>2, <1>8, <2>1 DEF Worlds
  <2>3. Sound(kubelet.ipam)
    BY ThisWorld DEF Inv, Good
  <2>4. Good(v)
    BY <1>8, <1>9, <2>2, <2>3 DEF Good
  <2> QED
    BY <2>2, <2>4, NextWorld
<1>11. EventsOK'
  BY <1>1, NoWrite, SameEvents
<1>12. Typed' /\ ControlOK' /\ PodsOK'
  BY <1>1, <1>8 DEF Inv, Typed, ControlOK, PodsOK, Cached, Nowhere
<1> QED
  BY <1>10, <1>11, <1>12 DEF Inv

(* p is done with.                                                         *)
LEMMA NextPushEffect ==
    ASSUME Inv, NEW p \in Pod, NextPush(p)
    PROVE  /\ dirty' \in MapOf(Status) /\ dirty'[p] = Absent
           /\ \A q \in Pod \ {p} : dirty'[q] = dirty[q]
           /\ pc' \in {"idle", "push"} /\ todo' = {} /\ (pc' = "idle" => dirty' = Nowhere)
           /\ ControlOK'
<1>1. /\ dirty' = [dirty EXCEPT ![p] = Absent]
      /\ pc' \in {"idle", "push"} /\ todo' = {} /\ (pc' = "idle" => dirty' = Nowhere)
  BY DEF NextPush, Pushing, Goto
<1>2. /\ dirty' \in MapOf(Status) /\ dirty'[p] = Absent
      /\ \A q \in Pod \ {p} : dirty'[q] = dirty[q]
  BY <1>1 DEF Inv, Typed, MapOf
<1>3. ControlOK'
  BY <1>1 DEF ControlOK
<1> QED
  BY <1>1, <1>2, <1>3

(* A pod between two pushes, whether its own was made or not.              *)
LEMMA IdlePod ==
    ASSUME NEW lives, NEW a, NEW c, NEW ca, NEW st, NEW di, NEW where, NEW where2,
           PodOK(lives, a, c, ca, st, di, where), where \in {"push", "refetch", "retry"},
           where2 \in {"idle", "push", "refetch", "retry"}
    PROVE  PodOK(lives, a, c, ca, st, di, where2) /\ PodOK(lives, a, c, ca, st, Absent, where2)
  BY DEF PodOK, FirstLife

Written(di, a2, where2) == a2 # Absent /\ a2.status = di /\ where2 \in {"idle", "push"}

LEMMA WrittenPod ==
    ASSUME NEW lives, NEW a, NEW c, NEW ca, NEW st, NEW di, NEW where, NEW where2, NEW a2,
           PodOK(lives, a, c, ca, st, di, where), Written(di, a2, where2), a # Absent, di # Absent
    PROVE  /\ PodOK(lives, a2, c, ca, st, Absent, where2)
           /\ PodOK(lives, a2, c, a2, st, Absent, where2)
  BY DEF Written, PodOK, FirstLife, Fits

(* The server has the status.                                              *)
LEMMA WriteStatus ==
    ASSUME Inv, NEW p \in Pod, NEW lost \in BOOLEAN, api[p] # Absent, dirty[p] # Absent,
           Put(p, dirty[p], [history[p] EXCEPT !.lost = lost])
    PROVE  /\ api' \in MapOf(Object) /\ history' \in [Pod -> Lives]
           /\ stream' \in [open : BOOLEAN, events : Seq(Event)]
           /\ api'[p] \in Object /\ api'[p] # Absent /\ api'[p].status = dirty[p]
           /\ history'[p].lives = history[p].lives
           /\ \A q \in Pod \ {p} : api'[q] = api[q] /\ history'[q] = history[q]
           /\ EventsOK'
<1>1. PICK new : new = [history[p] EXCEPT !.lost = lost]
  OBVIOUS
<1>2. new \in Lives /\ new.lives = history[p].lives
  BY <1>1, PodEntries DEF Lives
<1>3. dirty[p] \in Status
  BY PodEntries
<1>4. new.lives >= history[p].lives /\ new.lives > 0
  <2>1. history[p].lives \in Nat /\ history[p].lives # 0
    BY PodEntries DEF PodOK, Lives
  <2> QED
    BY <1>2, <2>1
<1>5. Put(p, dirty[p], new)
  BY <1>1
<1> QED
  BY <1>2, <1>3, <1>4, <1>5, PutEffect

(* The world after the reconciler has noted an object and a status.        *)
LEMMA NotedWorld ==
    ASSUME Inv, NEW p \in Pod, NEW obj \in Object, NEW s \in Status,
           kubelet' = [kubelet EXCEPT !.cache[p] = obj, !.pushed[p] = s], host' = host
    PROVE  /\ Good(World)' /\ kubelet'.store = kubelet.store
           /\ kubelet'.cache[p] = obj /\ \A q \in Pod \ {p} : kubelet'.cache[q] = kubelet.cache[q]
<1>1. kubelet \in Maps /\ host \in [Pod -> Containers] /\ Sound(kubelet.ipam)
  BY ThisWorld, WorldFields DEF Inv, Good
<1>2. PICK ca : ca = [kubelet.cache EXCEPT ![p] = obj]
  OBVIOUS
<1>3. PICK pu : pu = [kubelet.pushed EXCEPT ![p] = s]
  OBVIOUS
<1>4. /\ ca \in MapOf(Object) /\ ca[p] = obj /\ \A q \in Pod \ {p} : ca[q] = kubelet.cache[q]
      /\ pu \in MapOf(Status)
  BY <1>1, <1>2, <1>3 DEF Maps, MapOf
<1>5. kubelet' = [kubelet EXCEPT !.cache = ca, !.pushed = pu]
  BY <1>1, <1>2, <1>3 DEF Maps
<1>6. /\ kubelet' \in Maps /\ kubelet'.cache = ca /\ kubelet'.store = kubelet.store
      /\ kubelet'.trackers = kubelet.trackers /\ kubelet'.ipam = kubelet.ipam
  BY <1>1, <1>4, <1>5 DEF Maps
<1>7. PICK v : v = [k |-> kubelet', c |-> host]
  OBVIOUS
<1>8. v \in Worlds /\ v.k = kubelet' /\ v.c = host
  BY <1>1, <1>6, <1>7 DEF Worlds
<1>9. Good(v)
  BY <1>1, <1>6, <1>8, ThisWorld DEF Inv, Good
<1>10. Good(World)'
  BY <1>8, <1>9, NextWorld
<1> QED
  BY <1>4, <1>6, <1>10

(* push_status succeeds, at the first attempt or the second.               *)
LEMMA AcceptedInv ==
    ASSUME Inv, NEW p \in Pod, pc \in {"push", "retry"}, dirty[p] # Absent,
           Current(p), Accepted(p), NextPush(p), UNCHANGED <<host, mishaps>>
    PROVE  Inv'
<1>1. api[p] # Absent
  BY DEF Current
<1>2. /\ Put(p, dirty[p], [history[p] EXCEPT !.lost = FALSE])
      /\ kubelet' = [kubelet EXCEPT !.cache[p] = api'[p], !.pushed[p] = dirty[p]]
  BY DEF Accepted
<1>3. /\ api' \in MapOf(Object) /\ history' \in [Pod -> Lives]
      /\ stream' \in [open : BOOLEAN, events : Seq(Event)]
      /\ api'[p] \in Object /\ api'[p] # Absent /\ api'[p].status = dirty[p]
      /\ history'[p].lives = history[p].lives
      /\ \A q \in Pod \ {p} : api'[q] = api[q] /\ history'[q] = history[q]
      /\ EventsOK'
  BY <1>1, <1>2, WriteStatus
<1>4. /\ dirty' \in MapOf(Status) /\ dirty'[p] = Absent
      /\ \A q \in Pod \ {p} : dirty'[q] = dirty[q]
      /\ pc' \in {"idle", "push"} /\ todo' = {} /\ (pc' = "idle" => dirty' = Nowhere)
      /\ ControlOK'
  BY NextPushEffect
<1>5. /\ Good(World)' /\ kubelet'.store = kubelet.store
      /\ kubelet'.cache[p] = api'[p] /\ \A q \in Pod \ {p} : kubelet'.cache[q] = kubelet.cache[q]
  <2>1. dirty[p] \in Status
    BY PodEntries
  <2> QED
    BY <1>2, <1>3, <2>1, NotedWorld
<1>6. Typed'
  BY <1>3, <1>4 DEF Inv, Typed, Control, Nowhere
<1>7. PodsOK'
  <2>1. ASSUME NEW q \in Pod
        PROVE  PodOK(history'[q].lives, api'[q], host[q], kubelet'.cache[q], kubelet.store[q],
                     dirty'[q], pc')
    <3>1. PodOK(history[q].lives, api[q], host[q], kubelet.cache[q], kubelet.store[q], dirty[q], pc)
      BY PodEntries
    <3>2. CASE q = p
      <4>1. PICK a : a = api'[p] /\ a # Absent /\ a.status = dirty[p]
        BY <1>3
      <4>2. PICK where : where = pc' /\ where \in {"idle", "push"}
        BY <1>4
      <4>3. PodOK(history[p].lives, api[p], host[p], kubelet.cache[p], kubelet.store[p], dirty[p], pc)
        BY <3>1, <3>2
      <4>4. /\ PodOK(history[p].lives, a, host[p], kubelet.cache[p], kubelet.store[p], Absent, where)
            /\ PodOK(history[p].lives, a, host[p], a, kubelet.store[p], Absent, where)
        <5>1. Written(dirty[p], a, where)
          BY <4>1, <4>2 DEF Written
        <5> QED
          BY <1>1, <4>3, <5>1, WrittenPod
      <4> QED
        BY <1>3, <1>4, <1>5, <3>2, <4>1, <4>2, <4>4
    <3>3. CASE q # p
      <4>1. PodOK(history[q].lives, api[q], host[q], kubelet.cache[q], kubelet.store[q], dirty[q], pc')
        BY <1>4, <3>1, IdlePod
      <4> QED
        BY <1>3, <1>4, <1>5, <3>3, <4>1
    <3> QED
      BY <3>2, <3>3
  <2> QED
    BY <1>5, <2>1 DEF PodsOK
<1> QED
  BY <1>3, <1>4, <1>5, <1>6, <1>7 DEF Inv

LEMMA PushInv ==
    ASSUME Inv, NEW p \in Pod, Push(p)
    PROVE  Inv'
  BY AcceptedInv DEF Push

(* p is done with, and nothing else has changed.                           *)
LEMMA DroppedInv ==
    ASSUME Inv, NEW p \in Pod, pc \in {"push", "refetch", "retry"}, NextPush(p),
           UNCHANGED <<api, history, stream, host, kubelet>>, mishaps' \in 0..MaxMishaps
    PROVE  Inv'
<1>1. /\ dirty' \in MapOf(Status) /\ dirty'[p] = Absent
      /\ \A q \in Pod \ {p} : dirty'[q] = dirty[q]
      /\ pc' \in {"idle", "push"} /\ todo' = {} /\ (pc' = "idle" => dirty' = Nowhere)
      /\ ControlOK'
  BY NextPushEffect
<1>2. EventsOK' /\ Good(World)'
  BY NoWrite, SameEvents, SameWorld
<1>3. Typed'
  BY <1>1 DEF Inv, Typed, Control, Nowhere
<1>4. PodsOK'
  <2>1. ASSUME NEW q \in Pod
        PROVE  PodOK(history[q].lives, api[q], host[q], kubelet.cache[q], kubelet.store[q], dirty'[q], pc')
    <3>1. PodOK(history[q].lives, api[q], host[q], kubelet.cache[q], kubelet.store[q], dirty[q], pc)
      BY PodEntries
    <3>2. /\ PodOK(history[q].lives, api[q], host[q], kubelet.cache[q], kubelet.store[q], dirty[q], pc')
          /\ PodOK(history[q].lives, api[q], host[q], kubelet.cache[q], kubelet.store[q], Absent, pc')
      BY <1>1, <3>1, IdlePod
    <3> QED
      BY <1>1, <3>2
  <2> QED
    BY <2>1 DEF PodsOK
<1> QED
  BY <1>1, <1>2, <1>3, <1>4 DEF Inv

LEMMA PushFailsInv ==
    ASSUME Inv, NEW p \in Pod, PushFails(p)
    PROVE  Inv'
<1>1. pc = "push" /\ dirty[p] # Absent /\ NextPush(p) /\ UNCHANGED <<host, kubelet>>
  BY DEF PushFails
<1>2. mishaps' \in 0..MaxMishaps
  BY KubeletAssumption DEF PushFails, Mishap, Inv, Typed
<1>3. CASE UNCHANGED <<api, history, stream>>
  BY <1>1, <1>2, <1>3, DroppedInv
<1>4. CASE Current(p) /\ Put(p, dirty[p], [history[p] EXCEPT !.lost = TRUE])
  <2>1. api[p] # Absent
    BY <1>4 DEF Current
  <2>2. /\ api' \in MapOf(Object) /\ history' \in [Pod -> Lives]
        /\ stream' \in [open : BOOLEAN, events : Seq(Event)]
        /\ api'[p] \in Object /\ api'[p] # Absent /\ api'[p].status = dirty[p]
        /\ history'[p].lives = history[p].lives
        /\ \A q \in Pod \ {p} : api'[q] = api[q] /\ history'[q] = history[q]
        /\ EventsOK'
    BY <1>1, <1>4, <2>1, WriteStatus
  <2>3. /\ dirty' \in MapOf(Status) /\ dirty'[p] = Absent
        /\ \A q \in Pod \ {p} : dirty'[q] = dirty[q]
        /\ pc' \in {"idle", "push"} /\ todo' = {} /\ (pc' = "idle" => dirty' = Nowhere)
        /\ ControlOK'
    BY <1>1, NextPushEffect
  <2>4. Good(World)'
    BY <1>1, SameWorld
  <2>5. Typed'
    BY <1>2, <2>2, <2>3 DEF Inv, Typed, Control, Nowhere
  <2>6. PodsOK'
    <3>1. ASSUME NEW q \in Pod
          PROVE  PodOK(history'[q].lives, api'[q], host[q], kubelet.cache[q], kubelet.store[q],
                       dirty'[q], pc')
      <4>1. PodOK(history[q].lives, api[q], host[q], kubelet.cache[q], kubelet.store[q], dirty[q], pc)
        BY PodEntries
      <4>2. CASE q = p
        <5>1. PICK a : a = api'[p] /\ a # Absent /\ a.status = dirty[p]
          BY <2>2
        <5>2. PICK where : where = pc' /\ where \in {"idle", "push"}
          BY <2>3
        <5>3. PodOK(history[p].lives, api[p], host[p], kubelet.cache[p], kubelet.store[p], dirty[p], pc)
          BY <4>1, <4>2
        <5>4. /\ PodOK(history[p].lives, a, host[p], kubelet.cache[p], kubelet.store[p], Absent, where)
              /\ PodOK(history[p].lives, a, host[p], a, kubelet.store[p], Absent, where)
          <6>1. Written(dirty[p], a, where)
            BY <5>1, <5>2 DEF Written
          <6> QED
            BY <1>1, <2>1, <5>3, <6>1, WrittenPod
        <5> QED
          BY <2>2, <2>3, <4>2, <5>1, <5>2, <5>4
      <4>3. CASE q # p
        <5>1. PodOK(history[q].lives, api[q], host[q], kubelet.cache[q], kubelet.store[q], dirty[q], pc')
          BY <1>1, <2>3, <4>1, IdlePod
        <5> QED
          BY <2>2, <2>3, <4>3, <5>1
      <4> QED
        BY <4>2, <4>3
    <3> QED
      BY <1>1, <3>1 DEF PodsOK
  <2> QED
    BY <2>2, <2>3, <2>4, <2>5, <2>6 DEF Inv
<1> QED
  BY <1>3, <1>4 DEF PushFails, apiVars

LEMMA ConflictInv ==
    ASSUME Inv, NEW p \in Pod, Conflict(p)
    PROVE  Inv'
<1>1. /\ pc = "push" /\ dirty[p] # Absent /\ pc' = "refetch" /\ todo' = {p}
      /\ UNCHANGED <<api, history, stream, host, kubelet, dirty, mishaps>>
  BY DEF Conflict, Goto, apiVars
<1>2. EventsOK' /\ Good(World)'
  BY <1>1, NoWrite, SameEvents, SameWorld
<1>3. Typed' /\ ControlOK'
  BY <1>1 DEF Inv, Typed, ControlOK, Control, Nowhere
<1>4. PodsOK'
  <2>1. ASSUME NEW q \in Pod
        PROVE  PodOK(history[q].lives, api[q], host[q], kubelet.cache[q], kubelet.store[q], dirty[q],
                     "refetch")
    BY <1>1, PodEntries, IdlePod
  <2> QED
    BY <1>1, <2>1 DEF PodsOK
<1> QED
  BY <1>2, <1>3, <1>4 DEF Inv

LEMMA RefetchInv ==
    ASSUME Inv, NEW p \in Pod, Refetch(p)
    PROVE  Inv'
<1>1. /\ pc = "refetch" /\ p \in todo
      /\ UNCHANGED <<api, history, stream, host, mishaps>>
  BY DEF Refetch, apiVars
<1>2. dirty[p] # Absent
  BY <1>1 DEF Inv, ControlOK
<1>3. CASE api[p] = Absent
  <2>1. NextPush(p) /\ UNCHANGED kubelet /\ mishaps' \in 0..MaxMishaps
    BY <1>1, <1>3 DEF Refetch, Inv, Typed
  <2> QED
    BY <1>1, <2>1, DroppedInv
<1>4. CASE api[p] # Absent
  <2>1. /\ kubelet' = [kubelet EXCEPT !.cache[p] = api[p]]
        /\ pc' = "retry" /\ todo' = {p} /\ dirty' = dirty
    BY <1>4 DEF Refetch, Goto
  <2>2. api[p] \in Object
    BY <1>4, PodEntries
  <2>3. PICK v : CacheAt(World, p, api[p], v)
    BY DEF CacheAt
  <2>4. /\ Good(v) /\ v.c = World.c /\ v.k.store = World.k.store
        /\ v.k.cache[p] = api[p] /\ \A q \in Pod \ {p} : v.k.cache[q] = World.k.cache[q]
    <3>1. Good(World)
      BY DEF Inv
    <3> QED
      BY <2>2, <2>3, <3>1, CacheOne
  <2>5. kubelet' = v.k /\ host' = v.c
    BY <1>1, <2>1, <2>3, <2>4, ThisWorld DEF CacheAt, World
  <2>6. Good(World)'
    BY <2>4, <2>5, NextWorld
  <2>7. EventsOK'
    BY <1>1, NoWrite, SameEvents
  <2>8. Typed' /\ ControlOK'
    BY <1>1, <1>2, <2>1 DEF Inv, Typed, ControlOK, Control, Nowhere
  <2>9. PodsOK'
    <3>1. ASSUME NEW q \in Pod
          PROVE  PodOK(history[q].lives, api[q], host[q], kubelet'.cache[q], kubelet'.store[q],
                       dirty[q], "retry")
      <4>1. /\ kubelet'.store[q] = kubelet.store[q]
            /\ q = p => kubelet'.cache[q] = api[p]
            /\ q # p => kubelet'.cache[q] = kubelet.cache[q]
        BY <2>4, <2>5, ThisWorld
      <4>2. PodOK(history[q].lives, api[q], host[q], kubelet.cache[q], kubelet.store[q], dirty[q], "retry")
        BY <1>1, PodEntries, IdlePod
      <4> QED
        BY <1>4, <4>1, <4>2 DEF PodOK, FirstLife
    <3> QED
      BY <1>1, <2>1, <3>1 DEF PodsOK
  <2> QED
    BY <2>6, <2>7, <2>8, <2>9 DEF Inv
<1> QED
  BY <1>3, <1>4

LEMMA RetryPushInv ==
    ASSUME Inv, NEW p \in Pod, RetryPush(p)
    PROVE  Inv'
<1>1. pc = "retry" /\ p \in todo /\ NextPush(p) /\ UNCHANGED <<host, mishaps>>
  BY DEF RetryPush
<1>2. dirty[p] # Absent
  BY <1>1 DEF Inv, ControlOK
<1>3. CASE Current(p)
  BY <1>1, <1>2, <1>3, AcceptedInv DEF RetryPush
<1>4. CASE ~Current(p)
  <2>1. UNCHANGED <<api, history, stream, kubelet>> /\ mishaps' \in 0..MaxMishaps
    BY <1>1, <1>4 DEF RetryPush, apiVars, Inv, Typed
  <2> QED
    BY <1>1, <2>1, DroppedInv
<1> QED
  BY <1>3, <1>4

-----------------------------------------------------------------------------
(* The end of the process *)

LEMMA StopInv ==
    ASSUME Inv, Stop, host' \in [Pod -> Containers],
           \A q \in Pod : host'[q] = host[q] \/ (~host'[q].pause /\ host'[q].ip = NoIp)
    PROVE  Inv'
<1>1. /\ pc' = "down" /\ todo' = {} /\ kubelet' = NewReconciler /\ dirty' = Nowhere
      /\ stream' = Closed /\ UNCHANGED <<api, history>>
      /\ mishaps < MaxMishaps /\ mishaps' = mishaps + 1
  BY DEF Stop, Goto, Mishap
<1>2. NewReconciler = [NewReconciler EXCEPT !.cache = Nowhere]
  BY DEF NewReconciler
<1>3. PICK v : v = [k |-> [NewReconciler EXCEPT !.cache = Nowhere], c |-> host']
  OBVIOUS
<1>4. Good(v) /\ v.k.cache = Nowhere /\ v.k.store = Nowhere /\ v.c = host'
  BY <1>3, NowhereType, NewReconcilerType
<1>5. kubelet' = v.k
  BY <1>1, <1>2, <1>3
<1>6. Good(World)'
  BY <1>4, <1>5, NextWorld
<1>7. stream' \in [open : BOOLEAN, events : Seq(Event)] /\ stream'.events = << >>
  BY <1>1 DEF Closed
<1>8. EventsOK'
  BY <1>1, <1>7, NoWrite, SameEvents
<1>9. Typed' /\ ControlOK'
  BY <1>1, <1>7, KubeletAssumption, NowhereType DEF Inv, Typed, ControlOK, Control, Nowhere
<1>10. PodsOK'
  <2>1. ASSUME NEW q \in Pod
        PROVE  PodOK(history[q].lives, api[q], host'[q], Absent, Absent, Absent, "down")
    <3>1. PodOK(history[q].lives, api[q], host[q], kubelet.cache[q], kubelet.store[q], dirty[q], pc)
      BY PodEntries
    <3>2. CASE host'[q] = host[q]
      BY <3>1, <3>2 DEF PodOK, FirstLife, Fits
    <3>3. CASE ~host'[q].pause /\ host'[q].ip = NoIp
      BY <3>1, <3>3 DEF PodOK, FirstLife, Fits
    <3> QED
      BY <3>2, <3>3
  <2>2. ASSUME NEW q \in Pod
        PROVE  kubelet'.cache[q] = Absent /\ kubelet'.store[q] = Absent /\ dirty'[q] = Absent
    BY <1>1, <1>4, <1>5 DEF Nowhere
  <2> QED
    BY <1>1, <2>1, <2>2 DEF PodsOK
<1> QED
  BY <1>6, <1>8, <1>9, <1>10 DEF Inv

LEMMA CrashInv ==
    ASSUME Inv, Crash
    PROVE  Inv'
<1>1. Stop /\ host' = host
  BY DEF Crash
<1>2. host' \in [Pod -> Containers]
  BY <1>1, ThisWorld, WorldFields DEF Inv, Good
<1> QED
  BY <1>1, <1>2, StopInv

LEMMA ShutdownInv ==
    ASSUME Inv, Shutdown
    PROVE  Inv'
<1>1. PICK v : v = RemovePods(World, Stored) /\ Stop /\ host' = v.c
  BY DEF Shutdown
<1>2. Good(v) /\ Removed(World, Stored, v)
  BY <1>1, RemoveEffect DEF Inv
<1>3. host' \in [Pod -> Containers]
  BY <1>1, <1>2, WorldFields DEF Good
<1>4. \A q \in Pod : host'[q] = host[q] \/ (~host'[q].pause /\ host'[q].ip = NoIp)
  BY <1>1, <1>2, ThisWorld DEF Removed
<1> QED
  BY <1>1, <1>3, <1>4, StopInv

-----------------------------------------------------------------------------
(* The theorems *)

(* The actions, one by one.                                                *)
LEMMA NextInv ==
    ASSUME Inv, Next
    PROVE  Inv'
<1>1. CASE Start \/ Startup \/ EndStartup
  BY <1>1, StartInv, StartupInv, EndStartupInv
<1>2. CASE WatchEvent \/ Resync \/ EndDiff \/ Tick
  BY <1>2, WatchEventInv, ResyncInv, EndDiffInv, TickInv
<1>3. ASSUME NEW p \in Pod, DiffCreate(p) \/ BackoffElapses(p)
      PROVE  Inv'
  BY <1>3, DiffCreateInv, BackoffElapsesInv
<1>4. ASSUME NEW p \in Pod, Push(p) \/ PushFails(p) \/ Conflict(p) \/ Refetch(p) \/ RetryPush(p)
      PROVE  Inv'
  BY <1>4, PushInv, PushFailsInv, ConflictInv, RefetchInv, RetryPushInv
<1>5. ASSUME NEW p \in Pod,
             ClientCreates(p) \/ ClientEdits(p) \/ ClientDeletes(p) \/ ContainerExits(p)
      PROVE  Inv'
  BY <1>5, ClientCreatesInv, ClientEditsInv, ClientDeletesInv, ContainerExitsInv
<1>6. CASE StreamCloses \/ Crash \/ Shutdown
  BY <1>6, StreamClosesInv, CrashInv, ShutdownInv
<1> QED
  BY <1>1, <1>2, <1>3, <1>4, <1>5, <1>6 DEF Next, Continue, Environment

LEMMA StutterInv ==
    ASSUME Inv, UNCHANGED vars
    PROVE  Inv'
<1>1. UNCHANGED <<api, history, stream, host, pc, todo, kubelet, dirty, mishaps>>
  BY DEF vars
<1>2. EventsOK' /\ Good(World)'
  BY <1>1, NoWrite, SameEvents, SameWorld
<1>3. Typed' /\ ControlOK' /\ PodsOK'
  BY <1>1 DEF Inv, Typed, ControlOK, PodsOK, Cached, Nowhere
<1> QED
  BY <1>2, <1>3 DEF Inv

(* The inductive invariant holds in every reachable state.                 *)
THEOREM KubeletInvariant == Spec => []Inv
<1>1. Inv /\ [Next]_vars => Inv'
  BY NextInv, StutterInv
<1> QED
  BY <1>1, InitInv, PTL DEF Spec

(* Every variable of the kubelet keeps its type; nothing is being done for *)
(* pods while the process is down or idle.                                 *)
THEOREM KubeletTypeCorrect == Spec => []TypeOK
  BY KubeletInvariant, InvSuffices, PTL

(* ipam.rs under the kubelet's use of it: over any sequence of pods built, *)
(* rolled back, reattached and removed, no address is free and in use, and *)
(* none is lost.                                                           *)
THEOREM PoolStaysSound == Spec => []AllocatorSound
  BY KubeletInvariant, InvSuffices, PTL

(* The address in a pod's status is the one its containers have, whatever  *)
(* crashes, lost replies and rebuilds there were (ensure_pod_ip,           *)
(* push_status, startup).                                                  *)
THEOREM AddressesAreReal == Spec => []ShownAddressIsReal
  BY KubeletInvariant, InvSuffices, PTL

(* remove_pod and reconcile_liveness: no tracker outlives its sandbox.     *)
THEOREM TrackersGoWithPods == Spec => []TrackersBelongToPods
  BY KubeletInvariant, InvSuffices, PTL

(* Only a shutdown takes the containers of a pod that exists for the first *)
(* time.                                                                   *)
LEMMA NextKeeps ==
    ASSUME Inv, Next, ~Shutdown
    PROVE  Keeps
<1>1. CASE Startup \/ EndStartup \/ WatchEvent \/ EndDiff \/ Tick
  BY <1>1, StartupInv, EndStartupInv, WatchEventInv, EndDiffInv, TickInv
<1>2. ASSUME NEW p \in Pod, DiffCreate(p) \/ ContainerExits(p)
      PROVE  Keeps
  BY <1>2, DiffCreateInv, ContainerExitsInv
<1>3. CASE host' = host
  BY <1>3 DEF Keeps
<1>4. CASE Start \/ Resync \/ StreamCloses \/ Crash
  BY <1>3, <1>4 DEF Start, Resync, StreamCloses, Crash
<1>5. ASSUME NEW p \in Pod, BackoffElapses(p)
             \/ Push(p) \/ PushFails(p) \/ Conflict(p) \/ Refetch(p) \/ RetryPush(p)
      PROVE  Keeps
  BY <1>3, <1>5 DEF BackoffElapses, Push, PushFails, Conflict, Refetch, RetryPush
<1>6. ASSUME NEW p \in Pod, ClientCreates(p) \/ ClientEdits(p) \/ ClientDeletes(p)
      PROVE  Keeps
  BY <1>3, <1>6 DEF ClientCreates, ClientEdits, ClientDeletes
<1> QED
  BY <1>1, <1>2, <1>4, <1>5, <1>6 DEF Next, Continue, Environment

(* No crash, restart, resync, old event or failure takes a live pod's      *)
(* sandbox or changes its address: EndStartup's orphans, apply_diff's      *)
(* removals and Deleted events never meet a pod that nobody has deleted.   *)
THEOREM PodsAreKept == Spec => LivePodsAreKept
<1> DEFINE A == ~Shutdown =>
                  \A p \in Pod :
                      UsedOnce(p) /\ HasAddress(p) /\ api[p] # Absent /\ api'[p] # Absent =>
                          host'[p].pause /\ host'[p].ip = host[p].ip
<1>1. ASSUME Inv, [Next]_vars PROVE [A]_<<host, api>>
  <2>1. CASE Next /\ ~Shutdown
    <3>1. Keeps
      BY <1>1, <2>1, NextKeeps
    <3>2. A
      BY <3>1 DEF Keeps, HasAddress
    <3> HIDE DEF A
    <3> QED
      BY <3>2
  <2>2. CASE UNCHANGED vars
    BY <2>2 DEF vars
  <2>3. CASE Shutdown
    BY <2>3
  <2> HIDE DEF A
  <2> QED
    BY <1>1, <2>1, <2>2, <2>3
<1> QED
  BY <1>1, KubeletInvariant, PTL DEF Spec, LivePodsAreKept
=============================================================================
