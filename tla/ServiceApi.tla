---------------------------- MODULE ServiceApi -----------------------------
(***************************************************************************)
(* The objects that services are made of, and those who write them: people *)
(* with mykubectl, kubelets, and the handler create_service, which chooses *)
(* the ClusterIP (src/apiserver/handlers.rs).  EndpointsController and     *)
(* KubeProxy act on these objects; ServiceRouting puts all together.       *)
(*                                                                         *)
(* Reads and watches are served by the store of the API server that one    *)
(* talks to, writes by the leader's.  In Raft mode the store that the two  *)
(* controllers talk to may lag: it then stands still until it has caught   *)
(* up with everything.  A new leader may lack the latest writes as well.   *)
(*                                                                         *)
(* Labels are numbers and a selector asks for one of them, or is empty.    *)
(* The address of a pod is the pod's number; ports are left out.           *)
(***************************************************************************)
EXTENDS Api, Integers, FiniteSets

CONSTANTS
    NumServices, NumPods,
    NoVip,         \* Option::None for cluster_ip
    MaxVip,        \* the last index of a ClusterIP, 255 in the code
    MaxEdits,      \* bound: writes by people and kubelets
    MaxMishaps     \* bound: lost events, failing or late requests, failing
                   \* commands, restarts, times that a store falls behind

Service == 1..NumServices
Pod     == 1..NumPods
Vip     == 0..MaxVip
Label   == Service
EmptySelector == 0

VARIABLES
    services,    \* [Service -> its object or Absent]
    pods,        \* [Pod -> its object or Absent]
    endpoints,   \* [Service -> the addresses of its Endpoints or Absent]
    posts,       \* requests that are on the way to create_service or in it
    deleted,     \* the keys of deleted services in the work queue of the
                 \* endpoints controller
    local,       \* what the controllers' store shows while it lags, else Absent
    missed,      \* history: services whose Endpoints may have been left over
    edits, mishaps

apiVars == <<services, pods, endpoints, posts, local, edits>>

-----------------------------------------------------------------------------
(* Values *)

ServiceObject == [vip : Vip \cup {NoVip}, selector : Label \cup {EmptySelector}]
PodObject == [label : Label, phase : {"Pending", "Running"}, addressed : BOOLEAN]

Post == [svc : Service, selector : Label \cup {EmptySelector}, stage : {"sent", "create"},
         vip : Vip \cup {NoVip}]

(* What a store shows; the Endpoints that have been written since, so that *)
(* what it shows of them has an outdated version; and the keys of deleted  *)
(* services of which it has not sent the event.                            *)
Replica == [services : [Service -> ServiceObject \cup {Absent}],
            pods : [Pod -> PodObject \cup {Absent}],
            endpoints : [Service -> (SUBSET Pod) \cup {Absent}],
            outdated : SUBSET Service, events : SUBSET Service]

ASSUME ServiceAssumption ==
    /\ {NumServices, NumPods, MaxVip, MaxEdits, MaxMishaps} \subseteq Nat
    /\ NumServices # 0      \* there is a label
    /\ NoVip \notin Int /\ Absent \notin Int /\ Absent \notin Replica

(* What the controllers' store shows.                                      *)
Shown == IF local # Absent THEN local
         ELSE [services |-> services, pods |-> pods, endpoints |-> endpoints,
               outdated |-> {}, events |-> {}]

(* What list_or_watch_services and list_or_watch_pods list.                *)
ListedServices(obs) == {s \in Service : obs[s] # Absent}
ExistingServices == ListedServices(services)
ExistingPods == {p \in Pod : pods[p] # Absent}

(* pod_matches: an empty selector matches nothing.                         *)
PodMatches(pod, selector) == pod.label = selector

(* backend_ip *)
BackendIp(pod) == pod.phase = "Running" /\ pod.addressed

(* The addresses that reconcile collects for a selector.                   *)
Backends(obs, selector) ==
    {p \in Pod : obs[p] # Absent /\ PodMatches(obs[p], selector) /\ BackendIp(obs[p])}

Mishap == mishaps < MaxMishaps /\ mishaps' = mishaps + 1
Edit == edits < MaxEdits /\ edits' = edits + 1

-----------------------------------------------------------------------------
(* Events.  Both resync timers may fire at any moment, and all services    *)
(* that exist are keys to work on then, whether or not an event has said   *)
(* so before: a work queue that knows of the others is enough.  So only    *)
(* the events of deleted services show, which no resync makes up for.      *)

(* service_informer of the endpoints controller, when its store has come   *)
(* to the deletion.  The event may be lost, in the gap of Watch.tla or     *)
(* with a stream that ends.                                                *)
DeletedEvent(s) ==
    \/ /\ IF local = Absent
          THEN deleted' = deleted \cup {s} /\ UNCHANGED local
          ELSE local' = [local EXCEPT !.events = @ \cup {s}] /\ UNCHANGED deleted
       /\ UNCHANGED <<missed, mishaps>>
    \/ Mishap /\ missed' = missed \cup {s} /\ UNCHANGED <<deleted, local>>

(* The controllers' store does not get the leader's entries for a while.   *)
FallsBehind ==
    /\ local = Absent /\ Mishap
    /\ local' = Shown
    /\ UNCHANGED <<services, pods, endpoints, posts, edits, deleted, missed>>

CatchesUp ==
    /\ local # Absent
    /\ local' = Absent /\ deleted' = deleted \cup local.events
    /\ UNCHANGED <<services, pods, endpoints, posts, edits, missed, mishaps>>

-----------------------------------------------------------------------------
(* People and kubelets.  A command of mykubectl that reads a version and   *)
(* writes with it is one step: if somebody writes in between, it has no    *)
(* effect.                                                                 *)

(* apply: an existing service keeps its ClusterIP, which the file does not *)
(* name; otherwise a POST is sent.                                         *)
ReplaceServiceSpec(s, selector) == [services[s] EXCEPT !.selector = selector]
ApplyService(s, selector) ==
    /\ Edit
    /\ IF services[s] # Absent
       THEN /\ services' = [services EXCEPT ![s] = ReplaceServiceSpec(s, selector)]
            /\ UNCHANGED posts
       ELSE /\ posts' = posts \cup
                 {[svc |-> s, selector |-> selector, stage |-> "sent", vip |-> NoVip]}
            /\ UNCHANGED services
    /\ UNCHANGED <<pods, endpoints, local, deleted, missed, mishaps>>

DeleteService(s) ==
    /\ services[s] # Absent /\ Edit
    /\ services' = [services EXCEPT ![s] = Absent]
    /\ DeletedEvent(s)
    /\ UNCHANGED <<pods, endpoints, posts>>

ApplyPod(p, label) ==
    /\ Edit
    /\ pods' = [pods EXCEPT ![p] =
                  IF @ = Absent THEN [label |-> label, phase |-> "Pending", addressed |-> FALSE]
                  ELSE [@ EXCEPT !.label = label]]
    /\ UNCHANGED <<services, endpoints, posts, local, deleted, missed, mishaps>>

DeletePod(p) ==
    /\ pods[p] # Absent /\ Edit
    /\ pods' = [pods EXCEPT ![p] = Absent]
    /\ UNCHANGED <<services, endpoints, posts, local, deleted, missed, mishaps>>

ReplacePodStatus(p, phase, addressed) ==
    /\ pods[p] # Absent /\ Edit
    /\ pods' = [pods EXCEPT ![p].phase = phase, ![p].addressed = addressed]
    /\ pods' # pods
    /\ UNCHANGED <<services, endpoints, posts, local, deleted, missed, mishaps>>

-----------------------------------------------------------------------------
(* create_service *)

(* next_free_cluster_ip_index *)
UsedVips(obs) == {obs[s].vip : s \in ListedServices(obs)} \ {NoVip}
NextFreeClusterIpIndex(obs) ==
    IF UsedVips(obs) = {} THEN 0
    ELSE (CHOOSE m \in UsedVips(obs) : \A k \in UsedVips(obs) : k <= m) + 1

Exhausted(idx) == idx > MaxVip

(* The reads, by a leader that may be so new that its store lacks some     *)
(* services.  (It may also show some that are deleted, as if it had read   *)
(* earlier.)  A name that exists gets no ClusterIP: its create is going to *)
(* be refused, unless the service is deleted before.                       *)
Without(lacking) == [s \in Service |-> IF s \in lacking THEN Absent ELSE services[s]]
CheckService(r) ==
    /\ r \in posts /\ r.stage = "sent"
    /\ \E obs \in {Without(lacking) : lacking \in SUBSET ExistingServices} :
         posts' = (posts \ {r}) \cup
           (IF obs[r.svc] # Absent THEN {[r EXCEPT !.stage = "create"]}
            ELSE IF Exhausted(NextFreeClusterIpIndex(obs)) THEN {}
            ELSE {[r EXCEPT !.stage = "create", !.vip = NextFreeClusterIpIndex(obs)]})
    /\ UNCHANGED <<services, pods, endpoints, local, deleted, missed, edits, mishaps>>

(* The write.                                                              *)
CreateService(r) ==
    /\ r \in posts /\ r.stage = "create"
    /\ posts' = posts \ {r}
    /\ IF CreateCheck(services[r.svc]) = "Ok"
       THEN services' = [services EXCEPT ![r.svc] = [vip |-> r.vip, selector |-> r.selector]]
       ELSE UNCHANGED services
    /\ UNCHANGED <<pods, endpoints, local, deleted, missed, edits, mishaps>>

People ==
    \/ \E s \in Service : \/ DeleteService(s)
                          \/ \E l \in Label \cup {EmptySelector} : ApplyService(s, l)
    \/ \E p \in Pod : \/ DeletePod(p)
                      \/ \E l \in Label : ApplyPod(p, l)
                      \/ \E ph \in {"Pending", "Running"}, a \in BOOLEAN : ReplacePodStatus(p, ph, a)
    \/ \E r \in posts : CheckService(r) \/ CreateService(r)

(* Services and pods may be there before the controllers start.            *)
ApiInit ==
    /\ \E n \in {0} \cup {s \in Service : s - 1 \in Vip} :
         services = [s \in Service |-> IF s <= n THEN [vip |-> s - 1, selector |-> s] ELSE Absent]
    /\ \E n \in 0..NumPods :
         pods = [p \in Pod |-> IF p <= n THEN [label |-> 1, phase |-> "Running", addressed |-> TRUE]
                               ELSE Absent]
    /\ endpoints = [s \in Service |-> Absent] /\ posts = {}
    /\ local = Absent /\ deleted = {} /\ missed = {}
    /\ edits \in 0..MaxEdits /\ mishaps = 0      \* bounds: some edits are not to come

ApiTypeOK ==
    /\ services \in [Service -> ServiceObject \cup {Absent}]
    /\ pods \in [Pod -> PodObject \cup {Absent}]
    /\ endpoints \in [Service -> (SUBSET Pod) \cup {Absent}]
    /\ posts \subseteq Post /\ local \in Replica \cup {Absent}
    /\ deleted \subseteq Service /\ missed \subseteq Service
    /\ edits \in 0..MaxEdits /\ mishaps \in 0..MaxMishaps
=============================================================================
