------------------------ MODULE EndpointsController ------------------------
(***************************************************************************)
(* The endpoints controller: reconcile of src/controller/endpoints.rs, and *)
(* resync_loop and worker_loop of src/controller/endpoints_manager.rs.     *)
(* Its informers are the events of ServiceApi.  The work queue appears as  *)
(* in Placement.tla.                                                       *)
(***************************************************************************)
EXTENDS ServiceApi

VARIABLES
    eps,       \* the worker and what reconcile has read
    epLate     \* writes given up that may still happen

epVars == <<eps, epLate>>

EpIdle == [pc |-> "idle", key |-> 0, selector |-> EmptySelector, addrs |-> {}, current |-> FALSE]

EpTypeOK ==
    /\ eps \in [pc : {"idle", "list", "write", "gone", "delete"}, key : Service \cup {0},
                selector : Label \cup {EmptySelector}, addrs : SUBSET Pod, current : BOOLEAN]
    /\ epLate \subseteq [svc : Service, addrs : (SUBSET Pod) \cup {Absent}]

EpInit == eps = EpIdle /\ epLate = {}

IsCurrent(s) == s \notin Shown.outdated

(* create_endpoints or replace_endpoints, or, with Absent,                 *)
(* delete_endpoints.  What has been read before is outdated, and writes    *)
(* with its version that are still under way lapse.                        *)
StoreEndpoints(s, addrs) ==
    /\ endpoints' = [endpoints EXCEPT ![s] = addrs]
    /\ local' = IF local = Absent THEN Absent ELSE [local EXCEPT !.outdated = @ \cup {s}]
    /\ epLate' = {w \in epLate : w.svc # s}

(* The controller gives up a write; it is lost, or happens later, unless   *)
(* the version is outdated.                                                *)
GiveUp(s, addrs, current) ==
    epLate' \in {epLate} \cup (IF current THEN {epLate \cup {[svc |-> s, addrs |-> addrs]}} ELSE {})

(* The key under work, if no resync is going to find it.                   *)
Unlisted == (IF eps.pc = "idle" THEN {} ELSE {eps.key}) \ ListedServices(Shown.services)

(* worker_loop takes a key, and reconcile begins with get_service.         *)
TakeKey(s) ==
    /\ eps.pc = "idle" /\ s \in ListedServices(Shown.services) \cup deleted
    /\ deleted' = deleted \ {s}
    /\ eps' = IF Shown.services[s] = Absent
              THEN [EpIdle EXCEPT !.pc = "gone", !.key = s]
              ELSE [EpIdle EXCEPT !.pc = "list", !.key = s,
                                  !.selector = Shown.services[s].selector]
    /\ UNCHANGED <<apiVars, epLate, missed, mishaps>>

(* The service is gone: its Endpoints are read ...                         *)
GetGone ==
    /\ eps.pc = "gone"
    /\ eps' = IF Shown.endpoints[eps.key] = Absent THEN EpIdle
              ELSE [eps EXCEPT !.pc = "delete", !.current = IsCurrent(eps.key)]
    /\ missed' = IF IsCurrent(eps.key) THEN missed ELSE missed \cup {eps.key}
    /\ UNCHANGED <<apiVars, epLate, deleted, mishaps>>

(* ... and deleted.  Whether that works is not looked at.                  *)
DeleteNothing == UNCHANGED <<endpoints, local, epLate, missed, mishaps>>
DeleteGone ==
    \/ /\ RvCheck(endpoints[eps.key], eps.current) = "Ok"
       /\ StoreEndpoints(eps.key, Absent)
       /\ UNCHANGED <<missed, mishaps>>
    \/ /\ RvCheck(endpoints[eps.key], eps.current) # "Ok"
       /\ UNCHANGED <<endpoints, local, epLate, missed, mishaps>>
    \/ /\ Mishap
       /\ GiveUp(eps.key, Absent, eps.current)
       /\ missed' = missed \cup {eps.key}
       /\ UNCHANGED <<endpoints, local>>
DeleteEndpoints ==
    /\ eps.pc = "delete"
    /\ eps' = EpIdle
    /\ DeleteGone
    /\ UNCHANGED <<services, pods, posts, edits, deleted>>

ListPods ==
    /\ eps.pc = "list"
    /\ eps' = [eps EXCEPT !.pc = "write", !.selector = EmptySelector,
                          !.addrs = Backends(Shown.pods, eps.selector)]
    /\ UNCHANGED <<apiVars, epLate, deleted, missed, mishaps>>

(* write_endpoints: get_endpoints, and a write if it has changed.  One     *)
(* step, since nobody else writes Endpoints: only a write that this worker *)
(* gave up could come in between, and come before or after as well.  With  *)
(* an outdated version it is refused, and the key comes back.              *)
AnyIsGood(existing, addrs) == existing # Absent
Unchanged(existing, addrs) == existing = addrs
WriteEndpoints ==
    /\ eps.pc = "write"
    /\ eps' = EpIdle
    /\ \/ /\ Unchanged(Shown.endpoints[eps.key], eps.addrs)
          /\ UNCHANGED <<endpoints, local, epLate, deleted>>
       \/ /\ ~ Unchanged(Shown.endpoints[eps.key], eps.addrs) /\ IsCurrent(eps.key)
          /\ StoreEndpoints(eps.key, eps.addrs)
          /\ UNCHANGED deleted
       \/ /\ ~ Unchanged(Shown.endpoints[eps.key], eps.addrs) /\ ~ IsCurrent(eps.key)
          /\ deleted' = deleted \cup Unlisted
          /\ UNCHANGED <<endpoints, local, epLate>>
    /\ UNCHANGED <<services, pods, posts, edits, missed, mishaps>>

(* A request of reconcile fails, and the key comes back after some time.   *)
EpRequestFails ==
    /\ eps.pc \in {"list", "write", "gone"} /\ Mishap
    /\ eps' = EpIdle
    /\ deleted' = deleted \cup Unlisted
    /\ GiveUp(eps.key, eps.addrs, /\ eps.pc = "write" /\ IsCurrent(eps.key)
                                  /\ ~ Unchanged(Shown.endpoints[eps.key], eps.addrs))
    /\ UNCHANGED <<apiVars, missed>>

LateWrite(w) ==
    /\ w \in epLate
    /\ StoreEndpoints(w.svc, w.addrs)
    /\ missed' = IF services[w.svc] = Absent /\ w.addrs # Absent THEN missed \cup {w.svc}
                 ELSE missed
    /\ eps' = IF w.svc = eps.key THEN [eps EXCEPT !.current = FALSE] ELSE eps
    /\ UNCHANGED <<services, pods, posts, edits, deleted, mishaps>>

(* The controller-manager is killed and started again: its informers list  *)
(* the services and pods that its store shows.                             *)
EpRestart ==
    /\ eps.pc # "idle" \/ deleted # {}
    /\ Mishap
    /\ eps' = EpIdle /\ deleted' = {}
    /\ missed' = missed \cup deleted \cup Unlisted
    /\ UNCHANGED <<apiVars, epLate>>

EpReconcile == GetGone \/ DeleteEndpoints \/ ListPods \/ WriteEndpoints
=============================================================================
