--------------------------- MODULE ServiceRouting --------------------------
(***************************************************************************)
(* From pods to packets: the API objects (ServiceApi), the endpoints       *)
(* controller, which writes the addresses of a service's pods, and         *)
(* kube-proxy, which turns them into nat rules, at work together.          *)
(***************************************************************************)
EXTENDS EndpointsController, KubeProxy

vars == <<apiVars, deleted, missed, mishaps, epVars, proxyVars>>

Init == ApiInit /\ EpInit /\ ProxyInit

Next ==
    \/ /\ People \/ FallsBehind \/ CatchesUp
       /\ UNCHANGED <<epVars, proxyVars>>
    \/ /\ \/ EpReconcile \/ EpRequestFails \/ EpRestart
          \/ \E s \in Service : TakeKey(s)
          \/ \E w \in epLate : LateWrite(w)
       /\ UNCHANGED proxyVars
    \/ /\ ProxySync \/ SyncFails \/ ProxyRestart
       /\ UNCHANGED epVars

Spec == Init /\ [][Next]_vars

(* Both workers go on, both resync timers fire, and a store that lags      *)
(* catches up.  A key that is in the queue is taken at some time, as       *)
(* WorkQueue.tla shows.                                                    *)
Fairness ==
    /\ WF_vars(EpReconcile /\ UNCHANGED proxyVars)
    /\ \A s \in Service : SF_vars(TakeKey(s) /\ UNCHANGED proxyVars)
    /\ WF_vars(ProxySync /\ UNCHANGED epVars)
    /\ WF_vars(CatchesUp /\ UNCHANGED <<epVars, proxyVars>>)

FairSpec == Spec /\ Fairness

-----------------------------------------------------------------------------
(* Properties *)

TypeOK == ApiTypeOK /\ EpTypeOK /\ ProxyTypeOK

(* Whatever command fails and whenever kube-proxy is killed, a ClusterIP   *)
(* that the table knows leads to a complete service: a chain whose last    *)
(* jump is unconditional, to backends that all have their DNAT rule.       *)
RoutesAreWhole ==
    \A i \in DOMAIN nat.top :
        LET chain == nat.svc[nat.top[i].svc]
        IN  /\ chain # <<>> /\ chain[Len(chain)].by = "-A svc rest"
            /\ \A k \in DOMAIN chain : chain[k].ip \in nat.sep[nat.top[i].svc]

(* In the end a ClusterIP leads to the pods that the service selects and   *)
(* that run, and one that no service has leads nowhere, although events    *)
(* get lost, a relabelled pod wakes the wrong service, and the two lists   *)
(* of a sync may not fit together.  While a sync runs, and there is one    *)
(* every 30 seconds, the ClusterIP leads there or nowhere; and so it does  *)
(* for ever if ensure_base_chains failed when kube-proxy started.  Two     *)
(* services may have the same ClusterIP, if they were created at the same  *)
(* time or by a new leader that had not caught up; then nothing is         *)
(* promised.                                                               *)
Holders(v) == {s \in ExistingServices : services[s].vip = v}
Expected(v) == UNION {Backends(pods, services[s].selector) : s \in Holders(v)}
RoutesConverge ==
    <>[](\A v \in Vip : Cardinality(Holders(v)) <= 1 =>
            /\ Destinations(v) \subseteq Expected(v)
            /\ proxy.pc # "apply" /\ nat.base = "hooked" => Destinations(v) = Expected(v))

(* The Endpoints of a deleted service go, unless the controller did not    *)
(* see the deletion, its request failed, an earlier write came late, or    *)
(* its store had seen the deletion, but not the last write of the          *)
(* Endpoints: then it finds none, or deletes with an outdated version, and *)
(* does not look at what becomes of that.                                  *)
EndpointsGo ==
    <>[](\A s \in Service : services[s] = Absent => endpoints[s] = Absent \/ s \in missed)
=============================================================================
