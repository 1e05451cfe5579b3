----------------------------- MODULE KubeProxy -----------------------------
(***************************************************************************)
(* kube-proxy: src/kube_proxy.rs.  One sync lists services and Endpoints,  *)
(* plans the commands for the whole nat table and runs them one by one; a  *)
(* command that fails ends the sync, which is repeated, and the process    *)
(* may be killed between any two.  Its informers are in ServiceApi.        *)
(*                                                                         *)
(* Of the nat table: KUBE-SERVICES (`top`), one KUBE-SVC chain per service *)
(* and one KUBE-SEP chain per service and address, of which only matters   *)
(* whether the DNAT rule is in it.  Chain names are hashes of what they    *)
(* stand for; here they are just that.  `base` is how far the base chains  *)
(* have been made: not at all, without the jumps from PREROUTING and       *)
(* OUTPUT that lead packets to KUBE-SERVICES, or completely.               *)
(***************************************************************************)
EXTENDS ServiceApi, Sequences

VARIABLES
    proxy,     \* the worker: the ClusterIPs it has listed, the commands to run
    nat        \* the nat table

proxyVars == <<proxy, nat>>

ProxyIdle == [pc |-> "idle", listed |-> [s \in Service |-> NoVip], plan |-> {}]
ProxyStart == [ProxyIdle EXCEPT !.pc = "start"]
EmptyTable == [base |-> "none", top |-> <<>>, svc |-> [s \in Service |-> <<>>], sep |-> [s \in Service |-> {}]]

-----------------------------------------------------------------------------
(* plan_rules: a list of commands, here the set of them.  Their order is   *)
(* that of the services, in which 0 is before all, and of their positions  *)
(* among the commands for one service.                                     *)

Command(op, s, pos, arg) == [op |-> op, svc |-> s, pos |-> pos, arg |-> arg]

Before(c, d) == c.svc < d.svc \/ (c.svc = d.svc /\ c.pos < d.pos)

FlushServices == Command("-F top", 0, 0, 0)

(* -F and -A of one KUBE-SEP chain, and the jump to it: with a probability *)
(* but for the last, which catches the rest.                               *)
PlanBackend(s, ip, jump) ==
    {Command("-F sep", s, 3 * ip - 2, ip), Command("-A sep", s, 3 * ip - 1, ip),
     Command(jump, s, 3 * ip, ip)}

PlanBackends(s, ips) ==
    UNION {PlanBackend(s, ip, IF \A q \in ips : q <= ip THEN "-A svc rest" ELSE "-A svc random")
           : ip \in ips}

PlanJumpFirst(s, vip, ips) ==
    {Command("-A top", s, -1, vip), Command("-F svc", s, 0, 0)} \cup PlanBackends(s, ips)
PlanService(s, vip, ips) ==
    {Command("-F svc", s, 0, 0), Command("-A top", s, 3 * NumPods + 1, vip)} \cup PlanBackends(s, ips)

(* A service without ClusterIP or without addresses gets no rules.         *)
Planned(vips, addrs) == {s \in Service : vips[s] # NoVip /\ addrs[s] \notin {Absent, {}}}

PlanRules(vips, addrs) ==
    {FlushServices} \cup UNION {PlanService(s, vips[s], addrs[s]) : s \in Planned(vips, addrs)}

-----------------------------------------------------------------------------
(* apply_rules: what a command does.  -N of a chain that exists is         *)
(* tolerated, and needs no step.                                           *)
Execute(c) ==
    CASE c.op = "-F top" -> [nat EXCEPT !.top = <<>>]
      [] c.op = "-F svc" -> [nat EXCEPT !.svc[c.svc] = <<>>]
      [] c.op = "-F sep" -> [nat EXCEPT !.sep[c.svc] = @ \ {c.arg}]
      [] c.op = "-A sep" -> [nat EXCEPT !.sep[c.svc] = @ \cup {c.arg}]
      [] c.op \in {"-A svc random", "-A svc rest"} ->
            [nat EXCEPT !.svc[c.svc] = Append(@, [ip |-> c.arg, by |-> c.op])]
      [] c.op = "-A top" -> [nat EXCEPT !.top = Append(@, [vip |-> c.arg, svc |-> c.svc])]

-----------------------------------------------------------------------------
(* sync *)

(* run begins with ensure_base_chains.  If that fails, it is logged and    *)
(* never tried again by this process.                                      *)
EnsureBaseChains ==
    /\ proxy.pc = "start"
    /\ proxy' = ProxyIdle
    /\ \/ nat' = [nat EXCEPT !.base = "hooked"] /\ UNCHANGED mishaps
       \/ \E b \in {nat.base} \cup (IF nat.base = "none" THEN {"chains"} ELSE {}) :
             nat' = [nat EXCEPT !.base = b] /\ Mishap
    /\ UNCHANGED <<apiVars, deleted, missed>>

(* worker_loop takes the key, and sync begins with list_services.          *)
Vips(obs) == [s \in Service |-> IF obs[s] = Absent THEN NoVip ELSE obs[s].vip]
ListServices ==
    /\ proxy.pc = "idle"
    /\ proxy' = [ProxyIdle EXCEPT !.pc = "list", !.listed = Vips(Shown.services)]
    /\ UNCHANGED <<apiVars, nat, deleted, missed, mishaps>>

ListEndpoints ==
    /\ proxy.pc = "list"
    /\ proxy' = [ProxyIdle EXCEPT !.pc = "apply",
                                  !.plan = PlanRules(proxy.listed, Shown.endpoints)]
    /\ UNCHANGED <<apiVars, nat, deleted, missed, mishaps>>

(* The first command flushes KUBE-SERVICES, and fails if there is none.    *)
RunCommand ==
    /\ proxy.pc = "apply"
    /\ \E c \in proxy.plan :
         /\ \A d \in proxy.plan \ {c} : Before(c, d)
         /\ IF nat.base = "none" THEN proxy' = ProxyIdle /\ UNCHANGED nat
            ELSE /\ nat' = Execute(c)
                 /\ proxy' = IF proxy.plan = {c} THEN ProxyIdle ELSE [proxy EXCEPT !.plan = @ \ {c}]
    /\ UNCHANGED <<apiVars, deleted, missed, mishaps>>

(* A request or a command fails: all is done again after some time.        *)
SyncFails ==
    /\ proxy.pc \in {"list", "apply"} /\ Mishap
    /\ proxy' = ProxyIdle
    /\ UNCHANGED <<apiVars, nat, deleted, missed>>

(* kube-proxy is killed and started again, and the table stays.            *)
ProxyRestart ==
    /\ Mishap
    /\ proxy' = ProxyStart
    /\ UNCHANGED <<apiVars, nat, deleted, missed>>

ProxyInit == proxy = ProxyStart /\ nat = EmptyTable
ProxySync == EnsureBaseChains \/ ListServices \/ ListEndpoints \/ RunCommand

-----------------------------------------------------------------------------
(* Where the table sends a packet for a ClusterIP.                         *)
Entries(v) == {i \in DOMAIN nat.top : nat.top[i].vip = v}
Destinations(v) ==
    IF nat.base # "hooked" \/ Entries(v) = {} THEN {}
    ELSE LET s == nat.top[CHOOSE i \in Entries(v) : \A j \in Entries(v) : i <= j].svc
         IN  {nat.svc[s][i].ip : i \in DOMAIN nat.svc[s]} \cap nat.sep[s]

Route == [vip : Vip, svc : Service]
Jump == [ip : Pod, by : {"-A svc random", "-A svc rest"}]
Instruction == [op : {"-F top", "-F svc", "-F sep", "-A sep", "-A svc random",
                      "-A svc rest", "-A top"},
                svc : Service \cup {0}, pos : 0..(3 * NumPods + 1),
                arg : Pod \cup Vip \cup {0}]
ProxyTypeOK ==
    /\ proxy \in [pc : {"start", "idle", "list", "apply"},
                 listed : [Service -> Vip \cup {NoVip}], plan : SUBSET Instruction]
    /\ nat \in [base : {"none", "chains", "hooked"}, top : Seq(Route),
               svc : [Service -> Seq(Jump)], sep : [Service -> SUBSET Pod]]
=============================================================================
