------------------------- MODULE ServiceRoutingProofs ------------------------
(***************************************************************************)
(* Type correctness of ServiceRouting.tla, and that its nat table never    *)
(* sends packets into a service that is only half there, for any number of *)
(* services, pods and ClusterIPs and whatever fails or is killed.          *)
(*                                                                         *)
(* The second is about the order of kube-proxy's commands.  A sync may end *)
(* after each of them, so the invariant relates the commands that are left *)
(* of the plan to the table as it is: a service has been linked only after *)
(* its last command, and of one that is still to be linked, the plan and   *)
(* the table together have the whole chain.                                *)
(***************************************************************************)
EXTENDS ServiceRouting, WellFoundedInduction, TLAPS

Plan == proxy.plan

FlushSvc(s) == Command("-F svc", s, 0, 0)
FlushSep(s, ip) == Command("-F sep", s, 3 * ip - 2, ip)
AddSep(s, ip) == Command("-A sep", s, 3 * ip - 1, ip)
AddRandom(s, ip) == Command("-A svc random", s, 3 * ip, ip)
AddRest(s, ip) == Command("-A svc rest", s, 3 * ip, ip)
Link(s, vip) == Command("-A top", s, 3 * NumPods + 1, vip)

(* The commands that a plan may have.                                      *)
PlanTyped ==
    \A c \in Plan :
        \/ c = FlushServices
        \/ \E s \in Service : c = FlushSvc(s)
        \/ \E s \in Service, ip \in Pod : c = FlushSep(s, ip)
        \/ \E s \in Service, ip \in Pod : c = AddSep(s, ip)
        \/ \E s \in Service, ip \in Pod : c = AddRandom(s, ip)
        \/ \E s \in Service, ip \in Pod : c = AddRest(s, ip)
        \/ \E s \in Service, vip \in Vip : c = Link(s, vip)

Linked == {nat.top[i].svc : i \in DOMAIN nat.top}
ToLink == {s \in Service : \E vip \in Vip : Link(s, vip) \in Plan}

(* KUBE-SERVICES is emptied first, and a service linked after all its      *)
(* other commands.                                                         *)
LinkedIsDone ==
    FlushServices \in Plan \/ \A c \in Plan : c.svc \notin Linked

(* A DNAT rule is removed only to be added again, ...                      *)
SepComesBack ==
    \A s \in Service, ip \in Pod : FlushSep(s, ip) \in Plan => AddSep(s, ip) \in Plan

(* ... and only while no jump leads to it, or they all are going to go.    *)
SepIsUnused ==
    \A s \in Service, ip \in Pod :
        FlushSep(s, ip) \in Plan /\ FlushSvc(s) \notin Plan
          => \A k \in DOMAIN nat.svc[s] : nat.svc[s][k].ip # ip

(* Where a jump is going to lead, there is or will be a DNAT rule.         *)
JumpsLead ==
    \A s \in Service, ip \in Pod :
        AddRandom(s, ip) \in Plan \/ AddRest(s, ip) \in Plan => AddSep(s, ip) \in Plan \/ ip \in nat.sep[s]

(* The unconditional jump is the last one, ...                             *)
RestIsLast ==
    \A s \in Service, ip \in Pod, jp \in Pod :
        AddRest(s, ip) \in Plan /\ (AddRandom(s, jp) \in Plan \/ AddRest(s, jp) \in Plan) => jp <= ip

(* ... and is still to come, or ends the chain.                            *)
RestToCome(s) == \E ip \in Pod : AddRest(s, ip) \in Plan
EndsInRest(s) == nat.svc[s] # <<>> /\ nat.svc[s][Len(nat.svc[s])].by = "-A svc rest"
RestIsThere ==
    \A s \in ToLink :
        \/ RestToCome(s)
        \/ /\ FlushSvc(s) \notin Plan /\ EndsInRest(s)
           /\ \A ip \in Pod : AddRandom(s, ip) \notin Plan

(* The jumps that are in a chain already lead to DNAT rules.               *)
JumpsHit(s) == \A k \in DOMAIN nat.svc[s] : nat.svc[s][k].ip \in nat.sep[s]
ChainIsSound == \A s \in ToLink : FlushSvc(s) \notin Plan => JumpsHit(s)

Whole == \A s \in Linked : EndsInRest(s) /\ JumpsHit(s)

PlanInv ==
    /\ PlanTyped /\ LinkedIsDone /\ SepComesBack /\ SepIsUnused /\ JumpsLead
    /\ RestIsLast /\ RestIsThere /\ ChainIsSound /\ Whole

(* A controller that is busy has a key.                                    *)
EpHasKey == eps.pc # "idle" => eps.key \in Service

(* Only a sync that applies has a plan.                                    *)
PlanApplied == Plan # {} => proxy.pc = "apply"

Inv == TypeOK /\ EpHasKey /\ PlanApplied /\ PlanInv

-----------------------------------------------------------------------------
(* Numbers *)

LEMMA Bounds ==
    /\ NumServices \in Nat \ {0} /\ NumPods \in Nat /\ MaxVip \in Nat
    /\ MaxEdits \in Nat /\ MaxMishaps \in Nat
  BY ServiceAssumption

(* A bounded set of numbers has a largest one.                             *)
LEMMA LargestExists ==
    ASSUME NEW n \in Nat, NEW S \in SUBSET (0..n), S # {}
    PROVE  \E m \in S : \A k \in S : k <= m
<1> DEFINE T == {n - a : a \in S}
<1> DEFINE R == OpToRel(<, Nat)
<1>1. T \in SUBSET Nat /\ T # {}
  <2>1. PICK a \in S : TRUE
    OBVIOUS
  <2>2. n - a \in T
    BY <2>1
  <2>3. \A e \in S : n - e \in Nat
    OBVIOUS
  <2> QED
    BY <2>2, <2>3
<1>2. IsWellFoundedOn(R, Nat)
  BY NatLessThanWellFounded
<1>3. PICK b \in T : \A d \in T : <<d, b>> \notin R
  <2> HIDE DEF R, T
  <2> QED
    BY <1>1, <1>2, WFMin
<1>4. PICK m \in S : b = n - m
  BY <1>3
<1>5. ASSUME NEW k \in S PROVE k <= m
  <2>1. n - k \in T /\ n - k \in Nat /\ b \in Nat
    BY <1>4
  <2>2. ~(n - k < b)
    BY <1>3, <2>1 DEF OpToRel
  <2> QED
    BY <1>4, <2>2
<1> QED
  BY <1>5

LEMMA LargestPod ==
    ASSUME NEW S \in SUBSET Pod, S # {}
    PROVE  \E m \in S : \A k \in S : k <= m
<1>1. S \in SUBSET (0..NumPods)
  BY Bounds DEF Pod
<1> QED
  BY <1>1, Bounds, LargestExists

-----------------------------------------------------------------------------
(* Commands *)

LEMMA FlushServicesFields ==
    FlushServices.op = "-F top" /\ FlushServices.svc = 0 /\ FlushServices.pos = 0
  BY DEF FlushServices, Command

LEMMA FlushSvcFields ==
    ASSUME NEW s
    PROVE  FlushSvc(s).op = "-F svc" /\ FlushSvc(s).svc = s /\ FlushSvc(s).pos = 0
  BY DEF FlushSvc, Command

LEMMA FlushSepFields ==
    ASSUME NEW s, NEW ip
    PROVE  /\ FlushSep(s, ip).op = "-F sep" /\ FlushSep(s, ip).svc = s
           /\ FlushSep(s, ip).pos = 3 * ip - 2 /\ FlushSep(s, ip).arg = ip
  BY DEF FlushSep, Command

LEMMA AddSepFields ==
    ASSUME NEW s, NEW ip
    PROVE  /\ AddSep(s, ip).op = "-A sep" /\ AddSep(s, ip).svc = s
           /\ AddSep(s, ip).pos = 3 * ip - 1 /\ AddSep(s, ip).arg = ip
  BY DEF AddSep, Command

LEMMA AddRandomFields ==
    ASSUME NEW s, NEW ip
    PROVE  /\ AddRandom(s, ip).op = "-A svc random" /\ AddRandom(s, ip).svc = s
           /\ AddRandom(s, ip).pos = 3 * ip /\ AddRandom(s, ip).arg = ip
  BY DEF AddRandom, Command

LEMMA AddRestFields ==
    ASSUME NEW s, NEW ip
    PROVE  /\ AddRest(s, ip).op = "-A svc rest" /\ AddRest(s, ip).svc = s
           /\ AddRest(s, ip).pos = 3 * ip /\ AddRest(s, ip).arg = ip
  BY DEF AddRest, Command

LEMMA LinkFields ==
    ASSUME NEW s, NEW vip
    PROVE  /\ Link(s, vip).op = "-A top" /\ Link(s, vip).svc = s
           /\ Link(s, vip).pos = 3 * NumPods + 1 /\ Link(s, vip).arg = vip
  BY DEF Link, Command

(* All commands but the first belong to a service and stand between its    *)
(* first and its last one.                                                 *)
LEMMA CommandPlaces ==
    ASSUME PlanTyped, NEW c \in Plan
    PROVE  \/ c = FlushServices
           \/ c.svc \in Service /\ c.pos \in 0..(3 * NumPods + 1)
<1>1. ASSUME NEW s \in Service, c = FlushSvc(s)
      PROVE  c.svc \in Service /\ c.pos \in 0..(3 * NumPods + 1)
  <2>1. c.svc = s /\ c.pos = 0
    BY <1>1, FlushSvcFields
  <2>2. 0 \in 0..(3 * NumPods + 1)
    BY Bounds
  <2> QED
    BY <2>1, <2>2
<1>2. ASSUME NEW s \in Service, NEW ip \in Pod, c = FlushSep(s, ip)
      PROVE  c.svc \in Service /\ c.pos \in 0..(3 * NumPods + 1)
  <2>1. c.svc = s /\ c.pos = 3 * ip - 2
    BY <1>2, FlushSepFields
  <2>2. 3 * ip - 2 \in 0..(3 * NumPods + 1)
    BY Bounds DEF Pod
  <2> QED
    BY <2>1, <2>2
<1>3. ASSUME NEW s \in Service, NEW ip \in Pod, c = AddSep(s, ip)
      PROVE  c.svc \in Service /\ c.pos \in 0..(3 * NumPods + 1)
  <2>1. c.svc = s /\ c.pos = 3 * ip - 1
    BY <1>3, AddSepFields
  <2>2. 3 * ip - 1 \in 0..(3 * NumPods + 1)
    BY Bounds DEF Pod
  <2> QED
    BY <2>1, <2>2
<1>4. ASSUME NEW s \in Service, NEW ip \in Pod, c = AddRandom(s, ip)
      PROVE  c.svc \in Service /\ c.pos \in 0..(3 * NumPods + 1)
  <2>1. c.svc = s /\ c.pos = 3 * ip
    BY <1>4, AddRandomFields
  <2>2. 3 * ip \in 0..(3 * NumPods + 1)
    BY Bounds DEF Pod
  <2> QED
    BY <2>1, <2>2
<1>6. ASSUME NEW s \in Service, NEW ip \in Pod, c = AddRest(s, ip)
      PROVE  c.svc \in Service /\ c.pos \in 0..(3 * NumPods + 1)
  <2>1. c.svc = s /\ c.pos = 3 * ip
    BY <1>6, AddRestFields
  <2>2. 3 * ip \in 0..(3 * NumPods + 1)
    BY Bounds DEF Pod
  <2> QED
    BY <2>1, <2>2
<1>5. ASSUME NEW s \in Service, NEW vip \in Vip, c = Link(s, vip)
      PROVE  c.svc \in Service /\ c.pos \in 0..(3 * NumPods + 1)
  <2>1. c.svc = s /\ c.pos = 3 * NumPods + 1
    BY <1>5, LinkFields
  <2>2. 3 * NumPods + 1 \in 0..(3 * NumPods + 1)
    BY Bounds
  <2> QED
    BY <2>1, <2>2
<1> QED
  BY <1>1, <1>2, <1>3, <1>4, <1>5, <1>6 DEF PlanTyped

(* The command that is run is before all others.                           *)
First(c) == c \in Plan /\ \A d \in Plan \ {c} : Before(c, d)

LEMMA FlushServicesIsFirst ==
    ASSUME PlanInv, NEW c, First(c), c # FlushServices
    PROVE  FlushServices \notin Plan /\ c.svc \in Service /\ c.svc \notin Linked
<1>1. c.svc \in Service /\ c.pos \in 0..(3 * NumPods + 1)
  BY CommandPlaces DEF PlanInv, First
<1>2. FlushServices.svc = 0
  BY FlushServicesFields
<1>3. ~Before(c, FlushServices)
  BY <1>1, <1>2, Bounds DEF Before, Service
<1> QED
  BY <1>1, <1>3 DEF First, PlanInv, LinkedIsDone

(* No command that is to be run earlier for the same service is left.      *)
LEMMA EarlierIsDone ==
    ASSUME NEW c, First(c), NEW d, d.svc = c.svc, c.svc \in Int, d # c, ~(c.pos < d.pos)
    PROVE  d \notin Plan
  BY DEF First, Before

(* RunCommand: what it leaves of the plan, and what it does.               *)
LEMMA RunCommandRuns ==
    ASSUME ProxyTypeOK, RunCommand
    PROVE  \/ Plan' = {} /\ nat' = nat
           \/ \E c : First(c) /\ Plan' = Plan \ {c} /\ nat' = Execute(c)
<1>1. PICK c \in proxy.plan :
         /\ \A d \in proxy.plan \ {c} : Before(c, d)
         /\ IF nat.base = "none" THEN proxy' = ProxyIdle /\ UNCHANGED nat
            ELSE /\ nat' = Execute(c)
                 /\ proxy' = IF proxy.plan = {c} THEN ProxyIdle ELSE [proxy EXCEPT !.plan = @ \ {c}]
  BY DEF RunCommand
<1>2. First(c)
  BY <1>1 DEF First, Plan
<1>3. ProxyIdle.plan = {}
  BY DEF ProxyIdle
<1>4. CASE nat.base = "none"
  BY <1>1, <1>3, <1>4 DEF Plan
<1>5. CASE nat.base # "none"
  <2>1. nat' = Execute(c)
    BY <1>1, <1>5
  <2>2. proxy' = IF proxy.plan = {c} THEN ProxyIdle ELSE [proxy EXCEPT !.plan = @ \ {c}]
    BY <1>1, <1>5
  <2>3. proxy'.plan = proxy.plan \ {c}
    BY <1>3, <2>2 DEF ProxyTypeOK
  <2> QED
    BY <1>2, <2>1, <2>3 DEF Plan
<1> QED
  BY <1>4, <1>5

-----------------------------------------------------------------------------
(* Each command preserves the invariant *)

LEMMA ExecuteIs ==
    ASSUME ProxyTypeOK, NEW c, nat' = Execute(c)
    PROVE  /\ c.op = "-F top" => nat' = [nat EXCEPT !.top = <<>>]
           /\ c.op = "-F svc" => nat' = [nat EXCEPT !.svc[c.svc] = <<>>]
           /\ c.op = "-F sep" => nat' = [nat EXCEPT !.sep[c.svc] = @ \ {c.arg}]
           /\ c.op = "-A sep" => nat' = [nat EXCEPT !.sep[c.svc] = @ \cup {c.arg}]
           /\ c.op \in {"-A svc random", "-A svc rest"} =>
                nat' = [nat EXCEPT !.svc[c.svc] = Append(@, [ip |-> c.arg, by |-> c.op])]
           /\ c.op = "-A top" => nat' = [nat EXCEPT !.top = Append(@, [vip |-> c.arg, svc |-> c.svc])]
  BY DEF Execute

LEMMA NatFields ==
    ASSUME ProxyTypeOK
    PROVE  /\ nat.top \in Seq(Route) /\ nat.svc \in [Service -> Seq(Jump)]
           /\ nat.sep \in [Service -> SUBSET Pod]
  BY DEF ProxyTypeOK

(* The conjuncts that only speak of the plan survive every removal.        *)
LEMMA PlanShrinks ==
    ASSUME PlanInv, NEW c, Plan' = Plan \ {c}
    PROVE  PlanTyped' /\ RestIsLast' /\ ToLink' \subseteq ToLink
<1>1. PlanTyped'
  BY DEF PlanInv, PlanTyped, FlushServices, FlushSvc, FlushSep, AddSep, AddRandom, AddRest, Link
<1>2. RestIsLast'
  BY DEF PlanInv, RestIsLast, AddRandom, AddRest
<1>3. ToLink' \subseteq ToLink
  BY DEF ToLink, Link
<1> QED
  BY <1>1, <1>2, <1>3

(* A command that is run leaves the others in the plan.                    *)
LEMMA OthersStay ==
    ASSUME NEW c, Plan' = Plan \ {c}
    PROVE  /\ c.op # "-F top" => (FlushServices \in Plan' <=> FlushServices \in Plan)
           /\ \A s : c.op # "-F svc" \/ c.svc # s => (FlushSvc(s) \in Plan' <=> FlushSvc(s) \in Plan)
           /\ \A s, ip : c.op # "-F sep" \/ c.svc # s \/ c.arg # ip
                           => (FlushSep(s, ip) \in Plan' <=> FlushSep(s, ip) \in Plan)
           /\ \A s, ip : c.op # "-A sep" \/ c.svc # s \/ c.arg # ip
                           => (AddSep(s, ip) \in Plan' <=> AddSep(s, ip) \in Plan)
           /\ \A s, ip : c.op # "-A svc random" \/ c.svc # s \/ c.arg # ip
                           => (AddRandom(s, ip) \in Plan' <=> AddRandom(s, ip) \in Plan)
           /\ \A s, ip : c.op # "-A svc rest" \/ c.svc # s \/ c.arg # ip
                           => (AddRest(s, ip) \in Plan' <=> AddRest(s, ip) \in Plan)
           /\ \A s, vip : c.op # "-A top" \/ c.svc # s
                           => (Link(s, vip) \in Plan' <=> Link(s, vip) \in Plan)
<1>1. c.op # "-F top" => FlushServices # c
  BY FlushServicesFields
<1>2. ASSUME NEW s, c.op # "-F svc" \/ c.svc # s PROVE FlushSvc(s) # c
  BY <1>2, FlushSvcFields
<1>3. ASSUME NEW s, NEW ip, c.op # "-F sep" \/ c.svc # s \/ c.arg # ip PROVE FlushSep(s, ip) # c
  <2>1. FlushSep(s, ip).op = "-F sep" /\ FlushSep(s, ip).svc = s /\ FlushSep(s, ip).arg = ip
    BY DEF FlushSep, Command
  <2> QED
    BY <1>3, <2>1
<1>4. ASSUME NEW s, NEW ip, c.op # "-A sep" \/ c.svc # s \/ c.arg # ip PROVE AddSep(s, ip) # c
  <2>1. AddSep(s, ip).op = "-A sep" /\ AddSep(s, ip).svc = s /\ AddSep(s, ip).arg = ip
    BY DEF AddSep, Command
  <2> QED
    BY <1>4, <2>1
<1>5. ASSUME NEW s, NEW ip, c.op # "-A svc random" \/ c.svc # s \/ c.arg # ip PROVE AddRandom(s, ip) # c
  <2>1. AddRandom(s, ip).op = "-A svc random" /\ AddRandom(s, ip).svc = s /\ AddRandom(s, ip).arg = ip
    BY DEF AddRandom, Command
  <2> QED
    BY <1>5, <2>1
<1>6. ASSUME NEW s, NEW ip, c.op # "-A svc rest" \/ c.svc # s \/ c.arg # ip PROVE AddRest(s, ip) # c
  <2>1. AddRest(s, ip).op = "-A svc rest" /\ AddRest(s, ip).svc = s /\ AddRest(s, ip).arg = ip
    BY DEF AddRest, Command
  <2> QED
    BY <1>6, <2>1
<1>7. ASSUME NEW s, NEW vip, c.op # "-A top" \/ c.svc # s PROVE Link(s, vip) # c
  <2>1. Link(s, vip).op = "-A top" /\ Link(s, vip).svc = s /\ Link(s, vip).arg = vip
    BY DEF Link, Command
  <2> QED
    BY <1>7, <2>1
<1> QED
  BY <1>1, <1>2, <1>3, <1>4, <1>5, <1>6, <1>7

(* -F KUBE-SERVICES *)
LEMMA RunFlushServices ==
    ASSUME ProxyTypeOK, PlanInv, First(FlushServices), Plan' = Plan \ {FlushServices},
           nat' = Execute(FlushServices)
    PROVE  PlanInv'
<1>1. /\ nat'.top = <<>> /\ nat'.svc = nat.svc /\ nat'.sep = nat.sep
  <2>1. nat' = [nat EXCEPT !.top = <<>>]
    BY ExecuteIs, FlushServicesFields
  <2> QED
    BY <2>1 DEF ProxyTypeOK
<1>2. Linked' = {}
  BY <1>1 DEF Linked
<1>3. LinkedIsDone' /\ Whole'
  BY <1>2 DEF LinkedIsDone, Whole
<1>4. /\ \A s : FlushSvc(s) \in Plan' <=> FlushSvc(s) \in Plan
      /\ \A s, ip : FlushSep(s, ip) \in Plan' <=> FlushSep(s, ip) \in Plan
      /\ \A s, ip : AddSep(s, ip) \in Plan' <=> AddSep(s, ip) \in Plan
      /\ \A s, ip : AddRandom(s, ip) \in Plan' <=> AddRandom(s, ip) \in Plan
      /\ \A s, ip : AddRest(s, ip) \in Plan' <=> AddRest(s, ip) \in Plan
  BY OthersStay, FlushServicesFields
<1>5. SepComesBack'
  BY <1>4 DEF PlanInv, SepComesBack
<1>6. SepIsUnused'
  BY <1>1, <1>4 DEF PlanInv, SepIsUnused
<1>7. JumpsLead'
  BY <1>1, <1>4 DEF PlanInv, JumpsLead
<1>8. PlanTyped' /\ RestIsLast' /\ ToLink' \subseteq ToLink
  BY PlanShrinks
<1>9. RestIsThere'
  BY <1>1, <1>4, <1>8 DEF PlanInv, RestIsThere, RestToCome, EndsInRest
<1>10. ChainIsSound'
  BY <1>1, <1>4, <1>8 DEF PlanInv, ChainIsSound, JumpsHit
<1> QED
  BY <1>3, <1>5, <1>6, <1>7, <1>8, <1>9, <1>10 DEF PlanInv

(* What no command but the first and the last of a plan touches.           *)
LEMMA LinkedStays ==
    ASSUME PlanInv, NEW c, First(c), c # FlushServices, Plan' = Plan \ {c}, nat'.top = nat.top
    PROVE  Linked' = Linked /\ c.svc \in Service /\ c.svc \notin Linked /\ LinkedIsDone'
<1>1. c.svc \in Service /\ c.svc \notin Linked /\ FlushServices \notin Plan
  BY FlushServicesIsFirst
<1>2. Linked' = Linked
  BY DEF Linked
<1>3. LinkedIsDone'
  BY <1>1, <1>2 DEF PlanInv, LinkedIsDone
<1> QED
  BY <1>1, <1>2, <1>3

LEMMA WholeStays ==
    ASSUME PlanInv, NEW s, s \notin Linked, Linked' = Linked, Linked \subseteq Service,
           \A t \in Service \ {s} : nat'.svc[t] = nat.svc[t] /\ nat'.sep[t] = nat.sep[t]
    PROVE  Whole'
<1>1. ASSUME NEW t \in Linked PROVE EndsInRest(t)' /\ JumpsHit(t)'
  <2>1. nat'.svc[t] = nat.svc[t] /\ nat'.sep[t] = nat.sep[t]
    BY <1>1
  <2>2. EndsInRest(t) /\ JumpsHit(t)
    BY <1>1 DEF PlanInv, Whole
  <2> QED
    BY <2>1, <2>2 DEF EndsInRest, JumpsHit
<1> QED
  BY <1>1 DEF Whole

LEMMA LinkedAreServices == ProxyTypeOK => Linked \subseteq Service
<1> SUFFICES ASSUME ProxyTypeOK PROVE Linked \subseteq Service
  OBVIOUS
<1>1. nat.top \in Seq(Route)
  BY NatFields
<1>2. \A i \in DOMAIN nat.top : nat.top[i] \in Route
  BY <1>1
<1> QED
  BY <1>2 DEF Linked, Route

(* -F of a KUBE-SVC chain *)
LEMMA RunFlushSvc ==
    ASSUME ProxyTypeOK, PlanInv, NEW s \in Service, NEW c, c = FlushSvc(s), First(c),
           Plan' = Plan \ {c}, nat' = Execute(c)
    PROVE  PlanInv'
<1>0. c.op = "-F svc" /\ c.svc = s /\ c # FlushServices
  BY FlushSvcFields, FlushServicesFields
<1>1. /\ nat'.top = nat.top /\ nat'.sep = nat.sep
      /\ nat'.svc[s] = <<>> /\ \A t \in Service \ {s} : nat'.svc[t] = nat.svc[t]
  <2>1. nat' = [nat EXCEPT !.svc[s] = <<>>]
    BY <1>0, ExecuteIs
  <2> QED
    BY <2>1 DEF ProxyTypeOK
<1>2. Linked' = Linked /\ s \notin Linked /\ LinkedIsDone'
  BY <1>0, <1>1, LinkedStays
<1>3. Whole'
  BY <1>1, <1>2, WholeStays, LinkedAreServices
<1>4. /\ \A t \in Service \ {s} : FlushSvc(t) \in Plan' <=> FlushSvc(t) \in Plan
      /\ \A t, ip : FlushSep(t, ip) \in Plan' <=> FlushSep(t, ip) \in Plan
      /\ \A t, ip : AddSep(t, ip) \in Plan' <=> AddSep(t, ip) \in Plan
      /\ \A t, ip : AddRandom(t, ip) \in Plan' <=> AddRandom(t, ip) \in Plan
      /\ \A t, ip : AddRest(t, ip) \in Plan' <=> AddRest(t, ip) \in Plan
  BY <1>0, OthersStay
<1>5. SepComesBack'
  BY <1>4 DEF PlanInv, SepComesBack
<1>6. SepIsUnused'
  BY <1>1, <1>4 DEF PlanInv, SepIsUnused
<1>7. JumpsLead'
  BY <1>1, <1>4 DEF PlanInv, JumpsLead
<1>8. PlanTyped' /\ RestIsLast' /\ ToLink' \subseteq ToLink
  BY PlanShrinks
<1>9. RestIsThere'
  <2> SUFFICES ASSUME NEW t \in ToLink'
               PROVE  \/ RestToCome(t)'
                      \/ /\ FlushSvc(t) \notin Plan' /\ EndsInRest(t)'
                         /\ \A ip \in Pod : AddRandom(t, ip) \notin Plan'
    BY DEF RestIsThere
  <2>1. CASE t = s
    <3>1. RestToCome(s)
      BY <1>8, <2>1 DEF PlanInv, RestIsThere, First
    <3> QED
      BY <1>4, <2>1, <3>1 DEF RestToCome
  <2>2. CASE t # s
    <3>1. t \in Service /\ t \in ToLink
      BY <1>8 DEF ToLink
    <3>2. nat'.svc[t] = nat.svc[t]
      BY <1>1, <2>2, <3>1
    <3> QED
      BY <1>4, <2>2, <3>1, <3>2 DEF PlanInv, RestIsThere, RestToCome, EndsInRest
  <2> QED
    BY <2>1, <2>2
<1>10. ChainIsSound'
  <2> SUFFICES ASSUME NEW t \in ToLink', FlushSvc(t) \notin Plan' PROVE JumpsHit(t)'
    BY DEF ChainIsSound
  <2>1. t \in Service /\ t \in ToLink
    BY <1>8 DEF ToLink
  <2>2. CASE t = s
    BY <1>1, <2>2 DEF JumpsHit
  <2>3. CASE t # s
    BY <1>1, <1>4, <2>1, <2>3 DEF PlanInv, ChainIsSound, JumpsHit
  <2> QED
    BY <2>2, <2>3
<1> QED
  BY <1>2, <1>3, <1>5, <1>6, <1>7, <1>8, <1>9, <1>10 DEF PlanInv

(* -F of a KUBE-SEP chain *)
LEMMA RunFlushSep ==
    ASSUME ProxyTypeOK, PlanInv, NEW s \in Service, NEW ip \in Pod, NEW c, c = FlushSep(s, ip),
           First(c), Plan' = Plan \ {c}, nat' = Execute(c)
    PROVE  PlanInv'
<1>0. c.op = "-F sep" /\ c.svc = s /\ c.arg = ip /\ c.pos = 3 * ip - 2 /\ c # FlushServices
  <2>1. c.op = "-F sep" /\ c.svc = s /\ c.arg = ip /\ c.pos = 3 * ip - 2
    BY DEF FlushSep, Command
  <2> QED
    BY <2>1, FlushServicesFields
<1>1. /\ nat'.top = nat.top /\ nat'.svc = nat.svc
      /\ nat'.sep[s] = nat.sep[s] \ {ip} /\ \A t \in Service \ {s} : nat'.sep[t] = nat.sep[t]
  <2>1. nat' = [nat EXCEPT !.sep[s] = @ \ {ip}]
    <3>1. c.op = "-F sep" /\ c.svc = s /\ c.arg = ip
      BY <1>0
    <3>2. nat' = [nat EXCEPT !.sep[c.svc] = @ \ {c.arg}]
      BY <3>1, ExecuteIs
    <3> QED
      BY <3>1, <3>2
  <2> QED
    BY <2>1 DEF ProxyTypeOK
<1>2. Linked' = Linked /\ s \notin Linked /\ LinkedIsDone'
  BY <1>0, <1>1, LinkedStays
<1>3. Whole'
  BY <1>1, <1>2, WholeStays, LinkedAreServices
<1>4. /\ \A t : FlushSvc(t) \in Plan' <=> FlushSvc(t) \in Plan
      /\ \A t, jp : AddSep(t, jp) \in Plan' <=> AddSep(t, jp) \in Plan
      /\ \A t, jp : AddRandom(t, jp) \in Plan' <=> AddRandom(t, jp) \in Plan
      /\ \A t, jp : AddRest(t, jp) \in Plan' <=> AddRest(t, jp) \in Plan
      /\ \A t, jp : FlushSep(t, jp) \in Plan' => FlushSep(t, jp) \in Plan
  BY <1>0, OthersStay
<1>f. FlushSvc(s) \notin Plan
  <2> DEFINE d == FlushSvc(s)
  <2>1. d.svc = s /\ d.pos = 0 /\ d.op = "-F svc"
    BY DEF FlushSvc, Command
  <2>2. d # c
    BY <1>0, <2>1
  <2>3. ~(3 * ip - 2 < 0)
    BY Bounds DEF Pod
  <2>4. s \in Int
    BY Bounds DEF Service
  <2> HIDE DEF d
  <2>5. ~(c.pos < d.pos)
    BY <1>0, <2>1, <2>3
  <2>6. d \notin Plan
    BY <1>0, <2>1, <2>2, <2>4, <2>5, EarlierIsDone
  <2> QED
    BY <2>6 DEF d
<1>g. AddSep(s, ip) \in Plan /\ \A k \in DOMAIN nat.svc[s] : nat.svc[s][k].ip # ip
  <2>1. FlushSep(s, ip) \in Plan
    BY DEF First
  <2> QED
    BY <1>f, <2>1 DEF PlanInv, SepComesBack, SepIsUnused
<1>5. SepComesBack'
  BY <1>4 DEF PlanInv, SepComesBack
<1>6. SepIsUnused'
  BY <1>1, <1>4 DEF PlanInv, SepIsUnused
<1>7. JumpsLead'
  <2> SUFFICES ASSUME NEW t \in Service, NEW jp \in Pod,
                      AddRandom(t, jp) \in Plan \/ AddRest(t, jp) \in Plan
               PROVE  AddSep(t, jp) \in Plan \/ jp \in nat'.sep[t]
    BY <1>4 DEF JumpsLead
  <2>1. AddSep(t, jp) \in Plan \/ jp \in nat.sep[t]
    BY DEF PlanInv, JumpsLead
  <2>2. CASE t = s /\ jp = ip
    BY <1>g, <2>2
  <2>3. CASE t # s \/ jp # ip
    BY <1>1, <2>1, <2>3
  <2> QED
    BY <2>2, <2>3
<1>8. PlanTyped' /\ RestIsLast' /\ ToLink' \subseteq ToLink
  BY PlanShrinks
<1>9. RestIsThere'
  BY <1>1, <1>4, <1>8 DEF PlanInv, RestIsThere, RestToCome, EndsInRest
<1>10. ChainIsSound'
  <2> SUFFICES ASSUME NEW t \in ToLink', FlushSvc(t) \notin Plan' PROVE JumpsHit(t)'
    BY DEF ChainIsSound
  <2>1. t \in Service /\ t \in ToLink
    BY <1>8 DEF ToLink
  <2>2. JumpsHit(t)
    BY <1>4, <2>1 DEF PlanInv, ChainIsSound
  <2>3. CASE t = s
    BY <1>1, <1>g, <2>2, <2>3 DEF JumpsHit
  <2>4. CASE t # s
    BY <1>1, <2>1, <2>2, <2>4 DEF JumpsHit
  <2> QED
    BY <2>3, <2>4
<1> QED
  BY <1>2, <1>3, <1>5, <1>6, <1>7, <1>8, <1>9, <1>10 DEF PlanInv

(* -A of a DNAT rule *)
LEMMA RunAddSep ==
    ASSUME ProxyTypeOK, PlanInv, NEW s \in Service, NEW ip \in Pod, NEW c, c = AddSep(s, ip),
           First(c), Plan' = Plan \ {c}, nat' = Execute(c)
    PROVE  PlanInv'
<1>0. c.op = "-A sep" /\ c.svc = s /\ c.arg = ip /\ c.pos = 3 * ip - 1 /\ c # FlushServices
  <2>1. c.op = "-A sep" /\ c.svc = s /\ c.arg = ip /\ c.pos = 3 * ip - 1
    BY DEF AddSep, Command
  <2> QED
    BY <2>1, FlushServicesFields
<1>1. /\ nat'.top = nat.top /\ nat'.svc = nat.svc
      /\ nat'.sep[s] = nat.sep[s] \cup {ip} /\ \A t \in Service \ {s} : nat'.sep[t] = nat.sep[t]
  <2>1. nat' = [nat EXCEPT !.sep[s] = @ \cup {ip}]
    <3>1. c.op = "-A sep" /\ c.svc = s /\ c.arg = ip
      BY <1>0
    <3>2. nat' = [nat EXCEPT !.sep[c.svc] = @ \cup {c.arg}]
      BY <3>1, ExecuteIs
    <3> QED
      BY <3>1, <3>2
  <2> QED
    BY <2>1 DEF ProxyTypeOK
<1>2. Linked' = Linked /\ s \notin Linked /\ LinkedIsDone'
  BY <1>0, <1>1, LinkedStays
<1>3. Whole'
  BY <1>1, <1>2, WholeStays, LinkedAreServices
<1>4. /\ \A t : FlushSvc(t) \in Plan' <=> FlushSvc(t) \in Plan
      /\ \A t, jp : FlushSep(t, jp) \in Plan' <=> FlushSep(t, jp) \in Plan
      /\ \A t, jp : AddRandom(t, jp) \in Plan' <=> AddRandom(t, jp) \in Plan
      /\ \A t, jp : AddRest(t, jp) \in Plan' <=> AddRest(t, jp) \in Plan
      /\ \A t, jp : t # s \/ jp # ip => (AddSep(t, jp) \in Plan' <=> AddSep(t, jp) \in Plan)
  BY <1>0, OthersStay
<1>f. FlushSep(s, ip) \notin Plan
  <2> DEFINE d == FlushSep(s, ip)
  <2>1. d.svc = s /\ d.pos = 3 * ip - 2 /\ d.op = "-F sep"
    BY DEF FlushSep, Command
  <2>2. d # c
    BY <1>0, <2>1
  <2>3. ~(3 * ip - 1 < 3 * ip - 2)
    BY Bounds DEF Pod
  <2>4. s \in Int
    BY Bounds DEF Service
  <2> HIDE DEF d
  <2>5. ~(c.pos < d.pos)
    BY <1>0, <2>1, <2>3
  <2>6. d \notin Plan
    BY <1>0, <2>1, <2>2, <2>4, <2>5, EarlierIsDone
  <2> QED
    BY <2>6 DEF d
<1>5. SepComesBack'
  <2> SUFFICES ASSUME NEW t \in Service, NEW jp \in Pod, FlushSep(t, jp) \in Plan
               PROVE  AddSep(t, jp) \in Plan'
    BY <1>4 DEF SepComesBack
  <2>1. t # s \/ jp # ip
    BY <1>f
  <2> QED
    BY <1>4, <2>1 DEF PlanInv, SepComesBack
<1>6. SepIsUnused'
  BY <1>1, <1>4 DEF PlanInv, SepIsUnused
<1>7. JumpsLead'
  <2> SUFFICES ASSUME NEW t \in Service, NEW jp \in Pod,
                      AddRandom(t, jp) \in Plan \/ AddRest(t, jp) \in Plan
               PROVE  AddSep(t, jp) \in Plan' \/ jp \in nat'.sep[t]
    BY <1>4 DEF JumpsLead
  <2>1. AddSep(t, jp) \in Plan \/ jp \in nat.sep[t]
    BY DEF PlanInv, JumpsLead
  <2>2. CASE t = s /\ jp = ip
    BY <1>1, <2>2
  <2>3. CASE t # s \/ jp # ip
    BY <1>1, <1>4, <2>1, <2>3
  <2> QED
    BY <2>2, <2>3
<1>8. PlanTyped' /\ RestIsLast' /\ ToLink' \subseteq ToLink
  BY PlanShrinks
<1>9. RestIsThere'
  BY <1>1, <1>4, <1>8 DEF PlanInv, RestIsThere, RestToCome, EndsInRest
<1>10. ChainIsSound'
  <2> SUFFICES ASSUME NEW t \in ToLink', FlushSvc(t) \notin Plan' PROVE JumpsHit(t)'
    BY DEF ChainIsSound
  <2>1. t \in Service /\ t \in ToLink
    BY <1>8 DEF ToLink
  <2>2. JumpsHit(t)
    BY <1>4, <2>1 DEF PlanInv, ChainIsSound
  <2>3. CASE t = s
    BY <1>1, <2>2, <2>3 DEF JumpsHit
  <2>4. CASE t # s
    BY <1>1, <2>1, <2>2, <2>4 DEF JumpsHit
  <2> QED
    BY <2>3, <2>4
<1> QED
  BY <1>2, <1>3, <1>5, <1>6, <1>7, <1>8, <1>9, <1>10 DEF PlanInv

(* Append, without numbers *)
LEMMA Appended ==
    ASSUME NEW S, NEW old \in Seq(S), NEW e \in S, NEW new, new = Append(old, e)
    PROVE  /\ new # <<>> /\ new[Len(new)] = e
           /\ \A k \in DOMAIN new : new[k] = e \/ \E n \in DOMAIN old : new[k] = old[n]
           /\ \E k \in DOMAIN new : new[k] = e
           /\ \A n \in DOMAIN old : n \in DOMAIN new /\ new[n] = old[n]
<1>1. /\ DOMAIN new = 1..(Len(old) + 1) /\ Len(new) = Len(old) + 1
      /\ DOMAIN old = 1..Len(old) /\ Len(old) \in Nat /\ new[Len(old) + 1] = e
      /\ \A k \in 1..Len(old) : new[k] = old[k]
  OBVIOUS
<1>2. \A k \in DOMAIN new : new[k] = e \/ \E n \in DOMAIN old : new[k] = old[n]
  <2> SUFFICES ASSUME NEW k \in DOMAIN new
               PROVE  new[k] = e \/ \E n \in DOMAIN old : new[k] = old[n]
    OBVIOUS
  <2>1. k = Len(old) + 1 \/ k \in 1..Len(old)
    BY <1>1
  <2> QED
    BY <1>1, <2>1
<1>3. new # <<>>
  BY <1>1
<1>4. Len(old) + 1 \in DOMAIN new /\ \A n \in DOMAIN old : n \in DOMAIN new
  BY <1>1
<1> QED
  BY <1>1, <1>2, <1>3, <1>4

(* -A of a jump from a KUBE-SVC to a KUBE-SEP chain *)
LEMMA RunAddJump ==
    ASSUME ProxyTypeOK, PlanInv, NEW s \in Service, NEW ip \in Pod, NEW c,
           c = AddRandom(s, ip) \/ c = AddRest(s, ip),
           First(c), Plan' = Plan \ {c}, nat' = Execute(c)
    PROVE  PlanInv'
<1>0. /\ c.op \in {"-A svc random", "-A svc rest"}
      /\ c.svc = s /\ c.arg = ip /\ c.pos = 3 * ip /\ c # FlushServices
      /\ c = AddRandom(s, ip) => c.op = "-A svc random"
      /\ c = AddRest(s, ip) => c.op = "-A svc rest"
  <2>1. AddRandom(s, ip).op = "-A svc random" /\ AddRest(s, ip).op = "-A svc rest"
    BY DEF AddRandom, AddRest, Command
  <2>2. c.svc = s /\ c.arg = ip /\ c.pos = 3 * ip
    <3>1. CASE c = AddRandom(s, ip)
      BY <3>1 DEF AddRandom, Command
    <3>2. CASE c = AddRest(s, ip)
      BY <3>2 DEF AddRest, Command
    <3> QED
      BY <3>1, <3>2
  <2> QED
    BY <2>1, <2>2, FlushServicesFields
<1>r. PICK j : j = [ip |-> ip, by |-> c.op]
  OBVIOUS
<1>j. j.ip = ip /\ j.by = c.op
  BY <1>r
<1>1. /\ nat'.top = nat.top /\ nat'.sep = nat.sep /\ nat.svc[s] \in Seq(Jump) /\ j \in Jump
      /\ nat'.svc[s] = Append(nat.svc[s], j) /\ \A t \in Service \ {s} : nat'.svc[t] = nat.svc[t]
  <2>1. nat' = [nat EXCEPT !.svc[s] = Append(@, j)]
    <3>1. nat' = [nat EXCEPT !.svc[c.svc] = Append(@, [ip |-> c.arg, by |-> c.op])]
      BY <1>0, ExecuteIs
    <3> QED
      BY <1>0, <1>r, <3>1
  <2>2. j \in Jump
    BY <1>0, <1>r DEF Jump
  <2> QED
    BY <2>1, <2>2 DEF ProxyTypeOK
<1>a. /\ nat'.svc[s] # <<>> /\ nat'.svc[s][Len(nat'.svc[s])] = j
      /\ \A k \in DOMAIN nat'.svc[s] :
           nat'.svc[s][k] = j \/ \E n \in DOMAIN nat.svc[s] : nat'.svc[s][k] = nat.svc[s][n]
  <2>1. PICK old : old = nat.svc[s]
    OBVIOUS
  <2>2. PICK new : new = nat'.svc[s]
    OBVIOUS
  <2>3. old \in Seq(Jump) /\ j \in Jump /\ new = Append(old, j)
    BY <1>1, <2>1, <2>2
  <2>4. /\ new # <<>> /\ new[Len(new)] = j
        /\ \A k \in DOMAIN new : new[k] = j \/ \E n \in DOMAIN old : new[k] = old[n]
    BY <2>3, Appended
  <2> QED
    BY <2>1, <2>2, <2>4
<1>2. Linked' = Linked /\ s \notin Linked /\ LinkedIsDone'
  BY <1>0, <1>1, LinkedStays
<1>3. Whole'
  BY <1>1, <1>2, WholeStays, LinkedAreServices
<1>4. /\ \A t : FlushSvc(t) \in Plan' <=> FlushSvc(t) \in Plan
      /\ \A t, jp : FlushSep(t, jp) \in Plan' <=> FlushSep(t, jp) \in Plan
      /\ \A t, jp : AddSep(t, jp) \in Plan' <=> AddSep(t, jp) \in Plan
      /\ \A t, jp : AddRandom(t, jp) \in Plan' => AddRandom(t, jp) \in Plan
      /\ \A t, jp : AddRest(t, jp) \in Plan' => AddRest(t, jp) \in Plan
      /\ \A t, jp : t # s => (AddRandom(t, jp) \in Plan' <=> AddRandom(t, jp) \in Plan)
      /\ \A t, jp : t # s \/ c.op # "-A svc rest" => (AddRest(t, jp) \in Plan' <=> AddRest(t, jp) \in Plan)
  BY <1>0, OthersStay
<1>i. s \in Int /\ ip \in Int /\ ip >= 1
  BY Bounds DEF Service, Pod
<1>f. FlushSvc(s) \notin Plan
  <2> DEFINE d == FlushSvc(s)
  <2>1. d.svc = s /\ d.pos = 0 /\ d.op = "-F svc"
    BY DEF FlushSvc, Command
  <2>2. d # c
    BY <1>0, <2>1
  <2>3. ~(3 * ip < 0)
    BY Bounds DEF Pod
  <2>4. s \in Int
    BY Bounds DEF Service
  <2> HIDE DEF d
  <2>5. ~(c.pos < d.pos)
    BY <1>0, <2>1, <2>3
  <2>6. d \notin Plan
    BY <1>0, <2>1, <2>2, <2>4, <2>5, EarlierIsDone
  <2> QED
    BY <2>6 DEF d
<1>g. FlushSep(s, ip) \notin Plan
  <2> DEFINE d == FlushSep(s, ip)
  <2>1. d.svc = s /\ d.pos = 3 * ip - 2 /\ d.op = "-F sep"
    BY DEF FlushSep, Command
  <2>2. d # c
    BY <1>0, <2>1
  <2>3. ~(3 * ip < 3 * ip - 2)
    BY Bounds DEF Pod
  <2>4. s \in Int
    BY Bounds DEF Service
  <2> HIDE DEF d
  <2>5. ~(c.pos < d.pos)
    BY <1>0, <2>1, <2>3
  <2>6. d \notin Plan
    BY <1>0, <2>1, <2>2, <2>4, <2>5, EarlierIsDone
  <2> QED
    BY <2>6 DEF d
<1>h. AddSep(s, ip) \notin Plan
  <2> DEFINE d == AddSep(s, ip)
  <2>1. d.svc = s /\ d.pos = 3 * ip - 1 /\ d.op = "-A sep"
    BY DEF AddSep, Command
  <2>2. d # c
    BY <1>0, <2>1
  <2>3. ~(3 * ip < 3 * ip - 1)
    BY Bounds DEF Pod
  <2>4. s \in Int
    BY Bounds DEF Service
  <2> HIDE DEF d
  <2>5. ~(c.pos < d.pos)
    BY <1>0, <2>1, <2>3
  <2>6. d \notin Plan
    BY <1>0, <2>1, <2>2, <2>4, <2>5, EarlierIsDone
  <2> QED
    BY <2>6 DEF d
<1>k. ip \in nat.sep[s]
  BY <1>0, <1>h DEF PlanInv, JumpsLead, First
<1>5. SepComesBack'
  BY <1>4 DEF PlanInv, SepComesBack
<1>6. SepIsUnused'
  <2> SUFFICES ASSUME NEW t \in Service, NEW jp \in Pod, FlushSep(t, jp) \in Plan,
                      FlushSvc(t) \notin Plan, NEW k \in DOMAIN nat'.svc[t]
               PROVE  nat'.svc[t][k].ip # jp
    BY <1>4 DEF SepIsUnused
  <2>1. \A n \in DOMAIN nat.svc[t] : nat.svc[t][n].ip # jp
    BY DEF PlanInv, SepIsUnused
  <2>2. CASE t # s
    BY <1>1, <2>1, <2>2
  <2>3. CASE t = s
    <3>1. jp # ip
      BY <1>g, <2>3
    <3> QED
      BY <1>a, <1>j, <2>1, <2>3, <3>1
  <2> QED
    BY <2>2, <2>3
<1>7. JumpsLead'
  BY <1>1, <1>4 DEF PlanInv, JumpsLead
<1>8. PlanTyped' /\ RestIsLast' /\ ToLink' \subseteq ToLink
  BY PlanShrinks
<1>9. RestIsThere'
  <2> SUFFICES ASSUME NEW t \in ToLink'
               PROVE  \/ RestToCome(t)'
                      \/ /\ FlushSvc(t) \notin Plan' /\ EndsInRest(t)'
                         /\ \A jp \in Pod : AddRandom(t, jp) \notin Plan'
    BY DEF RestIsThere
  <2>0. t \in Service /\ t \in ToLink
    BY <1>8 DEF ToLink
  <2>1. CASE t # s
    <3>1. nat'.svc[t] = nat.svc[t]
      BY <1>1, <2>0, <2>1
    <3> QED
      BY <1>4, <2>0, <2>1, <3>1 DEF PlanInv, RestIsThere, RestToCome, EndsInRest
  <2>2. CASE t = s /\ c = AddRandom(s, ip)
    <3>1. RestToCome(s)
      BY <2>0, <2>2 DEF PlanInv, RestIsThere, First
    <3>2. c.op # "-A svc rest"
      BY <1>0, <2>2
    <3> QED
      BY <1>4, <2>2, <3>1, <3>2 DEF RestToCome
  <2>3. CASE t = s /\ c = AddRest(s, ip)
    <3>1. EndsInRest(s)'
      <4>1. j.by = "-A svc rest"
        BY <1>0, <1>j, <2>3
      <4> QED
        BY <1>a, <4>1 DEF EndsInRest
    <3>2. ASSUME NEW jp \in Pod, AddRandom(s, jp) \in Plan' PROVE FALSE
      <4>1. AddRandom(s, jp) \in Plan
        BY <1>4, <3>2
      <4>2. jp <= ip
        BY <2>3, <4>1 DEF PlanInv, RestIsLast, First
      <4> DEFINE d == AddRandom(s, jp)
      <4>3. d.svc = s /\ d.pos = 3 * jp /\ d.op = "-A svc random"
        BY DEF AddRandom, Command
      <4>4. jp \in Int
        BY Bounds DEF Pod
      <4>5. ~(3 * ip < 3 * jp)
        BY <1>i, <4>2, <4>4
      <4>6. d # c
        BY <1>0, <2>3, <4>3
      <4> HIDE DEF d
      <4>7. ~(c.pos < d.pos)
        BY <1>0, <4>3, <4>5
      <4>8. d \notin Plan
        BY <1>0, <1>i, <4>3, <4>6, <4>7, EarlierIsDone
      <4> QED
        BY <4>1, <4>8 DEF d
    <3> QED
      BY <1>4, <1>f, <2>3, <3>1, <3>2
  <2> QED
    BY <2>1, <2>2, <2>3
<1>10. ChainIsSound'
  <2> SUFFICES ASSUME NEW t \in ToLink', FlushSvc(t) \notin Plan' PROVE JumpsHit(t)'
    BY DEF ChainIsSound
  <2>1. t \in Service /\ t \in ToLink
    BY <1>8 DEF ToLink
  <2>2. JumpsHit(t)
    BY <1>4, <2>1 DEF PlanInv, ChainIsSound
  <2>3. CASE t = s
    BY <1>1, <1>a, <1>j, <1>k, <2>2, <2>3 DEF JumpsHit
  <2>4. CASE t # s
    BY <1>1, <2>1, <2>2, <2>4 DEF JumpsHit
  <2> QED
    BY <2>3, <2>4
<1> QED
  BY <1>2, <1>3, <1>5, <1>6, <1>7, <1>8, <1>9, <1>10 DEF PlanInv

(* -A to KUBE-SERVICES *)
LEMMA RunLink ==
    ASSUME ProxyTypeOK, PlanInv, NEW s \in Service, NEW vip \in Vip, NEW c, c = Link(s, vip),
           First(c), Plan' = Plan \ {c}, nat' = Execute(c)
    PROVE  PlanInv'
<1>0. c.op = "-A top" /\ c.svc = s /\ c.arg = vip /\ c.pos = 3 * NumPods + 1 /\ c # FlushServices
  <2>1. c.op = "-A top" /\ c.svc = s /\ c.arg = vip /\ c.pos = 3 * NumPods + 1
    BY DEF Link, Command
  <2> QED
    BY <2>1, FlushServicesFields
<1>r. PICK e : e = [vip |-> vip, svc |-> s]
  OBVIOUS
<1>1. /\ nat'.top = Append(nat.top, e) /\ nat'.svc = nat.svc /\ nat'.sep = nat.sep
      /\ nat.top \in Seq(Route) /\ e \in Route /\ e.svc = s
  <2>1. nat' = [nat EXCEPT !.top = Append(@, e)]
    <3>1. nat' = [nat EXCEPT !.top = Append(@, [vip |-> c.arg, svc |-> c.svc])]
      BY <1>0, ExecuteIs
    <3>2. e = [vip |-> c.arg, svc |-> c.svc]
      BY <1>0, <1>r
    <3> QED
      BY <3>1, <3>2
  <2>2. e \in Route /\ e.svc = s
    BY <1>r DEF Route
  <2> QED
    BY <2>1, <2>2 DEF ProxyTypeOK
<1>2. Linked' = Linked \cup {s}
  <2>1. /\ DOMAIN nat'.top = 1..(Len(nat.top) + 1) /\ DOMAIN nat.top = 1..Len(nat.top)
        /\ Len(nat.top) \in Nat /\ nat'.top[Len(nat.top) + 1] = e
        /\ \A k \in 1..Len(nat.top) : nat'.top[k] = nat.top[k]
    BY <1>1
  <2> QED
    BY <1>1, <2>1 DEF Linked
<1>3. FlushServices \notin Plan /\ \A d \in Plan : d.svc \notin Linked
  BY <1>0, FlushServicesIsFirst DEF PlanInv, LinkedIsDone
<1>i. s \in Int /\ NumPods \in Nat
  BY Bounds DEF Service
<1>4. ASSUME NEW d \in Plan, d # c PROVE d.svc # s
  <2>1. d.svc \in Service /\ d.pos \in 0..(3 * NumPods + 1)
    BY <1>3, CommandPlaces DEF PlanInv
  <2>2. ~(3 * NumPods + 1 < d.pos)
    BY <1>i, <2>1
  <2> QED
    BY <1>0, <1>4, <1>i, <2>2, EarlierIsDone
<1>5. LinkedIsDone'
  BY <1>2, <1>3, <1>4 DEF LinkedIsDone
<1>6. /\ \A t : FlushSvc(t) \in Plan' <=> FlushSvc(t) \in Plan
      /\ \A t, ip : FlushSep(t, ip) \in Plan' <=> FlushSep(t, ip) \in Plan
      /\ \A t, ip : AddSep(t, ip) \in Plan' <=> AddSep(t, ip) \in Plan
      /\ \A t, ip : AddRandom(t, ip) \in Plan' <=> AddRandom(t, ip) \in Plan
      /\ \A t, ip : AddRest(t, ip) \in Plan' <=> AddRest(t, ip) \in Plan
  BY <1>0, OthersStay
<1>7. EndsInRest(s) /\ JumpsHit(s)
  <2>1. s \in ToLink
    BY DEF ToLink, First
  <2>2. FlushSvc(s) \notin Plan
    BY <1>0, <1>4, FlushSvcFields
  <2>3. ~RestToCome(s)
    BY <1>0, <1>4, AddRestFields DEF RestToCome
  <2> QED
    BY <2>1, <2>2, <2>3 DEF PlanInv, RestIsThere, ChainIsSound
<1>8. Whole'
  BY <1>1, <1>2, <1>7 DEF PlanInv, Whole, EndsInRest, JumpsHit
<1>9. SepComesBack' /\ SepIsUnused' /\ JumpsLead'
  BY <1>1, <1>6 DEF PlanInv, SepComesBack, SepIsUnused, JumpsLead
<1>10. PlanTyped' /\ RestIsLast' /\ ToLink' \subseteq ToLink
  BY PlanShrinks
<1>11. RestIsThere'
  BY <1>1, <1>6, <1>10 DEF PlanInv, RestIsThere, RestToCome, EndsInRest
<1>12. ChainIsSound'
  BY <1>1, <1>6, <1>10 DEF PlanInv, ChainIsSound, JumpsHit
<1> QED
  BY <1>5, <1>8, <1>9, <1>10, <1>11, <1>12 DEF PlanInv

(* A sync that ends, wherever it has come to *)
LEMMA PlanIsDropped ==
    ASSUME PlanInv, Plan' = {}, nat'.top = nat.top, nat'.svc = nat.svc, nat'.sep = nat.sep
    PROVE  PlanInv'
<1>1. Linked' = Linked
  BY DEF Linked
<1>2. Whole'
  BY <1>1 DEF PlanInv, Whole, EndsInRest, JumpsHit
<1>3. ToLink' = {}
  BY DEF ToLink
<1>4. PlanTyped' /\ LinkedIsDone'
  BY DEF PlanTyped, LinkedIsDone
<1>5. SepComesBack' /\ SepIsUnused' /\ JumpsLead' /\ RestIsLast'
  BY DEF SepComesBack, SepIsUnused, JumpsLead, RestIsLast
<1>6. RestIsThere' /\ ChainIsSound'
  BY <1>3 DEF RestIsThere, ChainIsSound
<1> QED
  BY <1>2, <1>4, <1>5, <1>6 DEF PlanInv

LEMMA RunCommandKeeps ==
    ASSUME ProxyTypeOK, PlanInv, RunCommand
    PROVE  PlanInv'
<1>1. CASE Plan' = {} /\ nat' = nat
  BY <1>1, PlanIsDropped
<1>2. ASSUME NEW c, First(c), Plan' = Plan \ {c}, nat' = Execute(c)
      PROVE  PlanInv'
  <2>0. \/ c = FlushServices
        \/ \E s \in Service : c = FlushSvc(s)
        \/ \E s \in Service, ip \in Pod : c = FlushSep(s, ip)
        \/ \E s \in Service, ip \in Pod : c = AddSep(s, ip)
        \/ \E s \in Service, ip \in Pod : c = AddRandom(s, ip)
        \/ \E s \in Service, ip \in Pod : c = AddRest(s, ip)
        \/ \E s \in Service, vip \in Vip : c = Link(s, vip)
    BY <1>2 DEF First, PlanInv, PlanTyped
  <2>1. CASE c = FlushServices
    BY <1>2, <2>1, RunFlushServices
  <2>2. ASSUME NEW s \in Service, c = FlushSvc(s) PROVE PlanInv'
    BY <1>2, <2>2, RunFlushSvc
  <2>3. ASSUME NEW s \in Service, NEW ip \in Pod, c = FlushSep(s, ip) PROVE PlanInv'
    BY <1>2, <2>3, RunFlushSep
  <2>4. ASSUME NEW s \in Service, NEW ip \in Pod, c = AddSep(s, ip) PROVE PlanInv'
    BY <1>2, <2>4, RunAddSep
  <2>5. ASSUME NEW s \in Service, NEW ip \in Pod, c = AddRandom(s, ip) \/ c = AddRest(s, ip)
        PROVE  PlanInv'
    BY <1>2, <2>5, RunAddJump
  <2>6. ASSUME NEW s \in Service, NEW vip \in Vip, c = Link(s, vip) PROVE PlanInv'
    BY <1>2, <2>6, RunLink
  <2> HIDE DEF PlanInv
  <2> QED
    BY <2>0, <2>1, <2>2, <2>3, <2>4, <2>5, <2>6
<1> QED
  BY <1>1, <1>2, RunCommandRuns

-----------------------------------------------------------------------------
(* The plan of a sync *)

JumpTo(ips, s, ip) == IF \A q \in ips : q <= ip THEN AddRest(s, ip) ELSE AddRandom(s, ip)

LEMMA PlanRulesHas ==
    ASSUME NEW v, NEW a, NEW c
    PROVE  c \in PlanRules(v, a) <=>
             \/ c = FlushServices
             \/ \E s \in Planned(v, a) :
                  \/ c = FlushSvc(s) \/ c = Link(s, v[s])
                  \/ \E ip \in a[s] : \/ c = FlushSep(s, ip) \/ c = AddSep(s, ip)
                                      \/ c = JumpTo(a[s], s, ip)
<1>1. ASSUME NEW s, NEW ips
      PROVE  c \in PlanBackends(s, ips) <=>
               \E ip \in ips : c = FlushSep(s, ip) \/ c = AddSep(s, ip) \/ c = JumpTo(ips, s, ip)
  <2> DEFINE jump(ip) == IF \A q \in ips : q <= ip THEN "-A svc rest" ELSE "-A svc random"
  <2>1. ASSUME NEW ip
        PROVE  c \in PlanBackend(s, ip, jump(ip)) <=>
                 c = FlushSep(s, ip) \/ c = AddSep(s, ip) \/ c = JumpTo(ips, s, ip)
    <3>1. JumpTo(ips, s, ip) = Command(jump(ip), s, 3 * ip, ip)
      BY DEF JumpTo, AddRest, AddRandom
    <3> HIDE DEF jump
    <3> QED
      BY <3>1 DEF PlanBackend, FlushSep, AddSep
  <2>2. c \in PlanBackends(s, ips) <=> \E ip \in ips : c \in PlanBackend(s, ip, jump(ip))
    BY DEF PlanBackends
  <2> QED
    BY <2>1, <2>2
<1>2. ASSUME NEW s
      PROVE  c \in PlanService(s, v[s], a[s]) <=>
               \/ c = FlushSvc(s) \/ c = Link(s, v[s]) \/ c \in PlanBackends(s, a[s])
  BY DEF PlanService, FlushSvc, Link
<1> QED
  BY <1>1, <1>2 DEF PlanRules

(* Which commands are in a plan.                                           *)
LEMMA PlanRulesAre ==
    ASSUME NEW v, NEW a, NEW P, P = PlanRules(v, a)
    PROVE  /\ FlushServices \in P
           /\ \A s : FlushSvc(s) \in P <=> s \in Planned(v, a)
           /\ \A s, ip : FlushSep(s, ip) \in P <=> s \in Planned(v, a) /\ ip \in a[s]
           /\ \A s, ip : AddSep(s, ip) \in P <=> s \in Planned(v, a) /\ ip \in a[s]
           /\ \A s, ip : AddRandom(s, ip) \in P
                           => s \in Planned(v, a) /\ ip \in a[s]
           /\ \A s, ip : AddRest(s, ip) \in P <=>
                           s \in Planned(v, a) /\ ip \in a[s] /\ \A q \in a[s] : q <= ip
           /\ \A s, vip : Link(s, vip) \in P => s \in Planned(v, a)
<1> DEFINE Q == Planned(v, a)
<1> DEFINE Is(c) ==
      \/ c = FlushServices
      \/ \E s \in Q : \/ c = FlushSvc(s) \/ c = Link(s, v[s])
                      \/ \E ip \in a[s] : \/ c = FlushSep(s, ip) \/ c = AddSep(s, ip)
                                          \/ c = JumpTo(a[s], s, ip)
<1>1. \A c : c \in P <=> Is(c)
  BY PlanRulesHas
<1>3. FlushServices.op = "-F top"
  BY DEF FlushServices, Command
<1>4. \A ips, s, ip : \/ JumpTo(ips, s, ip) = AddRest(s, ip) /\ \A q \in ips : q <= ip
                      \/ JumpTo(ips, s, ip) = AddRandom(s, ip)
  BY DEF JumpTo
<1>5. \A ips, s, ip : (\A q \in ips : q <= ip) => JumpTo(ips, s, ip) = AddRest(s, ip)
  BY DEF JumpTo
<1> HIDE DEF Q
<1>c. ASSUME NEW c, Is(c)
      PROVE  \/ c.op = "-F top"
             \/ c.op = "-F svc" /\ c.svc \in Q
             \/ c.op = "-A top" /\ c.svc \in Q
             \/ c.op = "-F sep" /\ c.svc \in Q /\ c.arg \in a[c.svc]
             \/ c.op = "-A sep" /\ c.svc \in Q /\ c.arg \in a[c.svc]
             \/ c.op = "-A svc random" /\ c.svc \in Q /\ c.arg \in a[c.svc]
             \/ c.op = "-A svc rest" /\ c.svc \in Q /\ c.arg \in a[c.svc] /\ \A q \in a[c.svc] : q <= c.arg
  <2>1. CASE c = FlushServices
    BY <1>3, <2>1
  <2>2. ASSUME NEW s \in Q, c = FlushSvc(s) PROVE c.op = "-F svc" /\ c.svc \in Q
    BY <2>2 DEF FlushSvc, Command
  <2>3. ASSUME NEW s \in Q, c = Link(s, v[s]) PROVE c.op = "-A top" /\ c.svc \in Q
    BY <2>3 DEF Link, Command
  <2>4. ASSUME NEW s \in Q, NEW ip \in a[s], c = FlushSep(s, ip)
        PROVE  c.op = "-F sep" /\ c.svc \in Q /\ c.arg \in a[c.svc]
    BY <2>4 DEF FlushSep, Command
  <2>5. ASSUME NEW s \in Q, NEW ip \in a[s], c = AddSep(s, ip)
        PROVE  c.op = "-A sep" /\ c.svc \in Q /\ c.arg \in a[c.svc]
    BY <2>5 DEF AddSep, Command
  <2>6. ASSUME NEW s \in Q, NEW ip \in a[s], c = AddRandom(s, ip)
        PROVE  c.op = "-A svc random" /\ c.svc \in Q /\ c.arg \in a[c.svc]
    BY <2>6 DEF AddRandom, Command
  <2>7. ASSUME NEW s \in Q, NEW ip \in a[s], c = AddRest(s, ip), \A q \in a[s] : q <= ip
        PROVE  /\ c.op = "-A svc rest" /\ c.svc \in Q /\ c.arg \in a[c.svc]
               /\ \A q \in a[c.svc] : q <= c.arg
    <3>1. c.op = "-A svc rest" /\ c.svc = s /\ c.arg = ip
      BY <2>7 DEF AddRest, Command
    <3> QED
      BY <2>7, <3>1
  <2>8. ASSUME NEW s \in Q, NEW ip \in a[s], c = JumpTo(a[s], s, ip)
        PROVE  \/ c = AddRest(s, ip) /\ \A q \in a[s] : q <= ip
               \/ c = AddRandom(s, ip)
    BY <1>4, <2>8
  <2> QED
    BY <1>c, <2>1, <2>2, <2>3, <2>4, <2>5, <2>6, <2>7, <2>8
<1>6. ASSUME NEW s PROVE Is(FlushSvc(s)) <=> s \in Q
  <2>1. s \in Q => Is(FlushSvc(s))
    OBVIOUS
  <2>2. PICK d : d = FlushSvc(s)
    OBVIOUS
  <2>3. d.op = "-F svc" /\ d.svc = s
    BY <2>2 DEF FlushSvc, Command
  <2> HIDE DEF Is
  <2>4. Is(d) => s \in Q
    BY <1>c, <2>3
  <2> QED
    BY <2>1, <2>2, <2>4
<1>7. ASSUME NEW s, NEW ip PROVE Is(FlushSep(s, ip)) <=> s \in Q /\ ip \in a[s]
  <2>1. s \in Q /\ ip \in a[s] => Is(FlushSep(s, ip))
    OBVIOUS
  <2>2. PICK d : d = FlushSep(s, ip)
    OBVIOUS
  <2>3. d.op = "-F sep" /\ d.svc = s /\ d.arg = ip
    BY <2>2 DEF FlushSep, Command
  <2> HIDE DEF Is
  <2>4. Is(d) => s \in Q /\ ip \in a[s]
    BY <1>c, <2>3
  <2> QED
    BY <2>1, <2>2, <2>4
<1>8. ASSUME NEW s, NEW ip PROVE Is(AddSep(s, ip)) <=> s \in Q /\ ip \in a[s]
  <2>1. s \in Q /\ ip \in a[s] => Is(AddSep(s, ip))
    OBVIOUS
  <2>2. PICK d : d = AddSep(s, ip)
    OBVIOUS
  <2>3. d.op = "-A sep" /\ d.svc = s /\ d.arg = ip
    BY <2>2 DEF AddSep, Command
  <2> HIDE DEF Is
  <2>4. Is(d) => s \in Q /\ ip \in a[s]
    BY <1>c, <2>3
  <2> QED
    BY <2>1, <2>2, <2>4
<1>10. ASSUME NEW s, NEW ip
       PROVE  Is(AddRest(s, ip)) <=> s \in Q /\ ip \in a[s] /\ \A q \in a[s] : q <= ip
  <2>1. s \in Q /\ ip \in a[s] /\ (\A q \in a[s] : q <= ip) => Is(AddRest(s, ip))
    BY <1>5
  <2>2. PICK d : d = AddRest(s, ip)
    OBVIOUS
  <2>3. d.op = "-A svc rest" /\ d.svc = s /\ d.arg = ip
    BY <2>2 DEF AddRest, Command
  <2> HIDE DEF Is
  <2>4. Is(d) => s \in Q /\ ip \in a[s] /\ \A q \in a[s] : q <= ip
    BY <1>c, <2>3
  <2> QED
    BY <2>1, <2>2, <2>4
<1> HIDE DEF Is
<1>9. ASSUME NEW s, NEW ip, Is(AddRandom(s, ip)) PROVE s \in Q /\ ip \in a[s]
  <2>1. PICK d : d = AddRandom(s, ip)
    OBVIOUS
  <2>2. d.op = "-A svc random" /\ d.svc = s /\ d.arg = ip
    BY <2>1 DEF AddRandom, Command
  <2> QED
    BY <1>9, <1>c, <2>1, <2>2
<1>11. ASSUME NEW s, NEW vip, Is(Link(s, vip)) PROVE s \in Q
  <2>1. PICK d : d = Link(s, vip)
    OBVIOUS
  <2>2. d.op = "-A top" /\ d.svc = s
    BY <2>1 DEF Link, Command
  <2> QED
    BY <1>11, <1>c, <2>1, <2>2
<1>12. Is(FlushServices)
  BY DEF Is
<1> QED
  BY <1>1, <1>6, <1>7, <1>8, <1>9, <1>10, <1>11, <1>12 DEF Q

(* What the controllers' store shows has the types of the real objects.    *)
LEMMA ShownParts ==
    ASSUME ApiTypeOK
    PROVE  /\ Shown \in Replica
           /\ Shown.services \in [Service -> ServiceObject \cup {Absent}]
           /\ Shown.pods \in [Pod -> PodObject \cup {Absent}]
           /\ Shown.endpoints \in [Service -> (SUBSET Pod) \cup {Absent}]
<1>1. CASE local # Absent
  BY <1>1 DEF Shown, ApiTypeOK, Replica
<1>2. CASE local = Absent
  <2>1. Shown = [services |-> services, pods |-> pods, endpoints |-> endpoints,
                 outdated |-> {}, events |-> {}]
    BY <1>2 DEF Shown
  <2> QED
    BY <2>1 DEF ApiTypeOK, Replica
<1> QED
  BY <1>1, <1>2

LEMMA ListEndpointsPlans ==
    ASSUME ApiTypeOK, ProxyTypeOK, PlanInv, ListEndpoints
    PROVE  PlanInv'
<1>v. PICK v : v = proxy.listed
  OBVIOUS
<1>a. PICK a : a = Shown.endpoints
  OBVIOUS
<1>p. Plan' = PlanRules(v, a) /\ nat' = nat
  <2>1. proxy' = [ProxyIdle EXCEPT !.pc = "apply", !.plan = PlanRules(v, a)] /\ nat' = nat
    BY <1>v, <1>a DEF ListEndpoints
  <2>2. proxy'.plan = PlanRules(v, a)
    BY <2>1 DEF ProxyIdle
  <2> QED
    BY <2>1, <2>2 DEF Plan
<1>t. ASSUME NEW s \in Planned(v, a)
      PROVE  s \in Service /\ a[s] \in SUBSET Pod /\ a[s] # {} /\ v[s] \in Vip
  <2>1. v \in [Service -> Vip \cup {NoVip}]
    BY <1>v DEF ProxyTypeOK
  <2>2. a \in [Service -> (SUBSET Pod) \cup {Absent}]
    BY <1>a, ShownParts
  <2> QED
    BY <2>1, <2>2 DEF Planned
<1>h. PICK P : P = Plan'
  OBVIOUS
<1>1. /\ FlushServices \in P
      /\ \A s : FlushSvc(s) \in P <=> s \in Planned(v, a)
      /\ \A s, ip : FlushSep(s, ip) \in P <=> s \in Planned(v, a) /\ ip \in a[s]
      /\ \A s, ip : AddSep(s, ip) \in P <=> s \in Planned(v, a) /\ ip \in a[s]
      /\ \A s, ip : AddRandom(s, ip) \in P => s \in Planned(v, a) /\ ip \in a[s]
      /\ \A s, ip : AddRest(s, ip) \in P <=>
                      s \in Planned(v, a) /\ ip \in a[s] /\ \A q \in a[s] : q <= ip
      /\ \A s, vip : Link(s, vip) \in P => s \in Planned(v, a)
  BY <1>p, <1>h, PlanRulesAre
<1>2. PlanTyped'
  <2> SUFFICES ASSUME NEW c \in P
               PROVE  \/ c = FlushServices
                      \/ \E s \in Service : c = FlushSvc(s)
                      \/ \E s \in Service, ip \in Pod : c = FlushSep(s, ip)
                      \/ \E s \in Service, ip \in Pod : c = AddSep(s, ip)
                      \/ \E s \in Service, ip \in Pod : c = AddRandom(s, ip)
                      \/ \E s \in Service, ip \in Pod : c = AddRest(s, ip)
                      \/ \E s \in Service, vip \in Vip : c = Link(s, vip)
    BY <1>h DEF PlanTyped
  <2>1. \/ c = FlushServices
        \/ \E s \in Planned(v, a) :
             \/ c = FlushSvc(s) \/ c = Link(s, v[s])
             \/ \E ip \in a[s] : c = FlushSep(s, ip) \/ c = AddSep(s, ip) \/ c = JumpTo(a[s], s, ip)
    BY <1>p, <1>h, PlanRulesHas
  <2>2. \A ips, s, ip : JumpTo(ips, s, ip) = AddRest(s, ip) \/ JumpTo(ips, s, ip) = AddRandom(s, ip)
    BY DEF JumpTo
  <2> QED
    BY <1>t, <2>1, <2>2
<1>3. LinkedIsDone'
  BY <1>1, <1>h DEF LinkedIsDone
<1>4. SepComesBack' /\ SepIsUnused'
  BY <1>1, <1>h DEF SepComesBack, SepIsUnused
<1>5. JumpsLead'
  BY <1>1, <1>h DEF JumpsLead
<1>6. RestIsLast'
  BY <1>1, <1>h DEF RestIsLast
<1>7. ToLink' \subseteq Planned(v, a)
  BY <1>1, <1>h DEF ToLink
<1>8. RestIsThere'
  <2> SUFFICES ASSUME NEW s \in ToLink' PROVE RestToCome(s)'
    BY DEF RestIsThere
  <2>1. s \in Planned(v, a) /\ a[s] \in SUBSET Pod /\ a[s] # {}
    BY <1>7, <1>t
  <2>2. PICK m \in a[s] : \A k \in a[s] : k <= m
    BY <2>1, LargestPod
  <2>3. m \in Pod /\ AddRest(s, m) \in P
    BY <1>1, <2>1, <2>2
  <2> QED
    BY <1>h, <2>3 DEF RestToCome
<1>9. ChainIsSound'
  BY <1>1, <1>7, <1>h DEF ChainIsSound
<1>10. Whole'
  BY <1>p DEF PlanInv, Whole, Linked, EndsInRest, JumpsHit
<1> QED
  BY <1>2, <1>3, <1>4, <1>5, <1>6, <1>8, <1>9, <1>10 DEF PlanInv

-----------------------------------------------------------------------------
(* Types *)

LEMMA Counters ==
    ASSUME ApiTypeOK
    PROVE  /\ Edit => edits' \in 0..MaxEdits
           /\ Mishap => mishaps' \in 0..MaxMishaps
<1>1. edits \in 0..MaxEdits /\ mishaps \in 0..MaxMishaps
  BY DEF ApiTypeOK
<1> QED
  BY <1>1, Bounds DEF Edit, Mishap

LEMMA NextFreeIsVip ==
    ASSUME NEW obs \in [Service -> ServiceObject \cup {Absent}],
           ~Exhausted(NextFreeClusterIpIndex(obs))
    PROVE  NextFreeClusterIpIndex(obs) \in Vip
<1>u. PICK U : U = UsedVips(obs)
  OBVIOUS
<1>1. U \in SUBSET (0..MaxVip)
  <2>1. \A s \in ListedServices(obs) : obs[s] \in ServiceObject
    BY DEF ListedServices
  <2> QED
    BY <1>u, <2>1 DEF UsedVips, ServiceObject, Vip
<1>n. PICK n : n = NextFreeClusterIpIndex(obs)
  OBVIOUS
<1>2. CASE U = {}
  <2>1. n = 0
    BY <1>u, <1>n, <1>2 DEF NextFreeClusterIpIndex
  <2> QED
    BY <1>n, <2>1, Bounds DEF Vip
<1>3. CASE U # {}
  <2>0. \E l \in U : \A k \in U : k <= l
    BY <1>1, <1>3, Bounds, LargestExists
  <2>1. PICK m : m = CHOOSE l \in U : \A k \in U : k <= l
    OBVIOUS
  <2>2. m \in U
    BY <2>0, <2>1
  <2>3. n = m + 1
    BY <1>u, <1>n, <1>3, <2>1 DEF NextFreeClusterIpIndex
  <2>4. m \in 0..MaxVip
    BY <1>1, <2>2
  <2>5. ~(m + 1 > MaxVip)
    BY <1>n, <2>3 DEF Exhausted
  <2>6. m + 1 \in 0..MaxVip
    BY <2>4, <2>5, Bounds
  <2> QED
    BY <1>n, <2>3, <2>6 DEF Vip
<1> QED
  BY <1>2, <1>3

LEMMA ApiParts ==
    ASSUME ApiTypeOK
    PROVE  /\ services \in [Service -> ServiceObject \cup {Absent}]
           /\ pods \in [Pod -> PodObject \cup {Absent}]
           /\ endpoints \in [Service -> (SUBSET Pod) \cup {Absent}]
           /\ posts \subseteq Post /\ local \in Replica \cup {Absent}
           /\ deleted \subseteq Service /\ missed \subseteq Service
           /\ edits \in 0..MaxEdits /\ mishaps \in 0..MaxMishaps
  BY DEF ApiTypeOK

LEMMA ApplyServiceTypes ==
    ASSUME ApiTypeOK, NEW s \in Service, NEW l \in Label \cup {EmptySelector}, ApplyService(s, l)
    PROVE  ApiTypeOK'
<1>1. edits' \in 0..MaxEdits /\ UNCHANGED <<pods, endpoints, local, deleted, missed, mishaps>>
  BY Counters DEF ApplyService
<1>2. CASE services[s] # Absent
  <2>1. services' = [services EXCEPT ![s] = ReplaceServiceSpec(s, l)] /\ posts' = posts
    BY <1>2 DEF ApplyService
  <2>2. services[s] \in ServiceObject
    BY <1>2 DEF ApiTypeOK
  <2>3. ReplaceServiceSpec(s, l) \in ServiceObject
    BY <2>2 DEF ReplaceServiceSpec, ServiceObject
  <2>4. services' \in [Service -> ServiceObject \cup {Absent}]
    BY <2>1, <2>3, ApiParts
  <2> QED
    BY <1>1, <2>1, <2>4, ApiParts DEF ApiTypeOK
<1>3. CASE services[s] = Absent
  <2> DEFINE r == [svc |-> s, selector |-> l, stage |-> "sent", vip |-> NoVip]
  <2>1. posts' = posts \cup {r} /\ services' = services
    BY <1>3 DEF ApplyService
  <2>2. r \in Post
    BY DEF Post
  <2> HIDE DEF r
  <2> QED
    BY <1>1, <2>1, <2>2, ApiParts DEF ApiTypeOK
<1> QED
  BY <1>2, <1>3

LEMMA DeleteServiceTypes ==
    ASSUME ApiTypeOK, NEW s \in Service, DeleteService(s)
    PROVE  ApiTypeOK'
<1>1. edits' \in 0..MaxEdits /\ UNCHANGED <<pods, endpoints, posts>>
  BY Counters DEF DeleteService
<1>2. services' \in [Service -> ServiceObject \cup {Absent}]
  BY ApiParts DEF DeleteService
<1>3. DeletedEvent(s)
  BY DEF DeleteService
<1>4. deleted' \subseteq Service /\ missed' \subseteq Service /\ mishaps' \in 0..MaxMishaps
  BY <1>3, ApiParts, Counters DEF DeletedEvent
<1>5. local' \in Replica \cup {Absent}
  <2>1. local # Absent => [local EXCEPT !.events = @ \cup {s}] \in Replica
    BY ApiParts DEF Replica
  <2>2. local' = local \/ (local # Absent /\ local' = [local EXCEPT !.events = @ \cup {s}])
    BY <1>3 DEF DeletedEvent
  <2> QED
    BY <2>1, <2>2, ApiParts
<1> QED
  BY <1>1, <1>2, <1>4, <1>5, ApiParts DEF ApiTypeOK

LEMMA PodTypes ==
    ASSUME ApiTypeOK, NEW p \in Pod,
           \/ DeletePod(p)
           \/ \E l \in Label : ApplyPod(p, l)
           \/ \E ph \in {"Pending", "Running"}, a \in BOOLEAN : ReplacePodStatus(p, ph, a)
    PROVE  ApiTypeOK'
<1>1. /\ edits' \in 0..MaxEdits
      /\ UNCHANGED <<services, endpoints, posts, local, deleted, missed, mishaps>>
  BY Counters DEF DeletePod, ApplyPod, ReplacePodStatus
<1>2. pods[p] \in PodObject \cup {Absent}
  BY ApiParts
<1>3. CASE DeletePod(p)
  <2>1. pods' \in [Pod -> PodObject \cup {Absent}]
    BY <1>3, ApiParts DEF DeletePod
  <2> QED
    BY <1>1, <2>1, ApiParts DEF ApiTypeOK
<1>4. ASSUME NEW l \in Label, ApplyPod(p, l) PROVE ApiTypeOK'
  <2>1. [label |-> l, phase |-> "Pending", addressed |-> FALSE] \in PodObject
    BY DEF PodObject
  <2>2. pods[p] # Absent => [pods[p] EXCEPT !.label = l] \in PodObject
    BY <1>2 DEF PodObject
  <2>3. pods' \in [Pod -> PodObject \cup {Absent}]
    BY <1>4, <2>1, <2>2, ApiParts DEF ApplyPod
  <2> QED
    BY <1>1, <2>3, ApiParts DEF ApiTypeOK
<1>5. ASSUME NEW ph \in {"Pending", "Running"}, NEW a \in BOOLEAN, ReplacePodStatus(p, ph, a)
      PROVE  ApiTypeOK'
  <2>1. pods[p] \in PodObject
    BY <1>2, <1>5 DEF ReplacePodStatus
  <2>2. [[pods[p] EXCEPT !.phase = ph] EXCEPT !.addressed = a] \in PodObject
    BY <2>1 DEF PodObject
  <2>3. pods' = [[pods EXCEPT ![p].phase = ph] EXCEPT ![p].addressed = a]
    BY <1>5 DEF ReplacePodStatus
  <2>4. pods' = [pods EXCEPT ![p] = [[pods[p] EXCEPT !.phase = ph] EXCEPT !.addressed = a]]
    BY <2>3, ApiParts
  <2>5. pods' \in [Pod -> PodObject \cup {Absent}]
    BY <2>2, <2>4, ApiParts
  <2> QED
    BY <1>1, <2>5, ApiParts DEF ApiTypeOK
<1> QED
  BY <1>3, <1>4, <1>5

LEMMA PostTypes ==
    ASSUME ApiTypeOK, NEW r \in posts, CheckService(r) \/ CreateService(r)
    PROVE  ApiTypeOK'
<1>1. UNCHANGED <<pods, endpoints, local, deleted, missed, edits, mishaps>>
  BY DEF CheckService, CreateService
<1>2. r \in Post
  BY ApiParts
<1>3. CASE CheckService(r)
  <2>o. PICK obs \in {Without(lacking) : lacking \in SUBSET ExistingServices} :
          posts' = (posts \ {r}) \cup
               (IF obs[r.svc] # Absent THEN {[r EXCEPT !.stage = "create"]}
                ELSE IF Exhausted(NextFreeClusterIpIndex(obs)) THEN {}
                ELSE {[r EXCEPT !.stage = "create", !.vip = NextFreeClusterIpIndex(obs)]})
    BY <1>3 DEF CheckService
  <2>n. PICK n : n = NextFreeClusterIpIndex(obs)
    OBVIOUS
  <2>1. [r EXCEPT !.stage = "create"] \in Post
    BY <1>2 DEF Post
  <2>2. n \in Vip => [r EXCEPT !.stage = "create", !.vip = n] \in Post
    BY <1>2 DEF Post
  <2>t. obs \in [Service -> ServiceObject \cup {Absent}]
    BY <2>o, ApiParts DEF Without
  <2>3. ~Exhausted(n) => n \in Vip
    BY <2>n, <2>t, NextFreeIsVip
  <2>4. /\ services' = services
        /\ posts' = (posts \ {r}) \cup
             (IF obs[r.svc] # Absent THEN {[r EXCEPT !.stage = "create"]}
              ELSE IF Exhausted(n) THEN {}
              ELSE {[r EXCEPT !.stage = "create", !.vip = n]})
    BY <1>3, <2>n, <2>o DEF CheckService
  <2>5. posts' \subseteq Post
    BY <2>1, <2>2, <2>3, <2>4, ApiParts
  <2> QED
    BY <1>1, <2>4, <2>5, ApiParts DEF ApiTypeOK
<1>4. CASE CreateService(r)
  <2>1. posts' = posts \ {r}
    BY <1>4 DEF CreateService
  <2>2. r.svc \in Service /\ [vip |-> r.vip, selector |-> r.selector] \in ServiceObject
    BY <1>2 DEF Post, ServiceObject
  <2>3. services' \in [Service -> ServiceObject \cup {Absent}]
    BY <1>4, <2>2, ApiParts DEF CreateService
  <2> QED
    BY <1>1, <2>1, <2>3, ApiParts DEF ApiTypeOK
<1> QED
  BY <1>3, <1>4

LEMMA PeopleTypes ==
    ASSUME ApiTypeOK, People
    PROVE  ApiTypeOK'
  BY ApplyServiceTypes, DeleteServiceTypes, PodTypes, PostTypes DEF People

(* The controllers' store lags and catches up.                             *)
LEMMA LagTypes ==
    ASSUME ApiTypeOK, FallsBehind \/ CatchesUp
    PROVE  ApiTypeOK'
<1>1. UNCHANGED <<services, pods, endpoints, posts, edits, missed>>
  BY DEF FallsBehind, CatchesUp
<1>2. CASE FallsBehind
  <2>1. local' \in Replica /\ mishaps' \in 0..MaxMishaps /\ deleted' = deleted
    BY <1>2, ShownParts, Counters DEF FallsBehind
  <2> QED
    BY <1>1, <2>1, ApiParts DEF ApiTypeOK
<1>3. CASE CatchesUp
  <2>1. local.events \subseteq Service
    BY <1>3, ApiParts DEF CatchesUp, Replica
  <2>2. local' = Absent /\ deleted' \subseteq Service /\ mishaps' = mishaps
    BY <1>3, <2>1, ApiParts DEF CatchesUp
  <2> QED
    BY <1>1, <2>2, ApiParts DEF ApiTypeOK
<1> QED
  BY <1>2, <1>3

(* The endpoints controller *)
EpInv == EpTypeOK /\ EpHasKey

EpPc == {"idle", "list", "write", "gone", "delete"}
LateWrites == [svc : Service, addrs : (SUBSET Pod) \cup {Absent}]

LEMMA EpParts ==
    ASSUME EpInv
    PROVE  /\ eps.pc \in EpPc /\ eps.key \in Service \cup {0}
           /\ eps.pc # "idle" => eps.key \in Service
           /\ eps.selector \in Label \cup {EmptySelector} /\ eps.addrs \in SUBSET Pod
           /\ eps.current \in BOOLEAN /\ epLate \subseteq LateWrites
  BY DEF EpInv, EpTypeOK, EpHasKey, EpPc, LateWrites

LEMMA EpStateTypes ==
    ASSUME NEW pc \in EpPc, NEW key \in Service \cup {0},
           NEW sel \in Label \cup {EmptySelector}, NEW addrs \in SUBSET Pod, NEW cur \in BOOLEAN,
           eps' = [pc |-> pc, key |-> key, selector |-> sel, addrs |-> addrs, current |-> cur],
           pc # "idle" => key \in Service,
           epLate' \subseteq LateWrites
    PROVE  EpInv'
  BY DEF EpInv, EpTypeOK, EpHasKey, EpPc, LateWrites

LEMMA IdleTypes ==
    ASSUME eps' = EpIdle, epLate' \subseteq LateWrites
    PROVE  EpInv'
<1>1. eps' = [pc |-> "idle", key |-> 0, selector |-> EmptySelector, addrs |-> {},
              current |-> FALSE]
  BY DEF EpIdle
<1> QED
  BY <1>1, EpStateTypes DEF EpPc

LEMMA StoreTypes ==
    ASSUME ApiTypeOK, EpInv, NEW s \in Service, NEW addrs \in (SUBSET Pod) \cup {Absent},
           StoreEndpoints(s, addrs)
    PROVE  /\ endpoints' \in [Service -> (SUBSET Pod) \cup {Absent}]
           /\ local' \in Replica \cup {Absent} /\ epLate' \subseteq LateWrites
<1>1. endpoints' = [endpoints EXCEPT ![s] = addrs] /\ epLate' \subseteq epLate
  BY DEF StoreEndpoints
<1>2. local # Absent => [local EXCEPT !.outdated = @ \cup {s}] \in Replica
  BY ApiParts DEF Replica
<1>3. local' \in Replica \cup {Absent}
  BY <1>2 DEF StoreEndpoints
<1> QED
  BY <1>1, <1>3, ApiParts, EpParts

LEMMA GiveUpTypes ==
    ASSUME EpInv, NEW s \in Service, NEW addrs \in (SUBSET Pod) \cup {Absent}, NEW cur,
           GiveUp(s, addrs, cur)
    PROVE  epLate' \subseteq LateWrites
<1>1. PICK w : w = [svc |-> s, addrs |-> addrs]
  OBVIOUS
<1>2. w \in LateWrites
  BY <1>1 DEF LateWrites
<1>3. epLate' = epLate \/ epLate' = epLate \cup {w}
  BY <1>1 DEF GiveUp
<1> QED
  BY <1>2, <1>3, EpParts

LEMMA TakeKeyTypes ==
    ASSUME ApiTypeOK, EpInv, NEW s \in Service, TakeKey(s)
    PROVE  ApiTypeOK' /\ EpInv'
<1>1. deleted' \subseteq Service /\ UNCHANGED <<apiVars, epLate, missed, mishaps>>
  BY ApiParts DEF TakeKey
<1>o. PICK obs : obs = Shown.services
  OBVIOUS
<1>2. epLate' \subseteq LateWrites
  BY <1>1, EpParts
<1>3. CASE obs[s] = Absent
  <2>1. eps' = [EpIdle EXCEPT !.pc = "gone", !.key = s]
    BY <1>3, <1>o DEF TakeKey
  <2>2. eps' = [pc |-> "gone", key |-> s, selector |-> EmptySelector, addrs |-> {},
                current |-> FALSE]
    BY <2>1 DEF EpIdle
  <2>3. EpInv'
    BY <1>2, <2>2, EpStateTypes DEF EpPc
  <2> QED
    BY <1>1, <2>3, ApiParts DEF ApiTypeOK, apiVars
<1>4. CASE obs[s] # Absent
  <2>1. PICK sel : sel = obs[s].selector
    OBVIOUS
  <2>2. eps' = [EpIdle EXCEPT !.pc = "list", !.key = s, !.selector = sel]
    BY <1>4, <1>o, <2>1 DEF TakeKey
  <2>3. obs[s] \in ServiceObject
    BY <1>4, <1>o, ShownParts
  <2>4. sel \in Label \cup {EmptySelector}
    BY <2>1, <2>3 DEF ServiceObject
  <2>5. eps' = [pc |-> "list", key |-> s, selector |-> sel, addrs |-> {}, current |-> FALSE]
    BY <2>2 DEF EpIdle
  <2>6. EpInv'
    BY <1>2, <2>4, <2>5, EpStateTypes DEF EpPc
  <2> QED
    BY <1>1, <2>6, ApiParts DEF ApiTypeOK, apiVars
<1> QED
  BY <1>3, <1>4

LEMMA GetGoneTypes ==
    ASSUME ApiTypeOK, EpInv, GetGone
    PROVE  ApiTypeOK' /\ EpInv'
<1>1. eps.pc = "gone" /\ UNCHANGED <<apiVars, epLate, deleted, mishaps>>
  BY DEF GetGone
<1>2. eps.key \in Service /\ epLate' \subseteq LateWrites
  BY <1>1, EpParts
<1>3. missed' \subseteq Service
  BY <1>2, ApiParts DEF GetGone
<1>4. PICK cur \in BOOLEAN : cur = IsCurrent(eps.key)
  BY DEF IsCurrent
<1>5. eps' = EpIdle \/ eps' = [eps EXCEPT !.pc = "delete", !.current = cur]
  BY <1>4 DEF GetGone
<1>6. CASE eps' = EpIdle
  BY <1>1, <1>2, <1>3, <1>6, IdleTypes, ApiParts DEF ApiTypeOK, apiVars
<1>7. CASE eps' = [eps EXCEPT !.pc = "delete", !.current = cur]
  <2>1. /\ eps' \in [pc : EpPc, key : Service \cup {0}, selector : Label \cup {EmptySelector},
                     addrs : SUBSET Pod, current : BOOLEAN]
        /\ eps'.key = eps.key
    BY <1>7 DEF EpInv, EpTypeOK, EpPc
  <2>2. EpInv'
    BY <1>2, <2>1 DEF EpInv, EpTypeOK, EpHasKey, EpPc, LateWrites
  <2> QED
    BY <1>1, <1>3, <2>2, ApiParts DEF ApiTypeOK, apiVars
<1> QED
  BY <1>5, <1>6, <1>7

LEMMA DeleteEndpointsTypes ==
    ASSUME ApiTypeOK, EpInv, DeleteEndpoints
    PROVE  ApiTypeOK' /\ EpInv'
<1>1. /\ eps.pc = "delete" /\ eps' = EpIdle /\ DeleteGone
      /\ UNCHANGED <<services, pods, posts, edits, deleted>>
  BY DEF DeleteEndpoints
<1>2. eps.key \in Service
  BY <1>1, EpParts
<1>3. CASE StoreEndpoints(eps.key, Absent) /\ UNCHANGED <<missed, mishaps>>
  BY <1>1, <1>2, <1>3, StoreTypes, IdleTypes, ApiParts DEF ApiTypeOK
<1>4. CASE UNCHANGED <<endpoints, local, epLate, missed, mishaps>>
  BY <1>1, <1>4, IdleTypes, EpParts, ApiParts DEF ApiTypeOK
<1>5. CASE /\ Mishap /\ GiveUp(eps.key, Absent, eps.current)
           /\ missed' = missed \cup {eps.key} /\ UNCHANGED <<endpoints, local>>
  <2>1. epLate' \subseteq LateWrites
    BY <1>2, <1>5, GiveUpTypes
  <2>2. mishaps' \in 0..MaxMishaps
    BY <1>5, Counters
  <2>3. missed' \subseteq Service
    BY <1>2, <1>5, ApiParts
  <2> QED
    BY <1>1, <1>5, <2>1, <2>2, <2>3, IdleTypes, ApiParts DEF ApiTypeOK
<1> QED
  BY <1>1, <1>3, <1>4, <1>5 DEF DeleteGone

LEMMA EpListPodsTypes ==
    ASSUME ApiTypeOK, EpInv, ListPods
    PROVE  ApiTypeOK' /\ EpInv'
<1>1. eps.pc = "list" /\ UNCHANGED <<apiVars, epLate, deleted, missed, mishaps>>
  BY DEF ListPods
<1>2. PICK addrs : addrs = Backends(Shown.pods, eps.selector)
  OBVIOUS
<1>3. addrs \in SUBSET Pod
  BY <1>2 DEF Backends
<1>4. eps' = [eps EXCEPT !.pc = "write", !.selector = EmptySelector, !.addrs = addrs]
  BY <1>2 DEF ListPods
<1>5. /\ eps' \in [pc : EpPc, key : Service \cup {0}, selector : Label \cup {EmptySelector},
                   addrs : SUBSET Pod, current : BOOLEAN]
      /\ eps'.key = eps.key
  BY <1>3, <1>4 DEF EpInv, EpTypeOK, EpPc
<1>6. EpInv'
  BY <1>1, <1>5, EpParts DEF EpInv, EpTypeOK, EpHasKey, EpPc, LateWrites
<1> QED
  BY <1>1, <1>6, ApiParts DEF ApiTypeOK, apiVars

(* The key under work is a service.                                        *)
LEMMA UnlistedTypes ==
    ASSUME EpInv
    PROVE  Unlisted \subseteq Service
  BY EpParts DEF Unlisted

LEMMA WriteEndpointsTypes ==
    ASSUME ApiTypeOK, EpInv, WriteEndpoints
    PROVE  ApiTypeOK' /\ EpInv'
<1>1. eps.pc = "write" /\ eps' = EpIdle /\ UNCHANGED <<services, pods, posts, edits, missed, mishaps>>
  BY DEF WriteEndpoints
<1>2. eps.key \in Service /\ eps.addrs \in SUBSET Pod
  BY <1>1, EpParts
<1>3. CASE StoreEndpoints(eps.key, eps.addrs) /\ UNCHANGED deleted
  BY <1>1, <1>2, <1>3, StoreTypes, IdleTypes, ApiParts DEF ApiTypeOK
<1>4. CASE UNCHANGED <<endpoints, local, epLate>> /\ deleted' \subseteq deleted \cup Unlisted
  <2>1. deleted' \subseteq Service
    BY <1>4, UnlistedTypes, ApiParts
  <2> QED
    BY <1>1, <1>4, <2>1, IdleTypes, EpParts, ApiParts DEF ApiTypeOK
<1>5. \/ StoreEndpoints(eps.key, eps.addrs) /\ UNCHANGED deleted
      \/ UNCHANGED <<endpoints, local, epLate>> /\ deleted' \subseteq deleted \cup Unlisted
  BY DEF WriteEndpoints
<1> QED
  BY <1>3, <1>4, <1>5

LEMMA EpReconcileTypes ==
    ASSUME ApiTypeOK, EpInv, EpReconcile
    PROVE  ApiTypeOK' /\ EpInv'
  BY GetGoneTypes, DeleteEndpointsTypes, EpListPodsTypes, WriteEndpointsTypes DEF EpReconcile

LEMMA EpRequestFailsTypes ==
    ASSUME ApiTypeOK, EpInv, EpRequestFails
    PROVE  ApiTypeOK' /\ EpInv'
<1>1. /\ eps.pc # "idle" /\ eps' = EpIdle /\ mishaps' \in 0..MaxMishaps
      /\ UNCHANGED <<apiVars, missed>>
  BY Counters DEF EpRequestFails
<1>2. eps.key \in Service /\ eps.addrs \in SUBSET Pod
  BY <1>1, EpParts
<1>3. deleted' \subseteq Service
  BY UnlistedTypes, ApiParts DEF EpRequestFails
<1>4. PICK cur : GiveUp(eps.key, eps.addrs, cur)
  BY DEF EpRequestFails
<1>5. epLate' \subseteq LateWrites
  BY <1>2, <1>4, GiveUpTypes
<1> QED
  BY <1>1, <1>3, <1>5, IdleTypes, ApiParts DEF ApiTypeOK, apiVars

LEMMA LateWriteTypes ==
    ASSUME ApiTypeOK, EpInv, NEW w \in epLate, LateWrite(w)
    PROVE  ApiTypeOK' /\ EpInv'
<1>1. w.svc \in Service /\ w.addrs \in (SUBSET Pod) \cup {Absent}
  BY EpParts DEF LateWrites
<1>2. /\ UNCHANGED <<services, pods, posts, edits, deleted, mishaps>>
      /\ StoreEndpoints(w.svc, w.addrs)
  BY DEF LateWrite
<1>3. missed' \subseteq Service
  BY <1>1, ApiParts DEF LateWrite
<1>4. /\ endpoints' \in [Service -> (SUBSET Pod) \cup {Absent}]
      /\ local' \in Replica \cup {Absent} /\ epLate' \subseteq LateWrites
  BY <1>1, <1>2, StoreTypes
<1>5. /\ eps' \in [pc : EpPc, key : Service \cup {0}, selector : Label \cup {EmptySelector},
                   addrs : SUBSET Pod, current : BOOLEAN]
      /\ eps'.key = eps.key /\ eps'.pc = eps.pc
  BY DEF LateWrite, EpInv, EpTypeOK, EpPc
<1>6. EpInv'
  BY <1>4, <1>5, EpParts DEF EpInv, EpTypeOK, EpHasKey, EpPc, LateWrites
<1> QED
  BY <1>2, <1>3, <1>4, <1>6, ApiParts DEF ApiTypeOK

LEMMA EpRestartTypes ==
    ASSUME ApiTypeOK, EpInv, EpRestart
    PROVE  ApiTypeOK' /\ EpInv'
<1>1. /\ eps' = EpIdle /\ deleted' = {} /\ mishaps' \in 0..MaxMishaps
      /\ UNCHANGED <<apiVars, epLate>>
  BY Counters DEF EpRestart
<1>2. missed' \subseteq Service
  BY ApiParts, UnlistedTypes DEF EpRestart
<1> QED
  BY <1>1, <1>2, IdleTypes, ApiParts, EpParts DEF ApiTypeOK, apiVars

(* kube-proxy *)
ProxyInv == ProxyTypeOK /\ PlanApplied

LEMMA ProxyParts ==
    ASSUME ProxyInv
    PROVE  /\ proxy.pc \in {"start", "idle", "list", "apply"}
           /\ proxy.listed \in [Service -> Vip \cup {NoVip}] /\ proxy.plan \subseteq Instruction
           /\ nat.base \in {"none", "chains", "hooked"} /\ nat.top \in Seq(Route)
           /\ nat.svc \in [Service -> Seq(Jump)] /\ nat.sep \in [Service -> SUBSET Pod]
  BY DEF ProxyInv, ProxyTypeOK

(* Between two syncs *)
LEMMA RestingTypes ==
    ASSUME ProxyInv, proxy' \in {ProxyIdle, ProxyStart},
           nat' \in [base : {"none", "chains", "hooked"}, top : Seq(Route),
                     svc : [Service -> Seq(Jump)], sep : [Service -> SUBSET Pod]]
    PROVE  ProxyInv'
<1>1. PICK none : none = [s \in Service |-> NoVip]
  OBVIOUS
<1>2. none \in [Service -> Vip \cup {NoVip}]
  BY <1>1
<1>3. ProxyIdle = [pc |-> "idle", listed |-> none, plan |-> {}]
  BY <1>1 DEF ProxyIdle
<1>4. /\ ProxyIdle \in [pc : {"start", "idle", "list", "apply"},
                        listed : [Service -> Vip \cup {NoVip}], plan : SUBSET Instruction]
      /\ ProxyIdle.plan = {}
  BY <1>2, <1>3
<1>5. /\ ProxyStart \in [pc : {"start", "idle", "list", "apply"},
                         listed : [Service -> Vip \cup {NoVip}], plan : SUBSET Instruction]
      /\ ProxyStart.plan = {}
  BY <1>4 DEF ProxyStart
<1> QED
  BY <1>4, <1>5 DEF ProxyInv, ProxyTypeOK, PlanApplied, Plan

LEMMA InstructionTypes ==
    ASSUME NEW s \in Service
    PROVE  /\ FlushServices \in Instruction /\ FlushSvc(s) \in Instruction
           /\ \A vip \in Vip : Link(s, vip) \in Instruction
           /\ \A ip \in Pod : /\ FlushSep(s, ip) \in Instruction /\ AddSep(s, ip) \in Instruction
                              /\ AddRandom(s, ip) \in Instruction /\ AddRest(s, ip) \in Instruction
<1> DEFINE Op == {"-F top", "-F svc", "-F sep", "-A sep", "-A svc random", "-A svc rest", "-A top"}
<1>1. ASSUME NEW op \in Op, NEW t \in Service \cup {0}, NEW pos \in 0..(3 * NumPods + 1),
             NEW arg \in Pod \cup Vip \cup {0}
      PROVE  Command(op, t, pos, arg) \in Instruction
  BY DEF Command, Instruction
<1>2. 0 \in 0..(3 * NumPods + 1) /\ 3 * NumPods + 1 \in 0..(3 * NumPods + 1)
  BY Bounds
<1>3. ASSUME NEW ip \in Pod
      PROVE  /\ 3 * ip - 2 \in 0..(3 * NumPods + 1) /\ 3 * ip - 1 \in 0..(3 * NumPods + 1)
             /\ 3 * ip \in 0..(3 * NumPods + 1)
  BY Bounds DEF Pod
<1>4. FlushServices \in Instruction /\ FlushSvc(s) \in Instruction
  BY <1>1, <1>2 DEF FlushServices, FlushSvc
<1>5. ASSUME NEW vip \in Vip PROVE Link(s, vip) \in Instruction
  BY <1>1, <1>2 DEF Link
<1>6. ASSUME NEW ip \in Pod
      PROVE  /\ FlushSep(s, ip) \in Instruction /\ AddSep(s, ip) \in Instruction
             /\ AddRandom(s, ip) \in Instruction /\ AddRest(s, ip) \in Instruction
  <2>1. /\ 3 * ip - 2 \in 0..(3 * NumPods + 1) /\ 3 * ip - 1 \in 0..(3 * NumPods + 1)
        /\ 3 * ip \in 0..(3 * NumPods + 1)
    BY <1>3
  <2> QED
    BY <1>1, <2>1 DEF FlushSep, AddSep, AddRandom, AddRest
<1> QED
  BY <1>4, <1>5, <1>6

LEMMA FlushServicesType == FlushServices \in Instruction
<1>1. 0 \in 0..(3 * NumPods + 1)
  BY Bounds
<1> QED
  BY <1>1 DEF FlushServices, Command, Instruction

LEMMA ListServicesTypes ==
    ASSUME ApiTypeOK, ProxyInv, ListServices
    PROVE  ProxyInv' /\ Plan' = {}
<1>1. PICK v : v = Vips(Shown.services)
  OBVIOUS
<1>2. v \in [Service -> Vip \cup {NoVip}]
  <2>o. PICK obs : obs = Shown.services
    OBVIOUS
  <2>1. ASSUME NEW s \in Service, obs[s] # Absent PROVE obs[s].vip \in Vip \cup {NoVip}
    <3>1. obs[s] \in ServiceObject
      BY <2>1, <2>o, ShownParts
    <3> QED
      BY <3>1 DEF ServiceObject
  <2> QED
    BY <1>1, <2>o, <2>1 DEF Vips
<1>3. proxy' = [ProxyIdle EXCEPT !.pc = "list", !.listed = v] /\ nat' = nat
  BY <1>1 DEF ListServices
<1>4. proxy' = [pc |-> "list", listed |-> v, plan |-> {}]
  BY <1>3 DEF ProxyIdle
<1>5. /\ proxy' \in [pc : {"start", "idle", "list", "apply"},
                    listed : [Service -> Vip \cup {NoVip}], plan : SUBSET Instruction]
      /\ proxy'.plan = {}
  BY <1>2, <1>4
<1> QED
  BY <1>3, <1>5 DEF ProxyInv, ProxyTypeOK, PlanApplied, Plan

LEMMA ListEndpointsTypes ==
    ASSUME ProxyInv, ListEndpoints, PlanTyped'
    PROVE  ProxyInv'
<1>1. PICK none : none = [s \in Service |-> NoVip]
  OBVIOUS
<1>2. none \in [Service -> Vip \cup {NoVip}]
  BY <1>1
<1>3. PICK P : P = PlanRules(proxy.listed, Shown.endpoints)
  OBVIOUS
<1>4. proxy' = [ProxyIdle EXCEPT !.pc = "apply", !.plan = P] /\ nat' = nat
  BY <1>3 DEF ListEndpoints
<1>5. proxy' = [pc |-> "apply", listed |-> none, plan |-> P]
  BY <1>1, <1>4 DEF ProxyIdle
<1>6. Plan' \subseteq Instruction
  BY InstructionTypes, FlushServicesType DEF PlanTyped
<1>7. P \subseteq Instruction
  BY <1>5, <1>6 DEF Plan
<1> QED
  BY <1>2, <1>4, <1>5, <1>7 DEF ProxyInv, ProxyTypeOK, PlanApplied, Plan

(* What a command makes of the nat table.                                  *)
LEMMA ExecuteTypes ==
    ASSUME ProxyTypeOK, NEW c, nat' = Execute(c),
           \/ c = FlushServices
           \/ \E s \in Service : c = FlushSvc(s)
           \/ \E s \in Service, ip \in Pod : c = FlushSep(s, ip)
           \/ \E s \in Service, ip \in Pod : c = AddSep(s, ip)
           \/ \E s \in Service, ip \in Pod : c = AddRandom(s, ip)
           \/ \E s \in Service, ip \in Pod : c = AddRest(s, ip)
           \/ \E s \in Service, vip \in Vip : c = Link(s, vip)
    PROVE  nat' \in [base : {"none", "chains", "hooked"}, top : Seq(Route),
                     svc : [Service -> Seq(Jump)], sep : [Service -> SUBSET Pod]]
<1>0. /\ nat \in [base : {"none", "chains", "hooked"}, top : Seq(Route),
                  svc : [Service -> Seq(Jump)], sep : [Service -> SUBSET Pod]]
      /\ nat.top \in Seq(Route) /\ nat.svc \in [Service -> Seq(Jump)]
      /\ nat.sep \in [Service -> SUBSET Pod]
  BY DEF ProxyTypeOK
<1>t. ASSUME NEW top \in Seq(Route), nat' = [nat EXCEPT !.top = top]
      PROVE  nat' \in [base : {"none", "chains", "hooked"}, top : Seq(Route),
                       svc : [Service -> Seq(Jump)], sep : [Service -> SUBSET Pod]]
  BY <1>0, <1>t
<1>v. ASSUME NEW s \in Service, NEW chain \in Seq(Jump), nat' = [nat EXCEPT !.svc[s] = chain]
      PROVE  nat' \in [base : {"none", "chains", "hooked"}, top : Seq(Route),
                       svc : [Service -> Seq(Jump)], sep : [Service -> SUBSET Pod]]
  BY <1>0, <1>v
<1>p. ASSUME NEW s \in Service, NEW sep \in SUBSET Pod, nat' = [nat EXCEPT !.sep[s] = sep]
      PROVE  nat' \in [base : {"none", "chains", "hooked"}, top : Seq(Route),
                       svc : [Service -> Seq(Jump)], sep : [Service -> SUBSET Pod]]
  BY <1>0, <1>p
<1>e. <<>> \in Seq(Route) /\ <<>> \in Seq(Jump)
  OBVIOUS
<1> DEFINE Goal == nat' \in [base : {"none", "chains", "hooked"}, top : Seq(Route),
                             svc : [Service -> Seq(Jump)], sep : [Service -> SUBSET Pod]]
<1>1. CASE c = FlushServices
  <2>1. nat' = [nat EXCEPT !.top = <<>>]
    BY <1>1, ExecuteIs, FlushServicesFields
  <2> QED
    BY <1>e, <1>t, <2>1
<1>2. ASSUME NEW s \in Service, c = FlushSvc(s) PROVE Goal
  <2>1. c.op = "-F svc" /\ c.svc = s
    BY <1>2, FlushSvcFields
  <2>2. nat' = [nat EXCEPT !.svc[s] = <<>>]
    BY <2>1, ExecuteIs
  <2> QED
    BY <1>e, <1>v, <2>2
<1>3. ASSUME NEW s \in Service, NEW ip \in Pod, c = FlushSep(s, ip) PROVE Goal
  <2>1. c.op = "-F sep" /\ c.svc = s /\ c.arg = ip
    BY <1>3 DEF FlushSep, Command
  <2>2. PICK S : S = nat.sep[s] \ {ip}
    OBVIOUS
  <2>3. nat' = [nat EXCEPT !.sep[s] = S]
    BY <2>1, <2>2, ExecuteIs
  <2>4. S \in SUBSET Pod
    BY <1>0, <2>2
  <2> QED
    BY <1>p, <2>3, <2>4
<1>4. ASSUME NEW s \in Service, NEW ip \in Pod, c = AddSep(s, ip) PROVE Goal
  <2>1. c.op = "-A sep" /\ c.svc = s /\ c.arg = ip
    BY <1>4 DEF AddSep, Command
  <2>2. PICK S : S = nat.sep[s] \cup {ip}
    OBVIOUS
  <2>3. nat' = [nat EXCEPT !.sep[s] = S]
    BY <2>1, <2>2, ExecuteIs
  <2>4. S \in SUBSET Pod
    BY <1>0, <2>2
  <2> QED
    BY <1>p, <2>3, <2>4
<1>5. ASSUME NEW s \in Service, NEW ip \in Pod, c = AddRandom(s, ip) \/ c = AddRest(s, ip) PROVE Goal
  <2>1. c.op \in {"-A svc random", "-A svc rest"} /\ c.svc = s /\ c.arg = ip
    <3>1. CASE c = AddRandom(s, ip)
      BY <3>1 DEF AddRandom, Command
    <3>2. CASE c = AddRest(s, ip)
      BY <3>2 DEF AddRest, Command
    <3> QED
      BY <1>5, <3>1, <3>2
  <2>2. PICK j : j = [ip |-> c.arg, by |-> c.op]
    OBVIOUS
  <2>3. j \in Jump
    BY <2>1, <2>2 DEF Jump
  <2>4. PICK chain : chain = Append(nat.svc[s], j)
    OBVIOUS
  <2>5. nat' = [nat EXCEPT !.svc[s] = chain]
    <3>1. nat' = [nat EXCEPT !.svc[c.svc] = Append(@, [ip |-> c.arg, by |-> c.op])]
      BY <2>1, ExecuteIs
    <3> QED
      BY <2>1, <2>2, <2>4, <3>1
  <2>6. chain \in Seq(Jump)
    BY <1>0, <2>3, <2>4
  <2> QED
    BY <1>v, <2>5, <2>6
<1>6. ASSUME NEW s \in Service, NEW vip \in Vip, c = Link(s, vip) PROVE Goal
  <2>1. c.op = "-A top" /\ c.svc = s /\ c.arg = vip
    BY <1>6 DEF Link, Command
  <2>2. PICK e : e = [vip |-> c.arg, svc |-> c.svc]
    OBVIOUS
  <2>3. e \in Route
    BY <2>1, <2>2 DEF Route
  <2>4. PICK top : top = Append(nat.top, e)
    OBVIOUS
  <2>5. nat' = [nat EXCEPT !.top = top]
    <3>1. nat' = [nat EXCEPT !.top = Append(@, [vip |-> c.arg, svc |-> c.svc])]
      BY <2>1, ExecuteIs
    <3> QED
      BY <2>2, <2>4, <3>1
  <2>6. top \in Seq(Route)
    BY <1>0, <2>3, <2>4
  <2> QED
    BY <1>t, <2>5, <2>6
<1> HIDE DEF Goal
<1>7. Goal
  BY <1>1, <1>2, <1>3, <1>4, <1>5, <1>6 DEF Goal
<1> QED
  BY <1>7 DEF Goal

LEMMA RunCommandTypes ==
    ASSUME ProxyInv, PlanInv, RunCommand
    PROVE  ProxyInv'
<1>0. /\ nat \in [base : {"none", "chains", "hooked"}, top : Seq(Route),
                  svc : [Service -> Seq(Jump)], sep : [Service -> SUBSET Pod]]
      /\ ProxyTypeOK /\ proxy.pc = "apply"
  BY DEF ProxyInv, ProxyTypeOK, RunCommand
<1>1. PICK c \in proxy.plan :
         /\ \A d \in proxy.plan \ {c} : Before(c, d)
         /\ IF nat.base = "none" THEN proxy' = ProxyIdle /\ UNCHANGED nat
            ELSE /\ nat' = Execute(c)
                 /\ proxy' = IF proxy.plan = {c} THEN ProxyIdle ELSE [proxy EXCEPT !.plan = @ \ {c}]
  BY DEF RunCommand
<1>2. CASE nat.base = "none"
  <2>1. proxy' = ProxyIdle /\ nat' = nat
    BY <1>1, <1>2
  <2> QED
    BY <1>0, <2>1, RestingTypes
<1>3. CASE nat.base # "none"
  <2>1. nat' = Execute(c)
    BY <1>1, <1>3
  <2>2. \/ c = FlushServices
        \/ \E s \in Service : c = FlushSvc(s)
        \/ \E s \in Service, ip \in Pod : c = FlushSep(s, ip)
        \/ \E s \in Service, ip \in Pod : c = AddSep(s, ip)
        \/ \E s \in Service, ip \in Pod : c = AddRandom(s, ip)
        \/ \E s \in Service, ip \in Pod : c = AddRest(s, ip)
        \/ \E s \in Service, vip \in Vip : c = Link(s, vip)
    BY DEF PlanInv, PlanTyped, Plan
  <2>3. nat' \in [base : {"none", "chains", "hooked"}, top : Seq(Route),
                  svc : [Service -> Seq(Jump)], sep : [Service -> SUBSET Pod]]
    BY <1>0, <2>1, <2>2, ExecuteTypes
  <2>4. CASE proxy.plan = {c}
    <3>1. proxy' = ProxyIdle
      BY <1>1, <1>3, <2>4
    <3> QED
      BY <2>3, <3>1, RestingTypes
  <2>5. CASE proxy.plan # {c}
    <3>1. proxy' = [proxy EXCEPT !.plan = @ \ {c}]
      BY <1>1, <1>3, <2>5
    <3>2. proxy' \in [pc : {"start", "idle", "list", "apply"},
                      listed : [Service -> Vip \cup {NoVip}], plan : SUBSET Instruction]
      BY <3>1 DEF ProxyInv, ProxyTypeOK
    <3>3. proxy'.pc = "apply"
      BY <1>0, <3>1 DEF ProxyTypeOK
    <3> QED
      BY <2>3, <3>2, <3>3 DEF ProxyInv, ProxyTypeOK, PlanApplied, Plan
  <2> QED
    BY <2>4, <2>5
<1> QED
  BY <1>2, <1>3

LEMMA EnsureBaseChainsKeeps ==
    ASSUME ApiTypeOK, ProxyInv, PlanInv, EnsureBaseChains
    PROVE  ApiTypeOK' /\ ProxyInv' /\ PlanInv'
<1>1. proxy' = ProxyIdle /\ UNCHANGED <<apiVars, deleted, missed>> /\ mishaps' \in 0..MaxMishaps
  BY Counters, ApiParts DEF EnsureBaseChains
<1>2. PICK b \in {"none", "chains", "hooked"} : nat' = [nat EXCEPT !.base = b]
  BY ProxyParts DEF EnsureBaseChains
<1>3. nat' \in [base : {"none", "chains", "hooked"}, top : Seq(Route),
                svc : [Service -> Seq(Jump)], sep : [Service -> SUBSET Pod]]
  BY <1>2 DEF ProxyInv, ProxyTypeOK
<1>4. nat'.top = nat.top /\ nat'.svc = nat.svc /\ nat'.sep = nat.sep
  BY <1>2 DEF ProxyInv, ProxyTypeOK
<1>5. Plan' = {}
  BY <1>1 DEF Plan, ProxyIdle
<1> QED
  BY <1>1, <1>3, <1>4, <1>5, RestingTypes, PlanIsDropped, ApiParts DEF ApiTypeOK, apiVars

(* SyncFails and ProxyRestart *)
LEMMA SyncStopsKeeps ==
    ASSUME ApiTypeOK, ProxyInv, PlanInv, SyncFails \/ ProxyRestart
    PROVE  ApiTypeOK' /\ ProxyInv' /\ PlanInv'
<1>1. /\ proxy' \in {ProxyIdle, ProxyStart} /\ UNCHANGED <<apiVars, nat, deleted, missed>>
      /\ mishaps' \in 0..MaxMishaps
  BY Counters DEF SyncFails, ProxyRestart
<1>2. Plan' = {}
  BY <1>1 DEF Plan, ProxyIdle, ProxyStart
<1>3. nat' \in [base : {"none", "chains", "hooked"}, top : Seq(Route),
                svc : [Service -> Seq(Jump)], sep : [Service -> SUBSET Pod]]
  BY <1>1 DEF ProxyInv, ProxyTypeOK
<1> QED
  BY <1>1, <1>2, <1>3, RestingTypes, PlanIsDropped, ApiParts DEF ApiTypeOK, apiVars

LEMMA ProxySyncKeeps ==
    ASSUME ApiTypeOK, ProxyInv, PlanInv, ProxySync
    PROVE  ApiTypeOK' /\ ProxyInv' /\ PlanInv'
<1>1. CASE EnsureBaseChains
  BY <1>1, EnsureBaseChainsKeeps
<1>2. CASE ListServices \/ ListEndpoints \/ RunCommand
  <2>1. ApiTypeOK'
    BY <1>2, ApiParts DEF ListServices, ListEndpoints, RunCommand, ApiTypeOK, apiVars
  <2>2. CASE ListServices
    <3>1. ProxyInv' /\ Plan' = {} /\ nat' = nat
      BY <2>2, ListServicesTypes DEF ListServices
    <3> QED
      BY <2>1, <3>1, PlanIsDropped
  <2>3. CASE ListEndpoints
    <3>1. PlanInv'
      BY <2>3, ListEndpointsPlans DEF ProxyInv
    <3>2. PlanTyped'
      BY <3>1 DEF PlanInv
    <3> QED
      BY <2>1, <2>3, <3>1, <3>2, ListEndpointsTypes
  <2>4. CASE RunCommand
    BY <2>1, <2>4, RunCommandKeeps, RunCommandTypes DEF ProxyInv
  <2> QED
    BY <1>2, <2>2, <2>3, <2>4
<1> QED
  BY <1>1, <1>2 DEF ProxySync

-----------------------------------------------------------------------------
(* The invariant *)

LEMMA InvParts == Inv <=> ApiTypeOK /\ EpInv /\ ProxyInv /\ PlanInv
  BY DEF Inv, TypeOK, EpInv, ProxyInv

LEMMA ApiInitTypes ==
    ASSUME ApiInit
    PROVE  ApiTypeOK
<1>1. PICK n \in {0} \cup {s \in Service : s - 1 \in Vip} :
        services = [s \in Service |-> IF s <= n THEN [vip |-> s - 1, selector |-> s] ELSE Absent]
  BY DEF ApiInit
<1>2. ASSUME NEW s \in Service, s <= n PROVE [vip |-> s - 1, selector |-> s] \in ServiceObject
  <2>1. s - 1 \in Vip
    BY <1>1, <1>2, Bounds DEF Service, Vip
  <2> QED
    BY <2>1 DEF ServiceObject, Label
<1>3. services \in [Service -> ServiceObject \cup {Absent}]
  BY <1>1, <1>2
<1>4. PICK m \in 0..NumPods :
        pods = [p \in Pod |-> IF p <= m THEN [label |-> 1, phase |-> "Running", addressed |-> TRUE]
                              ELSE Absent]
  BY DEF ApiInit
<1>5. [label |-> 1, phase |-> "Running", addressed |-> TRUE] \in PodObject
  <2>1. 1 \in Label
    BY Bounds DEF Label, Service
  <2> QED
    BY <2>1 DEF PodObject
<1>6. pods \in [Pod -> PodObject \cup {Absent}]
  BY <1>4, <1>5
<1>7. mishaps \in 0..MaxMishaps
  BY Bounds DEF ApiInit
<1>8. endpoints \in [Service -> (SUBSET Pod) \cup {Absent}]
  BY DEF ApiInit
<1> QED
  BY <1>3, <1>6, <1>7, <1>8 DEF ApiInit, ApiTypeOK

LEMMA InitInv == Init => Inv
<1> SUFFICES ASSUME Init PROVE Inv
  OBVIOUS
<1>1. ApiTypeOK
  BY ApiInitTypes DEF Init
<1>2. EpInv
  BY DEF Init, EpInit, EpIdle, EpInv, EpTypeOK, EpHasKey
<1>3. proxy = ProxyStart /\ nat = EmptyTable
  BY DEF Init, ProxyInit
<1>4. Plan = {}
  BY <1>3 DEF Plan, ProxyStart, ProxyIdle
<1>5. ProxyInv
  <2>1. PICK none : none = [s \in Service |-> NoVip]
    OBVIOUS
  <2>2. none \in [Service -> Vip \cup {NoVip}]
    BY <2>1
  <2>3. ProxyIdle \in [pc : {"start", "idle", "list", "apply"},
                       listed : [Service -> Vip \cup {NoVip}], plan : SUBSET Instruction]
    BY <2>1, <2>2 DEF ProxyIdle
  <2>4. proxy \in [pc : {"start", "idle", "list", "apply"},
                   listed : [Service -> Vip \cup {NoVip}], plan : SUBSET Instruction]
    BY <1>3, <2>3 DEF ProxyStart
  <2>5. <<>> \in Seq(Route) /\ <<>> \in Seq(Jump)
    OBVIOUS
  <2>6. nat \in [base : {"none", "chains", "hooked"}, top : Seq(Route),
                 svc : [Service -> Seq(Jump)], sep : [Service -> SUBSET Pod]]
    BY <1>3, <2>5 DEF EmptyTable
  <2> QED
    BY <1>4, <2>4, <2>6 DEF ProxyInv, ProxyTypeOK, PlanApplied
<1>6. Linked = {} /\ ToLink = {}
  <2>1. nat.top = <<>>
    BY <1>3 DEF EmptyTable
  <2> QED
    BY <1>4, <2>1 DEF Linked, ToLink
<1>7. PlanInv
  BY <1>4, <1>6 DEF PlanInv, PlanTyped, LinkedIsDone, SepComesBack, SepIsUnused, JumpsLead,
                    RestIsLast, RestIsThere, ChainIsSound, Whole
<1> QED
  BY <1>1, <1>2, <1>5, <1>7, InvParts

LEMMA StepInv == Inv /\ [Next]_vars => Inv'
<1> SUFFICES ASSUME ApiTypeOK, EpInv, ProxyInv, PlanInv, [Next]_vars
             PROVE  ApiTypeOK' /\ EpInv' /\ ProxyInv' /\ PlanInv'
  <2>1. Inv' <=> ApiTypeOK' /\ EpInv' /\ ProxyInv' /\ PlanInv'
    BY DEF Inv, TypeOK, EpInv, ProxyInv
  <2> QED
    BY <2>1, InvParts
<1>e. epVars' = epVars => EpInv'
  BY DEF epVars, EpInv, EpTypeOK, EpHasKey
<1>p. ASSUME proxyVars' = proxyVars PROVE ProxyInv' /\ PlanInv'
  <2>1. proxy' = proxy /\ nat' = nat
    BY <1>p DEF proxyVars
  <2>2. ProxyInv'
    BY <2>1 DEF ProxyInv, ProxyTypeOK, PlanApplied, Plan
  <2>3. Plan' = Plan /\ Linked' = Linked /\ ToLink' = ToLink
    BY <2>1 DEF Plan, Linked, ToLink
  <2>4. PlanTyped' /\ LinkedIsDone'
    BY <2>3 DEF PlanInv, PlanTyped, LinkedIsDone
  <2>5. SepComesBack' /\ SepIsUnused'
    BY <2>1, <2>3 DEF PlanInv, SepComesBack, SepIsUnused
  <2>6. JumpsLead' /\ RestIsLast'
    BY <2>1, <2>3 DEF PlanInv, JumpsLead, RestIsLast
  <2>7. RestIsThere' /\ ChainIsSound' /\ Whole'
    BY <2>1, <2>3 DEF PlanInv, RestIsThere, ChainIsSound, Whole, RestToCome, EndsInRest, JumpsHit
  <2> QED
    BY <2>2, <2>4, <2>5, <2>6, <2>7 DEF PlanInv
<1>1. CASE /\ People \/ FallsBehind \/ CatchesUp
           /\ UNCHANGED <<epVars, proxyVars>>
  BY <1>1, <1>e, <1>p, PeopleTypes, LagTypes
<1>2. CASE /\ \/ EpReconcile \/ EpRequestFails \/ EpRestart
              \/ \E s \in Service : TakeKey(s)
              \/ \E w \in epLate : LateWrite(w)
           /\ UNCHANGED proxyVars
  <2>1. ApiTypeOK' /\ EpInv'
    BY <1>2, EpReconcileTypes, EpRequestFailsTypes, EpRestartTypes, TakeKeyTypes, LateWriteTypes
  <2> QED
    BY <1>2, <1>p, <2>1
<1>3. CASE (ProxySync \/ SyncFails \/ ProxyRestart) /\ UNCHANGED epVars
  BY <1>3, <1>e, ProxySyncKeeps, SyncStopsKeeps
<1>4. CASE UNCHANGED vars
  <2>1. UNCHANGED <<apiVars, deleted, missed, mishaps, epVars, proxyVars>>
    BY <1>4 DEF vars
  <2>2. ApiTypeOK'
    BY <2>1 DEF ApiTypeOK, apiVars
  <2> QED
    BY <1>e, <1>p, <2>1, <2>2
<1> QED
  BY <1>1, <1>2, <1>3, <1>4 DEF Next

(* The plan that kube-proxy has left and the table it has made so far fit  *)
(* together in every state, for any number of services, pods and           *)
(* ClusterIPs, and whatever fails or is killed.                            *)
THEOREM Invariance == Spec => []Inv
  BY InitInv, StepInv, PTL DEF Spec

(* Every variable keeps its type.  In particular create_service gives only *)
(* ClusterIPs of the range, and a chain has only jumps to pods.            *)
THEOREM TypeCorrect == Spec => []TypeOK
<1>1. Inv => TypeOK
  BY DEF Inv
<1> QED
  BY <1>1, Invariance, PTL

(* Whatever command fails and whenever kube-proxy is killed, a ClusterIP   *)
(* that the table knows leads to a complete service.                       *)
THEOREM RoutesWhole == Spec => []RoutesAreWhole
<1>1. Inv => RoutesAreWhole
  <2> SUFFICES ASSUME Inv, NEW i \in DOMAIN nat.top
               PROVE  EndsInRest(nat.top[i].svc) /\ JumpsHit(nat.top[i].svc)
    BY DEF RoutesAreWhole, EndsInRest, JumpsHit
  <2>1. nat.top[i].svc \in Linked
    BY DEF Linked
  <2> QED
    BY <2>1 DEF Inv, PlanInv, Whole
<1> QED
  BY <1>1, Invariance, PTL
=============================================================================
