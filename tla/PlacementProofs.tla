-------------------------- MODULE PlacementProofs --------------------------
(***************************************************************************)
(* The safety properties of Placement.tla for any number of nodes, pods,   *)
(* slices, restarts and mishaps.                                           *)
(*                                                                         *)
(* The nodes' half of the state and the pods' half do not write each       *)
(* other's variables, so the inductive invariant is proved in two halves.  *)
(***************************************************************************)
EXTENDS Placement, FiniteSetTheorems, WellFoundedInduction, TLAPS

(* A set of numbers has a smallest one.                                    *)
LEMMA SmallestIsLeast ==
    ASSUME NEW S \in SUBSET Nat, S # {}
    PROVE  Smallest(S) \in S /\ \A g \in S : Smallest(S) <= g
<1>1. \E h \in S : \A g \in S : h <= g
  <2> DEFINE Less == {ss \in Nat \X Nat : ss[1] < ss[2]}
  <2>1. IsWellFoundedOn(Less, Nat)
    BY NatLessThanWellFounded, Zenon DEF OpToRel
  <2>2. PICK h \in S : \A g \in S : <<g, h>> \notin Less
    <3> HIDE DEF Less
    <3> QED
      BY <2>1, WFMin, Zenon
  <2>3. ASSUME NEW g \in S PROVE h <= g
    <3>1. ~(g < h)
      BY <2>2
    <3> QED
      BY <3>1
  <2> QED
    BY <2>3
<1> QED
  BY <1>1 DEF Smallest

-----------------------------------------------------------------------------
(* Nodes *)

NodesTyped ==
    /\ nodes \in [Node -> NodeObject \cup {Absent}]
    /\ kubelets \in [Node -> Kubelet]
    /\ regs \subseteq Registration
    /\ seen \in [Node -> SUBSET Node]
    /\ \A v \in behind : v.nodes \in [Node -> NodeObject \cup {Absent}]
    /\ ghosts \subseteq Node

(* What a registration has seen is still there, because DeleteNode forgets *)
(* it, and the index it was given is above the slices it saw.              *)
RegsAreAbove ==
    \A r \in regs : /\ r.seen \subseteq Registered
                    /\ \A m \in r.seen : nodes[m].cidr # NoCidr /\ r.idx # NoCidr
                                            => nodes[m].cidr < r.idx

(* The same of the nodes that came from them.                              *)
NodesAreAbove ==
    \A n \in Node : /\ seen[n] \subseteq Registered
                    /\ \A m \in seen[n] : HasSlice(m) /\ HasSlice(n)
                                            => nodes[m].cidr < nodes[n].cidr

(* A kubelet's slice is the one that its Node has.                         *)
KubeletsAgree ==
    \A n \in Node \ ghosts : kubelets[n].slice # NoCidr
                      => n \in Registered /\ nodes[n].cidr = kubelets[n].slice

(* A lagging replica shows no slice that the node has lost.                *)
ViewsAgree ==
    \A v \in behind : \A n \in Node \ ghosts :
        v.nodes[n] # Absent => n \in Registered /\ nodes[n].cidr = v.nodes[n].cidr

NodeInv == NodesTyped /\ RegsAreAbove /\ NodesAreAbove /\ KubeletsAgree /\ ViewsAgree

(* next_free_node_cidr_index returns an index above every one in use.      *)
LEMMA NextFreeIsAbove ==
    ASSUME NEW obs \in [Node -> NodeObject \cup {Absent}]
    PROVE  /\ NextFreeNodeCidrIndex(obs) \in 0..MaxIndex + 1
           /\ \A n \in Listed(obs) : obs[n].cidr # NoCidr
                                      => obs[n].cidr < NextFreeNodeCidrIndex(obs)
<1> DEFINE S == {i \in 0..MaxIndex + 1 : \A u \in Used(obs) : u < i}
<1>1. MaxIndex \in Nat
  BY PlacementAssumption
<1>2. \A u \in Used(obs) : u \in 0..MaxIndex
  BY DEF Used, NodeObject, Index
<1>3. S \in SUBSET Nat /\ S # {}
  <2>1. MaxIndex + 1 \in S
    BY <1>1, <1>2
  <2> QED
    BY <2>1, <1>1
<1>4. Smallest(S) \in S
  <2> HIDE DEF S
  <2> QED
    BY <1>3, SmallestIsLeast
<1>5. NextFreeNodeCidrIndex(obs) = Smallest(S)
  BY DEF NextFreeNodeCidrIndex
<1>6. NextFreeNodeCidrIndex(obs) \in S
  BY <1>4, <1>5, Zenon
<1>7. \A n \in Listed(obs) : obs[n].cidr # NoCidr => obs[n].cidr \in Used(obs)
  BY DEF Listed, Used
<1> QED
  BY <1>6, <1>7

(* What a read shows is nodes, whichever replica answers, and a node in it *)
(* that is no ghost has the slice it shows.                                *)
LEMMA ViewsAreTrue ==
    ASSUME NodeInv, NEW v \in Views
    PROVE  /\ v.nodes \in [Node -> NodeObject \cup {Absent}]
           /\ \A n \in Node \ ghosts :
                v.nodes[n] # Absent => n \in Registered /\ nodes[n].cidr = v.nodes[n].cidr
<1>1. CASE v \in behind
  BY <1>1 DEF NodeInv, NodesTyped, ViewsAgree
<1>2. CASE v = Now
  BY <1>2 DEF NodeInv, NodesTyped, Now, Registered, Listed, Listed
<1> QED
  BY <1>1, <1>2 DEF Views

(* A step that leaves the views alone, and lets no node go or change its   *)
(* slice, keeps them true.                                                 *)
LEMMA ViewsStayTrue ==
    ASSUME NodeInv, UNCHANGED <<behind, ghosts>>,
           Registered \subseteq Registered',
           \A n \in Registered : nodes'[n].cidr = nodes[n].cidr
    PROVE  ViewsAgree'
<1> SUFFICES ASSUME NEW v \in behind', NEW n \in Node \ ghosts', v.nodes[n] # Absent
             PROVE  n \in Registered' /\ nodes'[n].cidr = v.nodes[n].cidr
  BY DEF ViewsAgree
<1> QED
  BY DEF NodeInv, ViewsAgree

(* Whatever a kubelet is told, it has the slice it had.                    *)
LEMMA AnsweredKeepsSlices ==
    ASSUME kubelets \in [Node -> Kubelet], NEW r \in Registration, NEW e
    PROVE  /\ Answered(r, e) \in [Node -> Kubelet]
           /\ \A n \in Node : Answered(r, e)[n].slice = kubelets[n].slice
BY DEF Answered, Registration, Kubelet

(* Creating a node: its name was free, so nobody has seen it.              *)
LEMMA CreateNodeKeepsNodeInv ==
    ASSUME NodeInv, NEW r \in regs, CreateNode(r)
    PROVE  NodeInv'
<1> USE DEF NodeInv
<1>0. r \in Registration /\ r.node \in Node
  BY DEF NodesTyped, Registration
<1>1. CASE nodes[r.node] # Absent
  <2>1. nodes' = nodes /\ seen' = seen /\ regs' = regs \ {r} /\ behind' = behind /\ ghosts' = ghosts
    BY <1>1 DEF CreateNode, CreateCheck, views
  <2>2. kubelets' \in [Node -> Kubelet] /\ \A n \in Node : kubelets'[n].slice = kubelets[n].slice
    BY <1>0, AnsweredKeepsSlices DEF CreateNode, NodesTyped
  <2>3. Registered' = Registered
    BY <2>1 DEF Registered, Listed
  <2>4. ViewsAgree'
    BY <2>1, <2>3, ViewsStayTrue
  <2> QED
    BY <2>1, <2>2, <2>3, <2>4
       DEF NodesTyped, RegsAreAbove, NodesAreAbove, KubeletsAgree, HasSlice
<1>2. CASE nodes[r.node] = Absent
  <2>1. /\ nodes' = [nodes EXCEPT ![r.node] = CreatedNode(r)]
        /\ seen' = [seen EXCEPT ![r.node] = r.seen]
        /\ regs' = regs \ {r}
        /\ behind' = behind /\ ghosts' = ghosts
    BY <1>2 DEF CreateNode, CreateCheck, views
  <2>2. kubelets' \in [Node -> Kubelet] /\ \A n \in Node : kubelets'[n].slice = kubelets[n].slice
    BY <1>0, AnsweredKeepsSlices DEF CreateNode, NodesTyped
  <2>3. CreatedNode(r) \in NodeObject /\ CreatedNode(r).cidr = r.idx
    BY <1>0 DEF CreatedNode, NodeObject, Registration
  <2>4. NodesTyped'
    BY <1>0, <2>1, <2>2, <2>3 DEF NodesTyped, Registration
  <2>5. /\ r.node \notin Registered
        /\ Registered \subseteq Registered'
        /\ \A n \in Registered : nodes'[n] = nodes[n]
    BY <1>0, <1>2, <2>1 DEF Registered, Listed, NodesTyped
  <2>6. RegsAreAbove'
    BY <2>1, <2>5 DEF RegsAreAbove
  <2>7. KubeletsAgree' /\ ViewsAgree'
    BY <2>1, <2>2, <2>5, ViewsStayTrue DEF KubeletsAgree
  <2>8. NodesAreAbove'
    <3> SUFFICES ASSUME NEW n \in Node
                 PROVE  /\ seen'[n] \subseteq Registered'
                        /\ \A m \in seen'[n] : HasSlice(m)' /\ HasSlice(n)'
                                                => nodes'[m].cidr < nodes'[n].cidr
      BY DEF NodesAreAbove
    <3>1. CASE n = r.node
      <4>1. seen'[n] = r.seen /\ nodes'[n].cidr = r.idx
        BY <1>0, <2>1, <2>3, <3>1 DEF NodesTyped
      <4>2. r.seen \subseteq Registered
        BY DEF RegsAreAbove
      <4> QED
        BY <4>1, <4>2, <2>5 DEF RegsAreAbove, HasSlice
    <3>2. CASE n # r.node
      <4>1. seen'[n] = seen[n] /\ nodes'[n] = nodes[n]
        BY <2>1, <3>2 DEF NodesTyped
      <4>2. seen[n] \subseteq Registered
        BY DEF NodesAreAbove
      <4>3. HasSlice(n)' => HasSlice(n)
        BY <4>1 DEF HasSlice, Registered, Listed
      <4> QED
        BY <4>1, <4>2, <4>3, <2>5 DEF NodesAreAbove, HasSlice
    <3> QED
      BY <3>1, <3>2
  <2> QED
    BY <2>4, <2>6, <2>7, <2>8
<1> QED
  BY <1>1, <1>2

(* Deleting a node: those that saw it forget it, and its kubelet's slice   *)
(* counts no more.                                                         *)
LEMMA DeleteNodeKeepsNodeInv ==
    ASSUME NodeInv, NEW d \in Node, DeleteNode(d)
    PROVE  NodeInv'
<1> USE DEF NodeInv
<1>1. /\ nodes' = [nodes EXCEPT ![d] = Absent]
      /\ kubelets' = [kubelets EXCEPT ![d].slice = NoCidr]
      /\ seen' = [m \in Node |-> seen[m] \ {d}]
      /\ regs' = {[r EXCEPT !.seen = @ \ {d}] : r \in regs}
      /\ behind' = behind
      /\ ghosts' = IF \E v \in behind : v.nodes[d] # Absent THEN ghosts \cup {d} ELSE ghosts
  BY DEF DeleteNode
<1>2. NodesTyped'
  <2>1. nodes' \in [Node -> NodeObject \cup {Absent}] /\ kubelets' \in [Node -> Kubelet]
    BY <1>1 DEF NodesTyped, Kubelet
  <2>2. regs' \subseteq Registration
    BY <1>1 DEF NodesTyped, Registration
  <2>3. seen' \in [Node -> SUBSET Node] /\ ghosts' \subseteq Node
    BY <1>1 DEF NodesTyped
  <2> QED
    BY <1>1, <2>1, <2>2, <2>3 DEF NodesTyped
<1>3. Registered' = Registered \ {d} /\ \A n \in Registered' : nodes'[n] = nodes[n]
  BY <1>1 DEF Registered, Listed, NodesTyped
<1>4. RegsAreAbove'
  <2> SUFFICES ASSUME NEW q \in regs'
               PROVE  /\ q.seen \subseteq Registered'
                      /\ \A m \in q.seen : nodes'[m].cidr # NoCidr /\ q.idx # NoCidr
                                             => nodes'[m].cidr < q.idx
    BY DEF RegsAreAbove
  <2>1. PICK r \in regs : q = [r EXCEPT !.seen = @ \ {d}]
    BY <1>1
  <2>2. q.seen = r.seen \ {d} /\ q.idx = r.idx
    BY <2>1 DEF NodesTyped, Registration
  <2> QED
    BY <2>2, <1>3 DEF RegsAreAbove
<1>5. NodesAreAbove'
  BY <1>1, <1>3 DEF NodesAreAbove, HasSlice
<1>6. KubeletsAgree'
  BY <1>1, <1>3 DEF KubeletsAgree, NodesTyped, Kubelet
<1>7. ViewsAgree'
  BY <1>1, <1>3 DEF ViewsAgree
<1> QED
  BY <1>2, <1>4, <1>5, <1>6, <1>7

(* A registration lists the nodes: it gets an index above all that it saw. *)
LEMMA ListNodesKeepsNodeInv ==
    ASSUME NodeInv, NEW r \in regs, ListNodes(r)
    PROVE  NodeInv'
<1> USE DEF NodeInv
<1>0. r \in Registration /\ r.node \in Node
  BY DEF NodesTyped, Registration
<1>1. nodes' = nodes /\ seen' = seen /\ behind' = behind /\ ghosts' = ghosts
  BY DEF ListNodes, views
<1>2. Registered' = Registered
  BY <1>1 DEF Registered
<1>3. kubelets' \in [Node -> Kubelet] /\ \A n \in Node : kubelets'[n].slice = kubelets[n].slice
  BY <1>0, AnsweredKeepsSlices DEF ListNodes, NodesTyped
<1>4. NodesAreAbove' /\ KubeletsAgree' /\ ViewsAgree'
  BY <1>1, <1>2, <1>3, ViewsStayTrue DEF NodesAreAbove, KubeletsAgree, HasSlice
<1> DEFINE q(v) == [r EXCEPT !.stage = "create", !.idx = NextFreeNodeCidrIndex(v.nodes),
                             !.seen = Shown(v)]
<1>5. PICK v \in Views :
        \/ regs' = regs \ {r}
        \/ /\ ~ Exhausted(NextFreeNodeCidrIndex(v.nodes))
           /\ regs' = (regs \ {r}) \cup {q(v)}
  BY DEF ListNodes
<1>6. CASE regs' = regs \ {r}
  BY <1>6, <1>1, <1>2, <1>3, <1>4 DEF NodesTyped, RegsAreAbove
<1>7. CASE /\ ~ Exhausted(NextFreeNodeCidrIndex(v.nodes))
           /\ regs' = (regs \ {r}) \cup {q(v)}
  <2>1. v.nodes \in [Node -> NodeObject \cup {Absent}]
    BY ViewsAreTrue
  <2>2. NextFreeNodeCidrIndex(v.nodes) \in Index
    BY <1>7, <2>1, NextFreeIsAbove, PlacementAssumption DEF Exhausted, Index
  <2>3. /\ q(v) \in Registration /\ q(v).seen = Shown(v)
        /\ q(v).idx = NextFreeNodeCidrIndex(v.nodes)
    BY <1>0, <2>2 DEF Registration, Shown, Registered, Listed
  <2>4. NodesTyped'
    BY <1>1, <1>3, <1>7, <2>3 DEF NodesTyped
  <2>5. /\ Shown(v) \subseteq Registered
        /\ \A m \in Shown(v) : nodes[m].cidr # NoCidr
                                  => nodes[m].cidr < NextFreeNodeCidrIndex(v.nodes)
    BY <2>1, NextFreeIsAbove DEF Shown
  <2>6. RegsAreAbove'
    <3> HIDE DEF q
    <3> QED
      BY <1>1, <1>2, <1>7, <2>3, <2>5 DEF RegsAreAbove
  <2> QED
    BY <2>4, <2>6, <1>4
<1> QED
  BY <1>5, <1>6, <1>7

(* A heartbeat that ages leaves the rest of the node, in every copy.       *)
LEMMA AgedKeepsSlices ==
    ASSUME NEW obs \in [Node -> NodeObject \cup {Absent}], NEW n \in Node
    PROVE  /\ Aged(obs, n) \in [Node -> NodeObject \cup {Absent}]
           /\ \A m \in Node : Aged(obs, n)[m] # Absent
                => obs[m] # Absent /\ Aged(obs, n)[m].cidr = obs[m].cidr
<1>1. CASE obs[n] # Absent /\ obs[n].heartbeat = "Fresh"
  <2> DEFINE o == [obs[n] EXCEPT !.heartbeat = "Old"]
  <2>1. obs[n] \in NodeObject
    BY <1>1
  <2>2. o \in NodeObject /\ o.cidr = obs[n].cidr
    BY <2>1 DEF NodeObject
  <2>3. Aged(obs, n) = [obs EXCEPT ![n] = o]
    BY <1>1 DEF Aged
  <2> HIDE DEF o
  <2> QED
    BY <1>1, <2>2, <2>3
<1>2. CASE ~(obs[n] # Absent /\ obs[n].heartbeat = "Fresh")
  BY <1>2 DEF Aged
<1> QED
  BY <1>1, <1>2

(* Writes of one node that keep its slice, and steps of a registration     *)
(* that keep its index.                                                    *)
LEMMA NodeWritesKeepNodeInv ==
    ASSUME NodeInv, NEW n \in Node, Heartbeat(n) \/ HeartbeatAges(n) \/ Cordon(n)
    PROVE  NodeInv'
<1> USE DEF NodeInv
<1>1. nodes[n] \in NodeObject
  BY DEF Heartbeat, HeartbeatAges, Cordon, NodesTyped
<1>2. kubelets' = kubelets /\ regs' = regs /\ seen' = seen /\ ghosts' = ghosts
  BY DEF Heartbeat, HeartbeatAges, Cordon, views
<1>3. \E o \in NodeObject : o.cidr = nodes[n].cidr /\ nodes' = [nodes EXCEPT ![n] = o]
  <2> DEFINE beat(t) == [nodes[n] EXCEPT !.heartbeat = t]
             cordoned == [nodes[n] EXCEPT !.unschedulable = TRUE]
  <2>1. ASSUME NEW t \in {"Fresh", "Old"}
        PROVE  beat(t) \in NodeObject /\ beat(t).cidr = nodes[n].cidr
    BY <1>1 DEF NodeObject
  <2>2. cordoned \in NodeObject /\ cordoned.cidr = nodes[n].cidr
    BY <1>1 DEF NodeObject
  <2>3. \/ nodes' = [nodes EXCEPT ![n] = beat("Fresh")]
        \/ nodes' = [nodes EXCEPT ![n] = beat("Old")]
        \/ nodes' = [nodes EXCEPT ![n] = cordoned]
    BY DEF Heartbeat, ReplaceNodeStatus, HeartbeatAges, Aged, Cordon
  <2> QED
    BY <2>1, <2>2, <2>3, Zenon
<1>4. /\ nodes' \in [Node -> NodeObject \cup {Absent}]
      /\ nodes'[n] \in NodeObject /\ nodes'[n].cidr = nodes[n].cidr
  BY <1>3 DEF NodesTyped
<1>5. \A m \in Node \ {n} : nodes'[m] = nodes[m]
  BY <1>3 DEF NodesTyped
<1>6. Registered' = Registered
  BY <1>1, <1>4, <1>5, PlacementAssumption DEF Registered, Listed
<1>7. \A m \in Node : nodes'[m].cidr = nodes[m].cidr
  BY <1>4, <1>5
<1>13. \A v \in behind' :
         /\ v.nodes \in [Node -> NodeObject \cup {Absent}]
         /\ \E w \in behind : \A m \in Node :
              v.nodes[m] # Absent => w.nodes[m] # Absent /\ v.nodes[m].cidr = w.nodes[m].cidr
  <2>1. CASE behind' = behind
    BY <2>1 DEF NodesTyped
  <2>2. CASE HeartbeatAges(n)
    <3> SUFFICES ASSUME NEW v \in behind'
                 PROVE  /\ v.nodes \in [Node -> NodeObject \cup {Absent}]
                        /\ \E w \in behind : \A m \in Node : v.nodes[m] # Absent
                             => w.nodes[m] # Absent /\ v.nodes[m].cidr = w.nodes[m].cidr
      OBVIOUS
    <3>1. PICK w \in behind : v = [w EXCEPT !.nodes = Aged(@, n)]
      BY <2>2 DEF HeartbeatAges
    <3>2. w.nodes \in [Node -> NodeObject \cup {Absent}] /\ v.nodes = Aged(w.nodes, n)
      BY <3>1, <2>2 DEF NodesTyped
    <3>3. /\ Aged(w.nodes, n) \in [Node -> NodeObject \cup {Absent}]
          /\ \A m \in Node : Aged(w.nodes, n)[m] # Absent
               => w.nodes[m] # Absent /\ Aged(w.nodes, n)[m].cidr = w.nodes[m].cidr
      BY <3>2, AgedKeepsSlices
    <3> QED
      BY <3>2, <3>3
  <2> QED
    BY <2>1, <2>2 DEF Heartbeat, Cordon, views
<1>8. NodesTyped'
  BY <1>2, <1>4, <1>13 DEF NodesTyped
<1>9. Registered \subseteq Node
  BY DEF Registered, Listed
<1>10. RegsAreAbove'
  BY <1>2, <1>6, <1>7, <1>9 DEF RegsAreAbove
<1>11. NodesAreAbove'
  BY <1>2, <1>6, <1>7, <1>9 DEF NodesAreAbove, HasSlice
<1>12. KubeletsAgree'
  BY <1>2, <1>6, <1>7 DEF KubeletsAgree
<1>14. ViewsAgree'
  <2> SUFFICES ASSUME NEW v \in behind', NEW m \in Node \ ghosts', v.nodes[m] # Absent
               PROVE  m \in Registered' /\ nodes'[m].cidr = v.nodes[m].cidr
    BY DEF ViewsAgree
  <2>1. PICK w \in behind : w.nodes[m] # Absent /\ v.nodes[m].cidr = w.nodes[m].cidr
    BY <1>13
  <2> QED
    BY <1>2, <1>6, <1>7, <2>1 DEF ViewsAgree
<1> QED
  BY <1>8, <1>10, <1>11, <1>12, <1>14

LEMMA KubeletStepsKeepNodeInv ==
    ASSUME NodeInv, NEW n \in Node, RegisterNode(n) \/ LearnSlice(n) \/ KubeletStops(n)
    PROVE  NodeInv'
<1> USE DEF NodeInv
<1>1. nodes' = nodes /\ seen' = seen /\ behind' = behind /\ ghosts' = ghosts
  BY DEF RegisterNode, LearnSlice, KubeletStops, views
<1>2. Registered' = Registered
  BY <1>1 DEF Registered, Listed
<1>3. \/ kubelets' = [kubelets EXCEPT ![n].pc = "posting"]
      \/ kubelets' = [kubelets EXCEPT ![n].pc = "down"]
      \/ \E v \in Views :
           /\ v.nodes[n] # Absent
           /\ kubelets' = [kubelets EXCEPT ![n].pc = "running", ![n].slice = v.nodes[n].cidr]
  BY DEF RegisterNode, LearnSlice, KubeletStops
<1>10. /\ kubelets' \in [Node -> Kubelet]
       /\ \A m \in Node \ {n} : kubelets'[m] = kubelets[m]
       /\ \/ kubelets'[n].slice = kubelets[n].slice
          \/ \E v \in Views : v.nodes[n] # Absent /\ kubelets'[n].slice = v.nodes[n].cidr
  <2>1. ASSUME NEW p \in {"down", "posting"}, kubelets' = [kubelets EXCEPT ![n].pc = p]
        PROVE  <1>10!:
    BY <2>1 DEF NodesTyped, Kubelet
  <2>2. ASSUME NEW v \in Views, v.nodes[n] # Absent,
               kubelets' = [kubelets EXCEPT ![n].pc = "running", ![n].slice = v.nodes[n].cidr]
        PROVE  <1>10!:
    <3>1. PICK c : c = v.nodes[n].cidr
      OBVIOUS
    <3>2. c \in Index \cup {NoCidr}
      BY <2>2, <3>1, ViewsAreTrue DEF NodeObject
    <3>3. kubelets' = [kubelets EXCEPT ![n].pc = "running", ![n].slice = c]
      BY <2>2, <3>1
    <3>4. /\ kubelets' \in [Node -> Kubelet]
          /\ \A m \in Node \ {n} : kubelets'[m] = kubelets[m]
          /\ kubelets'[n].slice = c
      BY <3>2, <3>3 DEF NodesTyped, Kubelet
    <3> QED
      BY <2>2, <3>1, <3>4
  <2> QED
    BY <1>3, <2>1, <2>2
<1>11. kubelets' \in [Node -> Kubelet]
  BY <1>10
<1>4. KubeletsAgree'
  <2> SUFFICES ASSUME NEW m \in Node \ ghosts, kubelets'[m].slice # NoCidr
               PROVE  m \in Registered /\ nodes[m].cidr = kubelets'[m].slice
    BY <1>1, <1>2 DEF KubeletsAgree
  <2>1. CASE m = n
    <3>1. CASE kubelets'[n].slice = kubelets[n].slice
      BY <2>1, <3>1 DEF KubeletsAgree
    <3>2. CASE \E v \in Views : v.nodes[n] # Absent /\ kubelets'[n].slice = v.nodes[n].cidr
      BY <2>1, <3>2, ViewsAreTrue
    <3> QED
      BY <1>10, <3>1, <3>2
  <2>2. CASE m # n
    BY <1>10, <2>2 DEF KubeletsAgree
  <2> QED
    BY <2>1, <2>2
<1>5. NodesAreAbove' /\ ViewsAgree'
  BY <1>1, <1>2, ViewsStayTrue DEF NodesAreAbove, HasSlice
<1> DEFINE q == [node |-> n, stage |-> "check", idx |-> NoCidr, seen |-> {}, waited |-> TRUE]
<1>6. q \in Registration /\ q.seen = {}
  BY DEF Registration
<1>7. regs' = regs \cup {q} \/ regs' = regs
  BY DEF RegisterNode, LearnSlice, KubeletStops
<1>8. regs' \subseteq Registration
  BY <1>6, <1>7 DEF NodesTyped
<1>9. RegsAreAbove'
  <2> HIDE DEF q
  <2> QED
    BY <1>1, <1>2, <1>6, <1>7 DEF RegsAreAbove
<1> QED
  BY <1>1, <1>11, <1>4, <1>5, <1>8, <1>9 DEF NodesTyped

LEMMA RegistrationStepsKeepNodeInv ==
    ASSUME NodeInv, NEW r \in regs, CheckNode(r) \/ RegistrationAbandoned(r)
    PROVE  NodeInv'
<1> USE DEF NodeInv
<1>0. r \in Registration /\ r.node \in Node
  BY DEF NodesTyped, Registration
<1>1. nodes' = nodes /\ seen' = seen /\ behind' = behind /\ ghosts' = ghosts
  BY DEF CheckNode, RegistrationAbandoned, views
<1>2. Registered' = Registered
  BY <1>1 DEF Registered, Listed
<1>3. kubelets' \in [Node -> Kubelet] /\ \A n \in Node : kubelets'[n].slice = kubelets[n].slice
  <2>1. CASE kubelets' = kubelets
    BY <2>1 DEF NodesTyped
  <2>2. CASE kubelets' = [kubelets EXCEPT ![r.node].pc = "down"]
    BY <1>0, <2>2 DEF NodesTyped, Kubelet
  <2> QED
    BY <2>1, <2>2 DEF CheckNode, RegistrationAbandoned
<1>4. NodesAreAbove' /\ KubeletsAgree' /\ ViewsAgree'
  BY <1>1, <1>2, <1>3, ViewsStayTrue DEF NodesAreAbove, KubeletsAgree, HasSlice
<1>5. \A q \in regs' : q \in Registration /\ \E p \in regs : q.seen = p.seen /\ q.idx = p.idx
  <2> DEFINE at(t) == [r EXCEPT !.stage = t]
             alone == [r EXCEPT !.waited = FALSE]
  <2>1. ASSUME NEW t \in {"list", "create"}
        PROVE  at(t) \in Registration /\ at(t).seen = r.seen /\ at(t).idx = r.idx
    BY <1>0 DEF Registration
  <2>2. alone \in Registration /\ alone.seen = r.seen /\ alone.idx = r.idx
    BY <1>0 DEF Registration
  <2>3. \A q \in regs' : q \in regs \cup {at("list"), at("create"), alone}
    BY DEF CheckNode, RegistrationAbandoned
  <2> HIDE DEF at, alone
  <2> QED
    BY <2>1, <2>2, <2>3 DEF NodesTyped
<1>6. RegsAreAbove'
  BY <1>1, <1>2, <1>5 DEF RegsAreAbove
<1> QED
  BY <1>1, <1>3, <1>4, <1>5, <1>6 DEF NodesTyped

(* A replica falls behind: what it shows is the store as it is; one        *)
(* catches up.                                                             *)
LEMMA ReplicasKeepNodeInv ==
    ASSUME NodeInv, FallsBehind \/ CatchesUp
    PROVE  NodeInv'
<1> USE DEF NodeInv
<1>1. nodes' = nodes /\ kubelets' = kubelets /\ regs' = regs /\ seen' = seen /\ ghosts' = ghosts
  BY DEF FallsBehind, CatchesUp
<1>2. Registered' = Registered
  BY <1>1 DEF Registered
<1>3. behind' \subseteq Views
  BY DEF FallsBehind, CatchesUp, Views
<1>4. \A v \in behind' :
        /\ v.nodes \in [Node -> NodeObject \cup {Absent}]
        /\ \A n \in Node \ ghosts :
             v.nodes[n] # Absent => n \in Registered /\ nodes[n].cidr = v.nodes[n].cidr
  BY <1>3, ViewsAreTrue
<1>5. ViewsAgree'
  BY <1>1, <1>2, <1>4 DEF ViewsAgree
<1> QED
  BY <1>1, <1>2, <1>4, <1>5 DEF NodesTyped, RegsAreAbove, NodesAreAbove, KubeletsAgree, HasSlice

(* The scheduler, the binding handler and people's commands on pods.       *)
PodSide ==
    \/ \E p \in Pod : Apply(p) \/ DeletePod(p) \/ ReplacePodStatus(p) \/ TakeKey(p)
    \/ Resync \/ SchedulerStep \/ RequestFails \/ SchedulerRestarts
    \/ \E b \in binds : BindStep(b) \/ BindingAbandoned(b)

NodeSide ==
    \/ \E n \in Node : KubeletStep(n) \/ HeartbeatAges(n) \/ NodeMishap(n)
    \/ \E r \in regs : Registering(r) \/ RegistrationAbandoned(r)
    \/ FallsBehind \/ CatchesUp

LEMMA PodSideKeepsNodes ==
    ASSUME PodSide PROVE UNCHANGED nodeVars
BY DEF PodSide, Apply, DeletePod, ReplacePodStatus, TakeKey, Resync, SchedulerStep, GetPod,
       Candidates, SendBinding, RequestFails, SchedulerRestarts, BindStep, BindRead,
       BindWrite, BindingAbandoned

LEMMA NodeSideKeepsPods ==
    ASSUME NodeSide PROVE UNCHANGED <<schedVars, podVars, doubtful>>
BY DEF NodeSide, KubeletStep, RegisterNode, LearnSlice, Heartbeat, HeartbeatAges, NodeMishap,
       KubeletStops, Cordon, DeleteNode, Registering, CheckNode, ListNodes, CreateNode,
       RegistrationAbandoned, FallsBehind, CatchesUp

LEMMA UnchangedKeepsNodeInv ==
    ASSUME NodeInv, UNCHANGED nodeVars PROVE NodeInv'
<1>1. /\ nodes' = nodes /\ kubelets' = kubelets /\ regs' = regs /\ seen' = seen
      /\ behind' = behind /\ ghosts' = ghosts
  BY DEF nodeVars, views
<1>2. Registered' = Registered
  BY <1>1 DEF Registered, Listed
<1> QED
  BY <1>1, <1>2
     DEF NodeInv, NodesTyped, RegsAreAbove, NodesAreAbove, KubeletsAgree, ViewsAgree, HasSlice

LEMMA NextKeepsNodeInv ==
    ASSUME NodeInv, [Next]_vars PROVE NodeInv'
<1>1. CASE PodSide \/ UNCHANGED vars
  BY <1>1, PodSideKeepsNodes, UnchangedKeepsNodeInv DEF vars
<1>2. CASE NodeSide
  <2>1. ASSUME NEW n \in Node, KubeletStep(n) \/ HeartbeatAges(n) \/ NodeMishap(n)
        PROVE  NodeInv'
    BY <2>1, NodeWritesKeepNodeInv, KubeletStepsKeepNodeInv, DeleteNodeKeepsNodeInv, Zenon
       DEF KubeletStep, NodeMishap
  <2>2. ASSUME NEW r \in regs, Registering(r) \/ RegistrationAbandoned(r)
        PROVE  NodeInv'
    BY <2>2, RegistrationStepsKeepNodeInv, ListNodesKeepsNodeInv, CreateNodeKeepsNodeInv, Zenon
       DEF Registering
  <2> QED
    BY <1>2, <2>1, <2>2, ReplicasKeepNodeInv, Zenon DEF NodeSide
<1> QED
  BY <1>1, <1>2, Zenon DEF Next, PodSide, NodeSide

LEMMA InitNodeInv == Init => NodeInv
BY DEF Init, NodeInv, NodesTyped, RegsAreAbove, NodesAreAbove, KubeletsAgree, ViewsAgree, Kubelet,
       HasSlice

(* Every behaviour keeps the nodes' half of the invariant.                 *)
THEOREM NodeInvariant == Spec => []NodeInv
BY InitNodeInv, NextKeepsNodeInv, PTL DEF Spec

(* create_node never gives a node the slice of one that its list showed,   *)
(* for any number of nodes, any order of registrations and deletions, and  *)
(* whichever replica's store it lists.                                     *)
THEOREM SlicesDiffer == Spec => []SeenSlicesDiffer
<1>1. NodeInv => SeenSlicesDiffer
  BY DEF NodeInv, NodesTyped, NodesAreAbove, SeenSlicesDiffer, HasSlice, NodeObject, Index,
         Registered, Listed
<1> QED
  BY <1>1, NodeInvariant, PTL

(* However often and whenever a kubelet is restarted, its slice is the one *)
(* it had, unless its Node was deleted (and may still be shown).           *)
THEOREM RestartsKeepSlices == Spec => SlicesSurviveRestarts
<1>1. ASSUME NodeInv, NodeInv', [Next]_vars
      PROVE  [\A n \in Node \ ghosts : kubelets[n].slice # NoCidr /\ kubelets'[n].slice # NoCidr
                                          => kubelets'[n].slice = kubelets[n].slice]_vars
  <2> SUFFICES ASSUME NEW n \in Node \ ghosts,
                      kubelets[n].slice # NoCidr, kubelets'[n].slice # NoCidr
               PROVE  kubelets'[n].slice = kubelets[n].slice
    OBVIOUS
  <2>5. n \notin ghosts'
    <3>1. ASSUME NEW d \in Node, DeleteNode(d) PROVE n \notin ghosts'
      <4>1. kubelets'[d].slice = NoCidr /\ ghosts' \subseteq ghosts \cup {d}
        BY <1>1, <3>1 DEF DeleteNode, NodeInv, NodesTyped, Kubelet
      <4> QED
        BY <4>1
    <3>2. CASE ghosts' = ghosts
      BY <3>2
    <3> QED
      BY <1>1, <3>1, <3>2, PodSideKeepsNodes
         DEF Next, PodSide, NodeMishap, KubeletStep, RegisterNode, LearnSlice, Heartbeat,
             HeartbeatAges, KubeletStops, Cordon, Registering, CheckNode, ListNodes, CreateNode,
             RegistrationAbandoned, FallsBehind, CatchesUp, vars, nodeVars, views
  <2>1. n \in Registered /\ n \in Registered'
    BY <1>1, <2>5 DEF NodeInv, KubeletsAgree
  <2>6. SUFFICES nodes'[n].cidr = nodes[n].cidr
    BY <1>1, <2>5 DEF NodeInv, KubeletsAgree
  <2>2. CASE PodSide \/ UNCHANGED vars
    BY <2>2, PodSideKeepsNodes DEF vars, nodeVars
  <2>3. ASSUME NEW m \in Node, KubeletStep(m) \/ HeartbeatAges(m) \/ NodeMishap(m)
        PROVE  nodes'[n].cidr = nodes[n].cidr
    <3>1. CASE DeleteNode(m)
      BY <1>1, <2>1, <3>1 DEF DeleteNode, Registered, Listed, NodeInv, NodesTyped
    <3>2. CASE RegisterNode(m) \/ LearnSlice(m) \/ KubeletStops(m)
      BY <3>2 DEF RegisterNode, LearnSlice, KubeletStops
    <3>3. CASE Heartbeat(m) \/ HeartbeatAges(m) \/ Cordon(m)
      BY <1>1, <3>3 DEF Heartbeat, ReplaceNodeStatus, HeartbeatAges, Aged, Cordon, NodeInv,
                        NodesTyped, NodeObject
    <3> QED
      BY <2>3, <3>1, <3>2, <3>3 DEF KubeletStep, NodeMishap
  <2>4. ASSUME NEW r \in regs, Registering(r) \/ RegistrationAbandoned(r)
        PROVE  nodes'[n].cidr = nodes[n].cidr
    <3>1. CASE CreateNode(r)
      BY <1>1, <2>1, <3>1
         DEF CreateNode, CreateCheck, Registered, Listed, NodeInv, NodesTyped, Registration
    <3>2. CASE CheckNode(r) \/ ListNodes(r) \/ RegistrationAbandoned(r)
      BY <3>2 DEF CheckNode, ListNodes, RegistrationAbandoned
    <3> QED
      BY <2>4, <3>1, <3>2 DEF Registering
  <2>7. CASE FallsBehind \/ CatchesUp
    BY <2>7 DEF FallsBehind, CatchesUp
  <2> QED
    BY <1>1, <2>2, <2>3, <2>4, <2>7, Zenon DEF Next, PodSide
<1> QED
  BY <1>1, NodeInvariant, PTL DEF Spec, SlicesSurviveRestarts

-----------------------------------------------------------------------------
(* Pods *)

PodsTyped ==
    /\ pods \in [Pod -> Node \cup {NoNode, Absent}]
    /\ binds \subseteq Binding
    /\ sched \in [pc : {"idle", "pod", "nodes", "pods", "waiting"}, key : Pod \cup {NoNode},
                  candidates : SUBSET Node]
    /\ queue \subseteq Pod /\ doubtful \subseteq Pod

(* The worker has a key while it works, and candidates when it chooses.    *)
Working ==
    /\ sched.pc # "idle" => sched.key \in Pod
    /\ sched.pc = "pods" => sched.candidates # {}

(* The worker waits for one binding at a time; all others were given up.   *)
OneIsWaitedFor ==
    /\ \A b \in binds : b.waited => sched.pc = "waiting" /\ sched.key = b.pod
    /\ \A b, c \in binds : b.waited /\ c.waited => b = c
    /\ \A b \in binds : b.waited \/ b.pod \in doubtful

(* The pod of which the worker found no node has none until its binding    *)
(* arrives, unless an earlier one is still under way.                      *)
KeyHasNoNode ==
    sched.pc \in {"nodes", "pods", "waiting"} /\ sched.key \notin doubtful
      => pods[sched.key] \notin Node

PodInv == PodsTyped /\ Working /\ OneIsWaitedFor /\ KeyHasNoNode

(* A copy that goes stale stays the same request.                          *)
LEMMA StaleBindIsSame ==
    ASSUME NEW b \in Binding, NEW p \in Pod
    PROVE  /\ StaleBind(b, p) \in Binding
           /\ StaleBind(b, p).pod = b.pod
           /\ StaleBind(b, p).waited = b.waited
BY DEF StaleBind, Binding

LEMMA StaleBindsAreSame ==
    ASSUME NEW B \in SUBSET Binding, NEW p \in Pod, NEW q \in StaleBinds(B, p)
    PROVE  /\ q \in Binding
           /\ \E b \in B : q = StaleBind(b, p) /\ q.pod = b.pod /\ q.waited = b.waited
<1>1. PICK b \in B : q = StaleBind(b, p)
  BY DEF StaleBinds
<1> QED
  BY <1>1, StaleBindIsSame

(* The scheduler's choice is one of the candidates.                        *)
LEMMA LeastLoadedIsACandidate ==
    ASSUME NEW names, NEW c \in SUBSET Node, c # {}
    PROVE  LeastLoaded(names, c) \in c
<1>1. ASSUME NEW n \in Node PROVE Load(names, n) \in Nat
  <2>1. IsFiniteSet(Pod)
    BY FS_Interval, PlacementAssumption DEF Pod
  <2>2. IsFiniteSet({p \in Pod : names[p] = n})
    BY <2>1, FS_Subset
  <2> QED
    BY <2>2, FS_CardinalityType DEF Load
<1> HIDE DEF Load
<1> DEFINE L == {Load(names, n) : n \in c}
<1>2. L \in SUBSET Nat /\ L # {}
  BY <1>1
<1>3. Smallest(L) \in L /\ \A g \in L : Smallest(L) <= g
  <2> HIDE DEF L
  <2> QED
    BY <1>2, SmallestIsLeast
<1>4. PICK n \in c : Load(names, n) = Smallest(L)
  BY <1>3
<1> DEFINE S == {m \in c : \A k \in c : Load(names, m) <= Load(names, k)}
<1>5. n \in S
  BY <1>3, <1>4
<1>6. S \in SUBSET Nat /\ S # {}
  <2>1. c \subseteq Nat
    BY PlacementAssumption DEF Node
  <2> QED
    BY <1>5, <2>1
<1>7. Smallest(S) \in S
  <2> HIDE DEF S
  <2> QED
    BY <1>6, SmallestIsLeast
<1> QED
  BY <1>7 DEF LeastLoaded

(* A write of a pod by somebody else than bind_pod.                        *)
LEMMA WritesOfPodsKeepPodInv ==
    ASSUME PodInv, NEW p \in Pod, Apply(p) \/ DeletePod(p) \/ ReplacePodStatus(p)
    PROVE  PodInv'
<1> USE DEF PodInv
<1>1. /\ binds' = StaleBinds(binds, p) /\ sched' = sched /\ doubtful' = doubtful
      /\ queue' \subseteq queue \cup {p}
  BY DEF Apply, DeletePod, ReplacePodStatus, PodInformer, schedVars
<1>2. /\ pods' \in [Pod -> Node \cup {NoNode, Absent}]
      /\ \A x \in Pod : pods'[x] = pods[x] \/ pods'[x] = NoNode \/ pods'[x] = Absent
  BY DEF Apply, DeletePod, ReplacePodStatus, PodsTyped
<1>3. NoNode \notin Node /\ Absent \notin Node
  BY PlacementAssumption DEF NoNode, Node
<1>4. binds \in SUBSET Binding
  BY DEF PodsTyped
<1>5. \A q \in binds' :
        /\ q \in Binding
        /\ \E b \in binds : q = StaleBind(b, p) /\ q.pod = b.pod /\ q.waited = b.waited
  BY <1>1, <1>4, StaleBindsAreSame
<1>6. PodsTyped'
  BY <1>1, <1>2, <1>5 DEF PodsTyped
<1>7. Working'
  BY <1>1 DEF Working
<1>8. OneIsWaitedFor'
  BY <1>1, <1>5 DEF OneIsWaitedFor
<1>9. KeyHasNoNode'
  BY <1>1, <1>2, <1>3 DEF KeyHasNoNode, Working
<1> QED
  BY <1>6, <1>7, <1>8, <1>9

(* Steps of the worker that send nothing.                                  *)
LEMMA WorkerStepsKeepPodInv ==
    ASSUME PodInv,
           (\E p \in Pod : TakeKey(p)) \/ GetPod \/ Candidates \/ RequestFails
    PROVE  PodInv'
<1> USE DEF PodInv
<1> DEFINE Ahead(w) == /\ w.key \in Pod /\ w.candidates \in SUBSET Node
                       /\ w.pc = "pod" \/ w.pc = "nodes" \/ w.pc = "pods"
                       /\ w.pc = "pods" => w.candidates # {}
                       /\ w.pc # "pod" /\ w.key \notin doubtful' => pods[w.key] \notin Node
<1>1. pods' = pods /\ binds' = binds /\ doubtful \subseteq doubtful' /\ doubtful' \subseteq Pod
  <2>1. CASE GetPod
    BY <2>1 DEF GetPod, podVars, PodsTyped, Working
  <2> QED
    BY <2>1 DEF TakeKey, Candidates, RequestFails, podVars, PodsTyped
<1>2. \A b \in binds : ~ b.waited
  BY DEF TakeKey, GetPod, Candidates, RequestFails, OneIsWaitedFor
<1>3. NoNode \notin Node /\ Idle.pc = "idle"
  BY DEF NoNode, Node, Idle
<1>4. /\ queue' \subseteq Pod
      /\ \/ sched' = Idle
         \/ \E k \in Pod, c \in SUBSET Node, l \in {"pod", "nodes", "pods"} :
              /\ sched' = [pc |-> l, key |-> k, candidates |-> c]
              /\ Ahead(sched')
  <2>1. ASSUME NEW p \in Pod, TakeKey(p) PROVE <1>4!:
    <3>1. sched' = [pc |-> "pod", key |-> p, candidates |-> {}] /\ queue' \subseteq Pod
      BY <2>1 DEF TakeKey, Idle, PodsTyped
    <3> QED
      BY <3>1
  <2>2. CASE GetPod
    <3>1. sched.pc = "pod" /\ sched.key \in Pod
      BY <2>2 DEF GetPod, Working
    <3>2. PICK v \in Views :
            IF NeedsNode(v.pods[sched.key])
            THEN /\ sched' = [sched EXCEPT !.pc = "nodes"]
                 /\ doubtful' = IF v.pods[sched.key] = NoNode /\ pods[sched.key] \in Node
                                THEN doubtful \cup {sched.key} ELSE doubtful
                 /\ UNCHANGED queue
            ELSE Scheduled(TRUE) /\ UNCHANGED doubtful
      BY <2>2 DEF GetPod
    <3>3. CASE NeedsNode(v.pods[sched.key])
      <4>1. sched' = [pc |-> "nodes", key |-> sched.key, candidates |-> sched.candidates]
        BY <3>2, <3>3 DEF PodsTyped
      <4>2. sched.key \notin doubtful' => pods[sched.key] \notin Node
        BY <3>2, <3>3 DEF NeedsNode
      <4>3. queue' = queue
        BY <3>2, <3>3
      <4> QED
        BY <3>1, <4>1, <4>2, <4>3 DEF PodsTyped
    <3>4. CASE ~ NeedsNode(v.pods[sched.key])
      BY <3>2, <3>4 DEF Scheduled, PodsTyped
    <3> QED
      BY <3>3, <3>4
  <2>3. CASE Candidates
    <3>4. PICK v \in Views :
            \E c \in {{n \in Listed(v.nodes) : IsSchedulable(v.nodes[n])}} :
              IF c = {} THEN NotScheduled(TRUE)
              ELSE sched' = [sched EXCEPT !.pc = "pods", !.candidates = c] /\ UNCHANGED queue
      BY <2>3 DEF Candidates
    <3> DEFINE c == {n \in Listed(v.nodes) : IsSchedulable(v.nodes[n])}
    <3>5. IF c = {} THEN NotScheduled(TRUE)
          ELSE sched' = [sched EXCEPT !.pc = "pods", !.candidates = c] /\ UNCHANGED queue
      BY <3>4
    <3>1. sched.pc = "nodes" /\ sched.key \in Pod
      BY <2>3 DEF Candidates, Working
    <3>2. CASE c = {}
      BY <3>1, <3>2, <3>5 DEF NotScheduled, PodsTyped
    <3>3. CASE c # {}
      <4>1. sched' = [sched EXCEPT !.pc = "pods", !.candidates = c] /\ queue' = queue
        BY <3>3, <3>5
      <4>2. c \in SUBSET Node
        BY DEF Listed
      <4> HIDE DEF c
      <4>3. sched' = [pc |-> "pods", key |-> sched.key, candidates |-> c]
        BY <4>1 DEF PodsTyped
      <4>4. sched.key \notin doubtful' => pods[sched.key] \notin Node
        BY <1>1, <3>1 DEF KeyHasNoNode
      <4> QED
        BY <3>1, <3>3, <4>1, <4>2, <4>3, <4>4 DEF PodsTyped
    <3> QED
      BY <3>2, <3>3
  <2>4. CASE RequestFails
    BY <2>4 DEF RequestFails, NotScheduled, PodsTyped, Working
  <2> QED
    BY <2>1, <2>2, <2>3, <2>4
<1>5. PodsTyped'
  BY <1>1, <1>4 DEF PodsTyped, Idle
<1>6. Working'
  BY <1>3, <1>4 DEF Working
<1>7. OneIsWaitedFor'
  BY <1>1, <1>2 DEF OneIsWaitedFor
<1>8. KeyHasNoNode'
  BY <1>1, <1>3, <1>4 DEF KeyHasNoNode
<1> QED
  BY <1>5, <1>6, <1>7, <1>8

LEMMA ResyncKeepsPodInv ==
    ASSUME PodInv, Resync PROVE PodInv'
BY DEF PodInv, Resync, PodsTyped, Working, OneIsWaitedFor, KeyHasNoNode, Unscheduled, podVars

LEMMA SendBindingKeepsPodInv ==
    ASSUME PodInv, SendBinding
    PROVE  PodInv'
<1> USE DEF PodInv
<1>0. PICK v \in Views :
         binds' = binds \cup {[pod |-> sched.key, node |-> LeastLoaded(v.pods, sched.candidates),
                               read |-> "not yet", waited |-> TRUE]}
  BY DEF SendBinding
<1> DEFINE q == [pod |-> sched.key, node |-> LeastLoaded(v.pods, sched.candidates),
                 read |-> "not yet", waited |-> TRUE]
<1>1. /\ sched.pc = "pods" /\ binds' = binds \cup {q}
      /\ sched' = [Idle EXCEPT !.pc = "waiting", !.key = sched.key]
      /\ pods' = pods /\ queue' = queue /\ doubtful' = doubtful
  BY <1>0 DEF SendBinding
<1>2. q \in Binding /\ q.pod = sched.key
  <2>1. LeastLoaded(v.pods, sched.candidates) \in Node
    BY <1>1, LeastLoadedIsACandidate DEF Working, PodsTyped
  <2>2. sched.key \in Pod
    BY <1>1 DEF Working
  <2> QED
    BY <2>1, <2>2 DEF Binding
<1>3. \A b \in binds : ~ b.waited
  BY <1>1 DEF OneIsWaitedFor
<1> HIDE DEF q
<1>4. PodsTyped' /\ Working'
  BY <1>1, <1>2 DEF PodsTyped, Working, Idle
<1>5. OneIsWaitedFor'
  <2>1. sched'.pc = "waiting" /\ sched'.key = q.pod
    BY <1>1, <1>2 DEF Idle
  <2>2. q.waited
    BY DEF q
  <2> QED
    BY <1>1, <1>3, <2>1, <2>2 DEF OneIsWaitedFor
<1>6. KeyHasNoNode'
  BY <1>1 DEF KeyHasNoNode, Idle, PodsTyped
<1> QED
  BY <1>4, <1>5, <1>6

(* Whoever the worker waits for, its answer leaves the worker idle.        *)
LEMMA BindReadKeepsPodInv ==
    ASSUME PodInv, NEW b \in binds, BindRead(b)
    PROVE  PodInv'
<1> USE DEF PodInv
<1>0. b \in Binding /\ b.pod \in Pod
  BY DEF PodsTyped, Binding
<1>1. pods' = pods /\ doubtful' = doubtful
  BY DEF BindRead
<1>4. PICK v \in Views :
         IF v.pods[b.pod] = Absent
         THEN binds' = binds \ {b} /\ NotScheduled(b.waited)
         ELSE /\ binds' = (binds \ {b}) \cup
                     {[b EXCEPT !.read = IF v = Now THEN "current" ELSE "stale"]}
              /\ UNCHANGED schedVars
  BY DEF BindRead
<1>2. CASE v.pods[b.pod] = Absent
  <2>1. binds' = binds \ {b} /\ NotScheduled(b.waited)
    BY <1>2, <1>4
  <2>2. CASE b.waited
    <3>1. sched' = Idle /\ queue' = queue \cup {b.pod}
      BY <2>1, <2>2 DEF NotScheduled, OneIsWaitedFor
    <3>2. \A c \in binds' : ~ c.waited
      BY <2>1, <2>2 DEF OneIsWaitedFor
    <3> QED
      BY <1>0, <1>1, <2>1, <3>1, <3>2 DEF PodsTyped, Working, OneIsWaitedFor, KeyHasNoNode, Idle
  <2>3. CASE ~ b.waited
    <3>1. sched' = sched /\ queue' = queue
      BY <2>1, <2>3 DEF NotScheduled
    <3> QED
      BY <1>1, <2>1, <3>1 DEF PodsTyped, Working, OneIsWaitedFor, KeyHasNoNode
  <2> QED
    BY <2>2, <2>3
<1>3. CASE v.pods[b.pod] # Absent
  <2> DEFINE q == [b EXCEPT !.read = IF v = Now THEN "current" ELSE "stale"]
  <2>1. binds' = (binds \ {b}) \cup {q} /\ sched' = sched /\ queue' = queue
    BY <1>3, <1>4 DEF schedVars
  <2>2. q \in Binding /\ q.pod = b.pod /\ q.waited = b.waited
    BY <1>0 DEF Binding
  <2> HIDE DEF q
  <2> QED
    BY <1>1, <2>1, <2>2 DEF PodsTyped, Working, OneIsWaitedFor, KeyHasNoNode
<1> QED
  BY <1>2, <1>3

LEMMA BindWriteKeepsPodInv ==
    ASSUME PodInv, NEW b \in binds, BindWrite(b)
    PROVE  PodInv'
<1> USE DEF PodInv
<1>0. b \in Binding /\ b.pod \in Pod /\ b.node \in Node
  BY DEF PodsTyped, Binding
<1>1. doubtful' = doubtful
  BY DEF BindWrite
<1>2. /\ pods' \in [Pod -> Node \cup {NoNode, Absent}]
      /\ \A x \in Pod \ {b.pod} : pods'[x] = pods[x]
  BY <1>0 DEF BindWrite, PodsTyped
<1>3. \A q \in binds' :
        /\ q \in Binding
        /\ \E c \in binds \ {b} : /\ q = c \/ q = StaleBind(c, b.pod)
                                  /\ q.pod = c.pod /\ q.waited = c.waited
  <2>1. binds \ {b} \in SUBSET Binding
    BY DEF PodsTyped
  <2>2. CASE binds' = binds \ {b}
    BY <2>1, <2>2
  <2>3. CASE binds' = StaleBinds(binds \ {b}, b.pod)
    BY <1>0, <2>1, <2>3, StaleBindsAreSame
  <2> QED
    BY <2>2, <2>3 DEF BindWrite
<1>4. CASE b.waited
  <2>1. sched' = Idle /\ queue' \subseteq queue \cup {b.pod}
    BY <1>4 DEF BindWrite, Scheduled, NotScheduled, OneIsWaitedFor
  <2>2. \A c \in binds \ {b} : ~ c.waited
    BY <1>4 DEF OneIsWaitedFor
  <2>3. \A q \in binds' : ~ q.waited /\ q.pod \in doubtful
    BY <1>3, <2>2 DEF OneIsWaitedFor
  <2>4. PodsTyped'
    BY <1>0, <1>1, <1>2, <1>3, <2>1 DEF PodsTyped, Idle
  <2>5. Working' /\ KeyHasNoNode'
    BY <2>1 DEF Working, KeyHasNoNode, Idle
  <2>6. OneIsWaitedFor'
    BY <1>1, <2>3 DEF OneIsWaitedFor
  <2> QED
    BY <2>4, <2>5, <2>6
<1>5. CASE ~ b.waited
  <2>1. sched' = sched /\ queue' = queue /\ b.pod \in doubtful
    BY <1>5 DEF BindWrite, Scheduled, NotScheduled, OneIsWaitedFor
  <2>2. PodsTyped' /\ Working'
    BY <1>1, <1>2, <1>3, <2>1 DEF PodsTyped, Working
  <2>3. OneIsWaitedFor'
    <3>1. \A c, d \in binds' : c.waited /\ d.waited => c = d
      <4> SUFFICES ASSUME NEW c \in binds', NEW d \in binds', c.waited, d.waited
                   PROVE  c = d
        OBVIOUS
      <4>1. CASE binds' = binds \ {b}
        BY <4>1 DEF OneIsWaitedFor
      <4>2. CASE binds' = StaleBinds(binds \ {b}, b.pod)
        <5>1. ASSUME NEW q \in binds'
              PROVE  \E c0 \in binds \ {b} : q = StaleBind(c0, b.pod) /\ q.waited = c0.waited
          <6>1. PICK c0 \in binds \ {b} : q = StaleBind(c0, b.pod)
            BY <4>2 DEF StaleBinds
          <6>2. q.waited = c0.waited
            BY <1>0, <6>1, StaleBindIsSame DEF PodsTyped
          <6> QED
            BY <6>1, <6>2
        <5>2. PICK c0 \in binds \ {b} : c = StaleBind(c0, b.pod) /\ c.waited = c0.waited
          BY <5>1
        <5>3. PICK d0 \in binds \ {b} : d = StaleBind(d0, b.pod) /\ d.waited = d0.waited
          BY <5>1
        <5>4. c0 = d0
          BY <5>2, <5>3 DEF OneIsWaitedFor
        <5> QED
          BY <5>2, <5>3, <5>4
      <4> QED
        BY <4>1, <4>2 DEF BindWrite
    <3> QED
      BY <1>1, <1>3, <2>1, <3>1 DEF OneIsWaitedFor
  <2>4. KeyHasNoNode'
    BY <1>1, <1>2, <2>1 DEF KeyHasNoNode, Working
  <2> QED
    BY <2>2, <2>3, <2>4
<1> QED
  BY <1>4, <1>5

(* Giving up: what is still under way is remembered in doubtful.           *)
LEMMA GivingUpKeepsPodInv ==
    ASSUME PodInv, SchedulerRestarts \/ (\E b \in binds : BindingAbandoned(b))
    PROVE  PodInv'
<1> USE DEF PodInv
<1>1. pods' = pods /\ sched' = Idle /\ queue' \subseteq Pod /\ doubtful' \subseteq Pod
  <2>1. CASE SchedulerRestarts
    BY <2>1 DEF SchedulerRestarts, Unscheduled, PodsTyped, Binding
  <2>2. ASSUME NEW b \in binds, BindingAbandoned(b)
        PROVE  <1>1!:
    <3>1. sched.key = b.pod /\ b.pod \in Pod
      BY <2>2 DEF BindingAbandoned, OneIsWaitedFor, PodsTyped, Binding
    <3> QED
      BY <2>2, <3>1 DEF BindingAbandoned, NotScheduled, PodsTyped
  <2> QED
    BY <2>1, <2>2
<1> DEFINE alone(b) == [b EXCEPT !.waited = FALSE]
<1>2. \A b \in binds : alone(b) \in Binding /\ alone(b).pod = b.pod /\ ~ alone(b).waited
  BY DEF PodsTyped, Binding
<1>3. \A q \in binds' : q \in Binding /\ ~ q.waited /\ q.pod \in doubtful'
  <2>1. CASE SchedulerRestarts
    <3>1. binds' = {alone(b) : b \in binds} /\ \A b \in binds : b.pod \in doubtful'
      BY <2>1 DEF SchedulerRestarts
    <3> HIDE DEF alone
    <3> QED
      BY <3>1, <1>2
  <2>2. ASSUME NEW b \in binds, BindingAbandoned(b)
        PROVE  <1>3!:
    <3>1. /\ \A q \in binds' : q \in binds \ {b} \/ q = alone(b)
          /\ b.waited /\ doubtful' = doubtful \cup {b.pod}
      BY <2>2 DEF BindingAbandoned
    <3>2. \A c \in binds \ {b} : ~ c.waited /\ c.pod \in doubtful
      BY <3>1 DEF OneIsWaitedFor
    <3>3. binds \subseteq Binding
      BY DEF PodsTyped
    <3> HIDE DEF alone
    <3> QED
      BY <1>2, <3>1, <3>2, <3>3
  <2> QED
    BY <2>1, <2>2
<1>4. PodsTyped'
  BY <1>1, <1>3 DEF PodsTyped, Idle
<1>5. Working' /\ KeyHasNoNode'
  BY <1>1 DEF Working, KeyHasNoNode, Idle
<1>6. OneIsWaitedFor'
  BY <1>3 DEF OneIsWaitedFor
<1> QED
  BY <1>4, <1>5, <1>6

LEMMA NextKeepsPodInv ==
    ASSUME PodInv, [Next]_vars PROVE PodInv'
<1>1. CASE NodeSide \/ UNCHANGED vars
  <2>1. UNCHANGED <<sched, queue, pods, binds, doubtful>>
    BY <1>1, NodeSideKeepsPods DEF vars, schedVars, podVars
  <2> QED
    BY <2>1 DEF PodInv, PodsTyped, Working, OneIsWaitedFor, KeyHasNoNode
<1>2. CASE PodSide
  BY <1>2, WritesOfPodsKeepPodInv, WorkerStepsKeepPodInv, ResyncKeepsPodInv,
     SendBindingKeepsPodInv, BindReadKeepsPodInv, BindWriteKeepsPodInv, GivingUpKeepsPodInv, Zenon
     DEF PodSide, SchedulerStep, BindStep
<1> QED
  BY <1>1, <1>2, Zenon DEF Next, PodSide, NodeSide

LEMMA InitPodInv == Init => PodInv
BY DEF Init, PodInv, PodsTyped, Working, OneIsWaitedFor, KeyHasNoNode, Idle, Unscheduled

(* Every behaviour keeps the pods' half of the invariant.                  *)
THEOREM PodInvariant == Spec => []PodInv
BY InitPodInv, NextKeepsPodInv, PTL DEF Spec

(* bind_pod moves a pod from one node to another only if the scheduler     *)
(* gave up its answer or was shown the pod without the node it had, for    *)
(* any number of pods, nodes, mishaps and lagging replicas.                *)
THEOREM PodsStayPut == Spec => PlacedPodsStayPut
<1>1. ASSUME PodInv, [Next]_vars
      PROVE  [\A p \in Pod \ doubtful : pods[p] \in Node /\ pods'[p] \in Node
                                        => pods'[p] = pods[p]]_vars
  <2> SUFFICES ASSUME NEW p \in Pod \ doubtful, pods[p] \in Node, pods'[p] \in Node
               PROVE  pods'[p] = pods[p]
    OBVIOUS
  <2>0. NoNode \notin Node /\ Absent \notin Node
    BY PlacementAssumption DEF NoNode, Node
  <2>1. CASE NodeSide \/ UNCHANGED vars
    BY <2>1, NodeSideKeepsPods DEF vars, podVars
  <2>2. ASSUME NEW q \in Pod, Apply(q) \/ DeletePod(q) \/ ReplacePodStatus(q) \/ TakeKey(q)
        PROVE  pods'[p] = pods[p]
    BY <1>1, <2>0, <2>2
       DEF Apply, DeletePod, ReplacePodStatus, TakeKey, podVars, PodInv, PodsTyped
  <2>3. CASE Resync \/ SchedulerStep \/ RequestFails \/ SchedulerRestarts
    BY <2>3 DEF Resync, SchedulerStep, GetPod, Candidates, SendBinding, RequestFails,
                SchedulerRestarts, podVars
  <2>4. ASSUME NEW b \in binds, BindStep(b) \/ BindingAbandoned(b)
        PROVE  pods'[p] = pods[p]
    <3>1. CASE BindRead(b) \/ BindingAbandoned(b)
      BY <3>1 DEF BindRead, BindingAbandoned
    <3>2. CASE BindWrite(b)
      <4>1. CASE b.pod = p
        BY <1>1, <4>1 DEF PodInv, OneIsWaitedFor, KeyHasNoNode
      <4>2. CASE b.pod # p
        BY <1>1, <3>2, <4>2 DEF BindWrite, PodInv, PodsTyped
      <4> QED
        BY <4>1, <4>2
    <3> QED
      BY <2>4, <3>1, <3>2 DEF BindStep
  <2> QED
    BY <1>1, <2>1, <2>2, <2>3, <2>4, Zenon DEF Next, NodeSide
<1> QED
  BY <1>1, PodInvariant, PTL DEF Spec, PlacedPodsStayPut

-----------------------------------------------------------------------------
(* What lagging replicas show has been the state of the store.             *)
ViewsTyped ==
    behind \subseteq [nodes : [Node -> NodeObject \cup {Absent}],
                      pods : [Pod -> Node \cup {NoNode, Absent}]]

LEMMA NextKeepsViewsTyped ==
    ASSUME NodeInv, PodInv, ViewsTyped, [Next]_vars
    PROVE  ViewsTyped'
<1> DEFINE View == [nodes : [Node -> NodeObject \cup {Absent}],
                    pods : [Pod -> Node \cup {NoNode, Absent}]]
<1>1. CASE FallsBehind \/ CatchesUp
  <2>1. Now \in View
    BY DEF Now, NodeInv, NodesTyped, PodInv, PodsTyped
  <2>2. behind' \subseteq behind \cup {Now}
    BY <1>1 DEF FallsBehind, CatchesUp
  <2> QED
    BY <2>1, <2>2 DEF ViewsTyped
<1>2. ASSUME NEW n \in Node, HeartbeatAges(n) PROVE ViewsTyped'
  <2> SUFFICES ASSUME NEW v \in behind' PROVE v \in View
    BY DEF ViewsTyped
  <2>1. PICK w \in behind : v = [w EXCEPT !.nodes = Aged(@, n)]
    BY <1>2 DEF HeartbeatAges
  <2>2. w \in View
    BY DEF ViewsTyped
  <2>3. Aged(w.nodes, n) \in [Node -> NodeObject \cup {Absent}]
    BY <2>2, AgedKeepsSlices
  <2> QED
    BY <2>1, <2>2, <2>3
<1>3. CASE behind' = behind
  BY <1>3 DEF ViewsTyped
<1> QED
  BY <1>1, <1>2, <1>3, PodSideKeepsNodes
     DEF Next, PodSide, NodeMishap, KubeletStep, RegisterNode, LearnSlice, Heartbeat, DeleteNode,
         KubeletStops, Cordon, Registering, CheckNode, ListNodes, CreateNode,
         RegistrationAbandoned, vars, nodeVars, views

CountersTyped == restarts \in 0..MaxRestarts /\ mishaps \in 0..MaxMishaps

LEMMA NextKeepsCounters ==
    ASSUME CountersTyped, [Next]_vars PROVE CountersTyped'
<1>1. restarts' = restarts \/ (restarts < MaxRestarts /\ restarts' = restarts + 1)
  BY DEF Next, vars, KubeletStep, RegisterNode, LearnSlice, Heartbeat, HeartbeatAges, NodeMishap,
         KubeletStops, Cordon, DeleteNode, Registering, CheckNode, ListNodes, CreateNode,
         RegistrationAbandoned, Apply, DeletePod, ReplacePodStatus, TakeKey, Resync,
         SchedulerStep, GetPod, Candidates, SendBinding, RequestFails, SchedulerRestarts,
         BindStep, BindRead, BindWrite, BindingAbandoned, FallsBehind, CatchesUp
<1>2. mishaps' = mishaps \/ (mishaps < MaxMishaps /\ mishaps' = mishaps + 1)
  BY DEF Next, vars, KubeletStep, RegisterNode, LearnSlice, Heartbeat, HeartbeatAges, NodeMishap,
         KubeletStops, Cordon, DeleteNode, Registering, CheckNode, ListNodes, CreateNode,
         RegistrationAbandoned, Apply, DeletePod, ReplacePodStatus, TakeKey, Resync,
         SchedulerStep, GetPod, Candidates, SendBinding, RequestFails, SchedulerRestarts,
         BindStep, BindRead, BindWrite, BindingAbandoned, FallsBehind, CatchesUp, Mishap
<1> QED
  BY <1>1, <1>2, PlacementAssumption DEF CountersTyped

(* Every value keeps its type; in particular next_free_node_cidr_index     *)
(* never yields a slice outside the cluster's range, and the scheduler     *)
(* always has a node to choose and a key to retry.                         *)
THEOREM Typed == Spec => []TypeOK
<1>1. Init => CountersTyped /\ ViewsTyped
  BY PlacementAssumption DEF Init, CountersTyped, ViewsTyped
<1>2. NodeInv /\ PodInv /\ CountersTyped /\ ViewsTyped => TypeOK
  BY DEF NodeInv, NodesTyped, PodInv, PodsTyped, CountersTyped, ViewsTyped, TypeOK
<1> QED
  BY <1>1, <1>2, NextKeepsCounters, NextKeepsViewsTyped, NodeInvariant, PodInvariant, PTL DEF Spec
=============================================================================
