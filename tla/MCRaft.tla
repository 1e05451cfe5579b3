------------------------------- MODULE MCRaft -------------------------------
(***************************************************************************)
(* Raft.tla on a cluster of three, for TLC.  A complete history of several *)
(* elections with log entries is too large to enumerate, so besides the    *)
(* initial state of the program two later states of it are starting        *)
(* points.  Both are reached by real histories whose messages were lost,   *)
(* which is why their network is empty.                                    *)
(***************************************************************************)
EXTENDS Raft, TLC

CONSTANTS s1, s2, s3,    \* the servers
          x              \* a command

Servers == Permutations(Server)

Saved(t, v, log) == [currentTerm |-> t, votedFor |-> v, log |-> log]

(* A node that has nothing in memory but what is on its disk.              *)
Idle(d) == [NewNode EXCEPT !.currentTerm = d.currentTerm,
                           !.votedFor = d.votedFor, !.log = d.log]

(* e, c: what the bounds count as used up.                                 *)
From(d, nodes, e, c) ==
    /\ disk = d
    /\ node = nodes
    /\ up = Server
    /\ messages = {}
    /\ applied = [n \in Server |-> << >>]
    /\ chosen = << >>
    /\ elections = e
    /\ crashes = c

(* A server has just won term 1 with all the votes; one more election and  *)
(* one crash are to come.                                                  *)
EstablishedInit ==
    \E l \in Server :
        LET d == Saved(1, l, << >>)
        IN  From([n \in Server |-> d],
                 [n \in Server |-> IF n = l THEN BecomeLeader(l, Idle(d)) ELSE Idle(d)],
                 MaxElections - 1, MaxCrashes - 1)

(* Elections from the start of the program, in which nothing is proposed,  *)
(* and the life of a log from the first election on.                       *)
VARIABLE start
BootSpec == Init /\ start = "boot" /\ [][Next /\ UNCHANGED start]_<<vars, start>>
BootOrEstablishedSpec ==
    /\ \/ start = "boot" /\ Init
       \/ start = "established" /\ EstablishedInit
    /\ [][/\ Next /\ UNCHANGED start
          /\ start = "boot" => \A n \in Server : node'[n].log = << >>]_<<vars, start>>

(* s1 led term 1 and s2 led term 2, and each appended one entry that       *)
(* reached nobody.  Then s1 won term 3 with the vote of s3 and copied its  *)
(* entry of term 1 to s3: the situation of Figure 8 of the Raft paper.     *)
Old(t) == <<[term |-> t, index |-> 1, command |-> x]>>
ForkedDisk ==
    [n \in Server |-> IF n = s2 THEN Saved(2, s2, Old(2)) ELSE Saved(3, s1, Old(1))]
ForkedLeader == [BecomeLeader(s1, Idle(ForkedDisk[s1])) EXCEPT !.matchIndex[s3] = 1]
ForkedInit ==
    From(ForkedDisk,
         [n \in Server |-> IF n = s1 THEN ForkedLeader
                           ELSE [Idle(ForkedDisk[n]) EXCEPT
                                   !.leaderHint = IF n = s3 THEN s1 ELSE Nil]],
         0, 0) /\ start = "forked"
ForkedSpec == ForkedInit /\ [][Next /\ UNCHANGED start]_<<vars, start>>

(* The bounds of the Figure 8 run: it is s2 that challenges s1, with the   *)
(* entry it has, and s3 whose disk may refuse writes.                      *)
Saves(n) ==
    disk[n] = Saved(node[n].currentTerm, node[n].votedFor, node[n].log)
ForkBounds ==
    /\ node[s1].role # Candidate /\ node[s3].role # Candidate
    /\ node[s2].role = Leader => Len(node[s2].log) < MaxLog
    /\ Saves(s1) /\ Saves(s2)
=============================================================================
