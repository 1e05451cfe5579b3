----------------------------- MODULE RaftProofs -----------------------------
(***************************************************************************)
(* Proofs about Raft.tla for every cluster and all bounds, in three parts: *)
(* types and what a server keeps by itself; elections; the replicated log. *)
(***************************************************************************)
EXTENDS Raft, TLAPS, FiniteSetTheorems, SequenceTheorems, WellFoundedInduction

-----------------------------------------------------------------------------
(* Minima and maxima *)

LEMMA NatMin ==
    ASSUME NEW S \in SUBSET Nat, S # {}
    PROVE  \E a \in S : \A b \in S : a <= b
<1> DEFINE R == OpToRel(<, Nat)
<1>1. IsWellFoundedOn(R, Nat)
  BY NatLessThanWellFounded
<1> HIDE DEF R
<1>2. PICK a \in S : \A b \in S : <<b, a>> \notin R
  BY <1>1, WFMin
<1>3. \A b \in S : ~(b < a)
  BY <1>2 DEF OpToRel, R
<1> QED
  BY <1>3

LEMMA MinOfNat ==
    ASSUME NEW S \in SUBSET Nat, S # {}
    PROVE  MinOf(S) \in S /\ \A b \in S : MinOf(S) <= b
  BY NatMin DEF MinOf

LEMMA MaxOfBounded ==
    ASSUME NEW bound \in Nat, NEW S \in SUBSET (0..bound), S # {}
    PROVE  MaxOf(S) \in S /\ \A b \in S : b <= MaxOf(S)
<1> DEFINE T == {bound - a : a \in S}
<1>1. T \in SUBSET Nat /\ T # {}
  <2>1. \A a \in S : bound - a \in Nat
    OBVIOUS
  <2>2. PICK a \in S : TRUE
    OBVIOUS
  <2>3. bound - a \in T
    BY <2>2
  <2> QED
    BY <2>1, <2>3
<1>2. PICK c \in T : \A d \in T : c <= d
  BY <1>1, NatMin
<1>3. PICK a \in S : c = bound - a
  BY <1>2
<1>4. \A b \in S : b <= a
  <2> TAKE b \in S
  <2>1. bound - a <= bound - b
    BY <1>2, <1>3
  <2> QED
    BY <2>1
<1> QED
  BY <1>4 DEF MaxOf

LEMMA MaxOfPair ==
    ASSUME NEW a \in Int, NEW b \in Int
    PROVE  MaxOf({a, b}) \in {a, b} /\ MaxOf({a, b}) >= a /\ MaxOf({a, b}) >= b
<1>1. \E c \in {a, b} : \A d \in {a, b} : d <= c
  <2>1. CASE a <= b
    BY <2>1
  <2>2. CASE b <= a
    BY <2>2
  <2> QED
    BY <2>1, <2>2
<1>2. MaxOf({a, b}) \in {a, b} /\ \A d \in {a, b} : d <= MaxOf({a, b})
  BY <1>1 DEF MaxOf
<1> QED
  BY <1>2

-----------------------------------------------------------------------------
(* Types of the log operators *)

LEMMA SubSeqType ==
    ASSUME NEW log \in Seq(Entry), NEW a \in Nat \ {0}, NEW b \in Int, b <= Len(log)
    PROVE  SubSeq(log, a, b) \in Seq(Entry)
<1>1. \A i \in a..b : log[i] \in Entry
  BY ElementOfSeq, LenProperties
<1> QED
  BY <1>1, SubSeqProperties

LEMMA TermAtType ==
    ASSUME NEW log \in Seq(Entry), NEW i \in Nat
    PROVE  TermAt(log, i) \in Nat \cup {NoTerm}
<1>1. ASSUME i \in 1..Len(log) PROVE log[i].term \in Nat
  <2>1. log[i] \in Entry
    BY <1>1, ElementOfSeq
  <2> QED
    BY <2>1 DEF Entry
<1> QED
  BY <1>1 DEF TermAt

LEMMA EntriesFromType ==
    ASSUME NEW log \in Seq(Entry), NEW i \in Nat
    PROVE  EntriesFrom(log, i) \in Seq(Entry)
  BY SubSeqType, EmptySeq, LenProperties DEF EntriesFrom

LEMMA TruncateFromType ==
    ASSUME NEW log \in Seq(Entry), NEW i \in Nat
    PROVE  TruncateFrom(log, i) \in Seq(Entry)
<1>1. CASE i \in 1..Len(log)
  <2>1. SubSeq(log, 1, i - 1) \in Seq(Entry)
    BY <1>1, SubSeqType, LenProperties
  <2> QED
    BY <1>1, <2>1 DEF TruncateFrom
<1>2. CASE i \notin 1..Len(log)
  BY <1>2 DEF TruncateFrom
<1> QED
  BY <1>1, <1>2

LEMMA LastTermType ==
    ASSUME NEW log \in Seq(Entry)
    PROVE  LastTerm(log) \in Nat
<1>1. ASSUME log # << >> PROVE log[Len(log)].term \in Nat
  <2>1. Len(log) \in 1..Len(log)
    BY <1>1, EmptySeq
  <2>2. log[Len(log)] \in Entry
    BY <2>1, ElementOfSeq
  <2> QED
    BY <2>2 DEF Entry
<1> QED
  BY <1>1 DEF LastTerm

-----------------------------------------------------------------------------
(* Types of results *)

Result ==
    [node : RaftNode, persist : BOOLEAN, truncate : Nat, entries : Seq(Entry),
     applies : Seq(Entry), sends : SUBSET Message]

ResultTypeOK(r) == r \in Result /\ NodeTypeOK(r.node)

LEMMA QuietType ==
    ASSUME NEW s, NodeTypeOK(s)
    PROVE  ResultTypeOK(Quiet(s))
  BY EmptySeq DEF ResultTypeOK, Result, Quiet, NodeTypeOK

LEMMA NewNodeType == NodeTypeOK(NewNode)
  BY EmptySeq DEF NodeTypeOK, NewNode, RaftNode, NoIndex, NoVotes, Follower, Leader

LEMMA StepDownType ==
    ASSUME NEW s, NodeTypeOK(s), NEW t \in Nat
    PROVE  ResultTypeOK(MaybeStepDown(s, t))
<1> DEFINE f == [s EXCEPT !.currentTerm = t, !.votedFor = Nil, !.role = Follower,
                          !.votes = NoVotes, !.nextIndex = NoIndex, !.matchIndex = NoIndex]
<1>1. NoIndex \in [Server -> Nat]
  BY DEF NoIndex
<1>2. f \in RaftNode /\ f.role = Follower
  BY <1>1 DEF NodeTypeOK, RaftNode, Follower, NoVotes
<1>3. NodeTypeOK(f)
  BY <1>2 DEF NodeTypeOK, Follower, Leader
<1>4. ResultTypeOK(Quiet(f)) /\ ResultTypeOK(Quiet(s)) /\ Quiet(f).node = f
  BY <1>3, QuietType DEF Quiet
<1> HIDE DEF f
<1>5. ResultTypeOK([Quiet(f) EXCEPT !.persist = TRUE])
  BY <1>4 DEF ResultTypeOK, Result
<1> QED
  BY <1>4, <1>5 DEF MaybeStepDown, f

LEMMA AppendForType ==
    ASSUME NEW n \in Server, NEW p \in Server, NEW s, NodeTypeOK(s), s.role = Leader
    PROVE  AppendFor(n, s, p) \in AppendEntriesReq
<1>1. s.nextIndex[p] \in Nat /\ s.nextIndex[p] >= 1 /\ s.log \in Seq(Entry)
      /\ s.currentTerm \in Nat /\ s.commitIndex \in Nat
  BY DEF NodeTypeOK, RaftNode
<1>2. s.nextIndex[p] - 1 \in Nat
  BY <1>1
<1>3. EntriesFrom(s.log, s.nextIndex[p]) \in Seq(Entry)
  BY <1>1, EntriesFromType
<1>4. (IF TermAt(s.log, s.nextIndex[p] - 1) = NoTerm
       THEN 0 ELSE TermAt(s.log, s.nextIndex[p] - 1)) \in Nat
  BY <1>1, <1>2, TermAtType
<1> QED
  BY <1>1, <1>2, <1>3, <1>4 DEF AppendFor, AppendEntriesReq

LEMMA BroadcastType ==
    ASSUME NEW n \in Server, NEW s, NodeTypeOK(s), s.role = Leader
    PROVE  BroadcastAppend(n, s) \in SUBSET Message
  BY AppendForType DEF BroadcastAppend, Peers, Message

LEMMA AdvanceAppliedType ==
    ASSUME NEW r, ResultTypeOK(r), NEW c \in Nat, c <= Len(r.node.log)
    PROVE  ResultTypeOK(AdvanceApplied(r, c))
<1>1. r.node \in RaftNode /\ r.node.log \in Seq(Entry) /\ r.node.lastApplied \in Nat
  BY DEF ResultTypeOK, Result, RaftNode
<1>2. SubSeq(r.node.log, r.node.lastApplied + 1, c) \in Seq(Entry)
  BY <1>1, SubSeqType
<1>a. PICK ap : ap = SubSeq(r.node.log, r.node.lastApplied + 1, c)
  OBVIOUS
<1>l. PICK l \in Nat : l = Advanced(r.node.lastApplied, c)
  BY <1>1 DEF Advanced
<1>3. ap \in Seq(Entry)
  BY <1>2, <1>a
<1>4. [r EXCEPT !.node.commitIndex = c, !.node.lastApplied = l, !.applies = ap] \in Result
  BY <1>3 DEF ResultTypeOK, Result, RaftNode
<1>5. NodeTypeOK([r EXCEPT !.node.commitIndex = c, !.node.lastApplied = l, !.applies = ap].node)
  BY <1>3 DEF ResultTypeOK, Result, RaftNode, NodeTypeOK
<1> QED
  BY <1>4, <1>5, <1>a, <1>l DEF AdvanceApplied, ResultTypeOK

LEMMA TryCommitType ==
    ASSUME NEW n \in Server, NEW r, ResultTypeOK(r)
    PROVE  ResultTypeOK(TryCommit(n, r))
<1>1. r.node.log \in Seq(Entry) /\ r.node.commitIndex \in Nat
  BY DEF ResultTypeOK, Result, RaftNode
<1> DEFINE S == Committable(n, r.node)
<1>2. Len(r.node.log) \in Nat /\ S \in SUBSET (0..Len(r.node.log))
  BY <1>1, LenProperties DEF Committable, LastIndex
<1> HIDE DEF S
<1>3. CASE S # {}
  <2>0. MaxOf(S) \in S
    BY <1>2, <1>3, MaxOfBounded
  <2> DEFINE c == MaxOf(S)
  <2>a. c \in 0..Len(r.node.log)
    BY <1>2, <2>0
  <2> HIDE DEF c
  <2>b. c \in Nat /\ c <= Len(r.node.log)
    BY <1>2, <2>a
  <2>1. MaxOf(S) \in Nat /\ MaxOf(S) <= Len(r.node.log)
    BY <2>b DEF c
  <2>2. ResultTypeOK(AdvanceApplied(r, MaxOf(S)))
    BY <2>1, AdvanceAppliedType
  <2> QED
    BY <2>2 DEF TryCommit, S
<1>4. CASE S = {}
  BY <1>4 DEF TryCommit, S
<1> QED
  BY <1>3, <1>4

LEMMA BecomeLeaderType ==
    ASSUME NEW n \in Server, NEW s, NodeTypeOK(s)
    PROVE  NodeTypeOK(BecomeLeader(n, s)) /\ BecomeLeader(n, s).role = Leader
<1> DEFINE next == [p \in Server |-> LastIndex(s.log) + 1]
<1>1. next \in [Server -> Nat] /\ \A p \in Server : next[p] >= 1
  BY LenProperties DEF NodeTypeOK, RaftNode, LastIndex
<1>2. NoIndex \in [Server -> Nat] /\ s \in RaftNode
  BY DEF NoIndex, NodeTypeOK
<1> HIDE DEF next
<1> DEFINE l == [s EXCEPT !.role = Leader, !.votes = NoVotes, !.nextIndex = next,
                          !.matchIndex = NoIndex, !.leaderHint = n]
<1>3. l \in RaftNode /\ l.role = Leader /\ l.nextIndex = next
  BY <1>1, <1>2 DEF RaftNode, NoVotes, Leader
<1>4. NodeTypeOK(l)
  BY <1>1, <1>3 DEF NodeTypeOK
<1> QED
  BY <1>3, <1>4 DEF BecomeLeader, next

LEMMA TryWinType ==
    ASSUME NEW n \in Server, NEW r, ResultTypeOK(r)
    PROVE  ResultTypeOK(TryWin(n, r))
<1>1. NodeTypeOK(BecomeLeader(n, r.node)) /\ BecomeLeader(n, r.node).role = Leader
  BY BecomeLeaderType DEF ResultTypeOK
<1> DEFINE l == BecomeLeader(n, r.node)
           b == r.sends \cup BroadcastAppend(n, l)
<1>2. b \in SUBSET Message
  BY <1>1, BroadcastType DEF ResultTypeOK, Result
<1>3. l \in RaftNode /\ NodeTypeOK(l)
  BY <1>1 DEF NodeTypeOK
<1> HIDE DEF l, b
<1>4. ResultTypeOK([r EXCEPT !.node = l, !.sends = b])
  BY <1>2, <1>3 DEF ResultTypeOK, Result
<1> QED
  BY <1>4 DEF TryWin, l, b

LEMMA StartElectionType ==
    ASSUME NEW n \in Server, NEW s, NodeTypeOK(s)
    PROVE  ResultTypeOK(StartElection(n, s))
<1> DEFINE t == s.currentTerm + 1
           c == [s EXCEPT !.currentTerm = t, !.votedFor = n,
                          !.role = Candidate, !.votes = {n}, !.leaderHint = Nil]
           ms == {[type |-> "RequestVote", from |-> n, to |-> p,
                   term |-> c.currentTerm, lastLogIndex |-> LastIndex(c.log),
                   lastLogTerm |-> LastTerm(c.log)] : p \in Peers(n)}
<1>1. t \in Nat
  BY DEF NodeTypeOK, RaftNode
<1> HIDE DEF t
<1>2. c \in RaftNode /\ c.role = Candidate
  BY <1>1 DEF NodeTypeOK, RaftNode, Candidate
<1> HIDE DEF c
<1>3. NodeTypeOK(c)
  BY <1>2 DEF NodeTypeOK, Candidate, Leader
<1>4. LastIndex(c.log) \in Nat /\ LastTerm(c.log) \in Nat /\ c.currentTerm \in Nat
  BY <1>2, LenProperties, LastTermType DEF LastIndex, RaftNode
<1>5. ms \in SUBSET Message
  BY <1>4 DEF Message, RequestVoteReq, Peers
<1> HIDE DEF ms
<1>6. ResultTypeOK(Quiet(c)) /\ Quiet(c).node = c
  BY <1>3, QuietType DEF Quiet
<1>7. ResultTypeOK([Quiet(c) EXCEPT !.persist = TRUE, !.sends = ms])
  BY <1>3, <1>5, <1>6 DEF ResultTypeOK, Result
<1> QED
  BY <1>7, TryWinType DEF StartElection, t, c, ms

LEMMA OnRequestVoteType ==
    ASSUME NEW n \in Server, NEW s, NodeTypeOK(s), NEW m \in RequestVoteReq
    PROVE  ResultTypeOK(OnRequestVote(n, s, m))
<1> DEFINE r == MaybeStepDown(s, m.term)
           grant == Grants(r.node, m)
           v == IF grant THEN m.from ELSE r.node.votedFor
           p == r.persist \/ grant
           ms == {[type |-> "RequestVoteResp", from |-> n, to |-> m.from,
                   term |-> r.node.currentTerm, voteGranted |-> grant]}
<1>1. m.term \in Nat /\ m.from \in Server
  BY DEF RequestVoteReq
<1>2. ResultTypeOK(r)
  BY <1>1, StepDownType
<1> HIDE DEF r
<1>3. grant \in BOOLEAN
  BY DEF Grants
<1>4. v \in Server \cup {Nil}
  BY <1>1, <1>2 DEF ResultTypeOK, Result, RaftNode
<1>5. p \in BOOLEAN
  BY <1>2, <1>3 DEF ResultTypeOK, Result
<1>6. ms \in SUBSET Message
  BY <1>1, <1>2, <1>3 DEF ResultTypeOK, Result, RaftNode, Message, RequestVoteResp
<1> HIDE DEF grant, v, p, ms
<1>7. [r EXCEPT !.node.votedFor = v, !.persist = p, !.sends = ms] \in Result
  BY <1>2, <1>4, <1>5, <1>6 DEF ResultTypeOK, Result, RaftNode
<1>8. NodeTypeOK([r EXCEPT !.node.votedFor = v, !.persist = p, !.sends = ms].node)
  BY <1>2, <1>4, <1>5, <1>6 DEF ResultTypeOK, Result, RaftNode, NodeTypeOK
<1> QED
  BY <1>7, <1>8 DEF OnRequestVote, ResultTypeOK, r, grant, v, p, ms

LEMMA OnRequestVoteRespType ==
    ASSUME NEW n \in Server, NEW s, NodeTypeOK(s), NEW m \in RequestVoteResp
    PROVE  ResultTypeOK(OnRequestVoteResp(n, s, m))
<1> DEFINE r == MaybeStepDown(s, m.term)
           vs == r.node.votes \cup {m.from}
<1>1. m.term \in Nat /\ m.from \in Server
  BY DEF RequestVoteResp
<1>2. ResultTypeOK(r)
  BY <1>1, StepDownType
<1> HIDE DEF r
<1>3. vs \in SUBSET Server
  BY <1>1, <1>2 DEF ResultTypeOK, Result, RaftNode
<1> HIDE DEF vs
<1>4. ResultTypeOK([r EXCEPT !.node.votes = vs])
  BY <1>2, <1>3 DEF ResultTypeOK, Result, RaftNode, NodeTypeOK
<1> QED
  BY <1>2, <1>4, TryWinType DEF OnRequestVoteResp, r, vs

LEMMA MergeEntriesType ==
    ASSUME NEW r, ResultTypeOK(r), NEW m \in AppendEntriesReq
    PROVE  ResultTypeOK(MergeEntries(r, m))
<1> DEFINE D == Divergence(r.node.log, m)
           k == MinOf(D)
           i == m.prevLogIndex + k
           tail == SubSeq(m.entries, k, Len(m.entries))
           log == TruncateFrom(r.node.log, i) \o tail
           cut == IF i <= LastIndex(r.node.log) THEN i ELSE 0
<1>1. r.node.log \in Seq(Entry) /\ m.entries \in Seq(Entry) /\ m.prevLogIndex \in Nat
  BY DEF ResultTypeOK, Result, RaftNode, AppendEntriesReq
<1>2. CASE D # {}
  <2>1. D \in SUBSET Nat /\ D \subseteq 1..Len(m.entries)
    BY <1>1, LenProperties DEF Divergence
  <2>2. k \in D
    BY <1>2, <2>1, MinOfNat
  <2>3. k \in Nat \ {0} /\ i \in Nat
    BY <1>1, <2>1, <2>2
  <2>4. tail \in Seq(Entry)
    BY <1>1, <2>3, SubSeqType, LenProperties
  <2>5. TruncateFrom(r.node.log, i) \in Seq(Entry)
    BY <1>1, <2>3, TruncateFromType
  <2>6. log \in Seq(Entry)
    BY <2>4, <2>5, ConcatProperties
  <2>7. cut \in Nat
    BY <2>3
  <2> HIDE DEF D, k, i, tail, log, cut
  <2>8. [r EXCEPT !.node.log = log, !.truncate = cut, !.entries = tail] \in Result
    BY <2>4, <2>6, <2>7 DEF ResultTypeOK, Result, RaftNode
  <2>9. NodeTypeOK([r EXCEPT !.node.log = log, !.truncate = cut, !.entries = tail].node)
    BY <2>4, <2>6, <2>7 DEF ResultTypeOK, Result, RaftNode, NodeTypeOK
  <2> QED
    BY <1>2, <2>8, <2>9 DEF MergeEntries, ResultTypeOK, D, k, i, tail, log, cut
<1>3. CASE D = {}
  BY <1>3 DEF MergeEntries
<1> QED
  BY <1>2, <1>3

LEMMA FollowCommitType ==
    ASSUME NEW r, ResultTypeOK(r), NEW m \in AppendEntriesReq
    PROVE  ResultTypeOK(FollowCommit(r, m))
<1> DEFINE P == {m.leaderCommit, LastIndex(r.node.log)}
<1>1. P \in SUBSET Nat /\ P # {}
  BY LenProperties DEF ResultTypeOK, Result, RaftNode, AppendEntriesReq, LastIndex
<1>2. MinOf(P) \in Nat /\ MinOf(P) <= LastIndex(r.node.log)
  BY <1>1, MinOfNat
<1>3. ResultTypeOK(AdvanceApplied(r, MinOf(P)))
  BY <1>2, AdvanceAppliedType DEF LastIndex
<1> QED
  BY <1>3 DEF FollowCommit

LEMMA AppendReplyType ==
    ASSUME NEW n \in Server, NEW s, NodeTypeOK(s), NEW m \in AppendEntriesReq,
           NEW ok \in BOOLEAN, NEW match \in Nat
    PROVE  {AppendReply(n, s, m, ok, match)} \in SUBSET Message
  BY DEF AppendReply, AppendEntriesReq, NodeTypeOK, RaftNode, Message, AppendEntriesResp

LEMMA SendsType ==
    ASSUME NEW r, ResultTypeOK(r), NEW ms \in SUBSET Message
    PROVE  ResultTypeOK([r EXCEPT !.sends = ms])
  BY DEF ResultTypeOK, Result

LEMMA OnAppendEntriesType ==
    ASSUME NEW n \in Server, NEW s, NodeTypeOK(s), NEW m \in AppendEntriesReq
    PROVE  ResultTypeOK(OnAppendEntries(n, s, m))
<1> DEFINE r == MaybeStepDown(s, m.term)
           role == IF r.node.role = Candidate THEN Follower ELSE r.node.role
           f == [r EXCEPT !.node.role = role, !.node.votes = NoVotes,
                          !.node.leaderHint = m.from]
           g == FollowCommit(MergeEntries(f, m), m)
<1>1. m.term \in Nat /\ m.from \in Server /\ m.prevLogIndex + Len(m.entries) \in Nat
  BY LenProperties DEF AppendEntriesReq
<1>2. ResultTypeOK(r)
  BY <1>1, StepDownType
<1> HIDE DEF r
<1>3. /\ role \in {Follower, Candidate, Leader}
      /\ role = Leader => r.node.role = Leader
  BY <1>2 DEF ResultTypeOK, Result, RaftNode, Follower, Leader
<1> HIDE DEF role
<1>4. ResultTypeOK(f)
  <2>1. f \in Result
    BY <1>1, <1>2, <1>3 DEF ResultTypeOK, Result, RaftNode, NoVotes
  <2>2. NodeTypeOK(f.node)
    BY <1>1, <1>2, <1>3 DEF ResultTypeOK, Result, RaftNode, NodeTypeOK, NoVotes
  <2> QED
    BY <2>1, <2>2 DEF ResultTypeOK
<1> HIDE DEF f
<1>5. ResultTypeOK(g)
  BY <1>4, MergeEntriesType, FollowCommitType
<1> HIDE DEF g
<1>6. ResultTypeOK([r EXCEPT !.sends = {AppendReply(n, r.node, m, FALSE, 0)}])
  BY <1>2, AppendReplyType, SendsType DEF ResultTypeOK
<1>7. ResultTypeOK([f EXCEPT !.sends = {AppendReply(n, f.node, m, FALSE, 0)}])
  BY <1>4, AppendReplyType, SendsType DEF ResultTypeOK
<1>8. ResultTypeOK([g EXCEPT !.sends = {AppendReply(n, g.node, m, TRUE,
                                          m.prevLogIndex + Len(m.entries))}])
  BY <1>1, <1>5, AppendReplyType, SendsType DEF ResultTypeOK
<1> QED
  BY <1>6, <1>7, <1>8 DEF OnAppendEntries, r, role, f, g

LEMMA OnAppendEntriesRespType ==
    ASSUME NEW n \in Server, NEW s, NodeTypeOK(s), NEW m \in AppendEntriesResp
    PROVE  ResultTypeOK(OnAppendEntriesResp(n, s, m))
<1> DEFINE r == MaybeStepDown(s, m.term)
           match == MaxOf({r.node.matchIndex[m.from], m.matchIndex})
           next == match + 1
           back == WalkBack(r.node.nextIndex[m.from])
           acked == [r EXCEPT !.node.matchIndex[m.from] = match,
                              !.node.nextIndex[m.from] = next]
           probe == [r EXCEPT !.node.nextIndex[m.from] = back]
<1>1. m.term \in Nat /\ m.from \in Server /\ m.matchIndex \in Nat
  BY DEF AppendEntriesResp
<1>2. ResultTypeOK(r)
  BY <1>1, StepDownType
<1> HIDE DEF r
<1>3. r.node.matchIndex[m.from] \in Nat /\ r.node.nextIndex[m.from] \in Nat
  BY <1>1, <1>2 DEF ResultTypeOK, Result, RaftNode
<1>4. match \in Nat /\ next \in Nat /\ next >= 1
  <2>0. r.node.matchIndex[m.from] \in Int /\ m.matchIndex \in Int
    BY <1>1, <1>3
  <2>1. match \in {r.node.matchIndex[m.from], m.matchIndex}
    BY <2>0, MaxOfPair
  <2>2. match \in Nat
    BY <1>1, <1>3, <2>1
  <2> HIDE DEF match
  <2> QED
    BY <2>2
<1>5. back \in Nat /\ back >= 1
  <2> DEFINE i == r.node.nextIndex[m.from]
  <2>1. i \in Nat
    BY <1>3
  <2> HIDE DEF i
  <2>2. i - 1 \in Int /\ 1 \in Int
    BY <2>1
  <2>3. WalkBack(i) \in {i - 1, 1} /\ WalkBack(i) >= 1
    BY <2>2, MaxOfPair DEF WalkBack
  <2>4. WalkBack(i) \in Nat
    BY <2>1, <2>3
  <2> QED
    BY <2>3, <2>4 DEF i
<1> HIDE DEF match, next, back
<1>6. ResultTypeOK(acked)
  <2>1. acked \in Result
    BY <1>1, <1>2, <1>4 DEF ResultTypeOK, Result, RaftNode
  <2>2. acked.node.role = r.node.role
        /\ acked.node.nextIndex = [r.node.nextIndex EXCEPT ![m.from] = next]
    BY <1>1, <1>2, <1>4 DEF ResultTypeOK, Result, RaftNode
  <2>3. r.node.role = Leader => \A p \in Server : acked.node.nextIndex[p] >= 1
    BY <1>2, <1>4, <2>2 DEF ResultTypeOK, Result, RaftNode, NodeTypeOK
  <2> QED
    BY <2>1, <2>2, <2>3 DEF ResultTypeOK, Result, NodeTypeOK
<1>7. ResultTypeOK(probe)
  <2>1. probe \in Result
    BY <1>1, <1>2, <1>5 DEF ResultTypeOK, Result, RaftNode
  <2>2. probe.node.role = r.node.role
        /\ probe.node.nextIndex = [r.node.nextIndex EXCEPT ![m.from] = back]
    BY <1>1, <1>2, <1>5 DEF ResultTypeOK, Result, RaftNode
  <2>3. r.node.role = Leader => \A p \in Server : probe.node.nextIndex[p] >= 1
    BY <1>2, <1>5, <2>2 DEF ResultTypeOK, Result, RaftNode, NodeTypeOK
  <2> QED
    BY <2>1, <2>2, <2>3 DEF ResultTypeOK, Result, NodeTypeOK
<1>8. probe.node.role = r.node.role
  BY <1>1, <1>2, <1>5 DEF ResultTypeOK, Result, RaftNode
<1> HIDE DEF acked, probe
<1>9. r.node.role = Leader =>
        ResultTypeOK([probe EXCEPT !.sends = {AppendFor(n, probe.node, m.from)}])
  BY <1>1, <1>7, <1>8, AppendForType, SendsType DEF ResultTypeOK, Message
<1>10. ResultTypeOK(TryCommit(n, acked))
  BY <1>6, TryCommitType
<1> QED
  BY <1>2, <1>9, <1>10 DEF OnAppendEntriesResp, r, match, next, back, acked, probe

LEMMA OnProposeType ==
    ASSUME NEW n \in Server, NEW s, NodeTypeOK(s), s.role = Leader, NEW cmd \in Command
    PROVE  ResultTypeOK(OnPropose(n, s, cmd))
<1> DEFINE e == [term |-> s.currentTerm, index |-> Len(s.log) + 1, command |-> cmd]
           log == Append(s.log, e)
           a == [s EXCEPT !.log = log]
           es == <<a.log[Len(a.log)]>>
           ms == BroadcastAppend(n, a)
<1>1. s.log \in Seq(Entry) /\ s.currentTerm \in Nat /\ s \in RaftNode
  BY DEF NodeTypeOK, RaftNode
<1>2. e \in Entry
  BY <1>1, LenProperties DEF Entry
<1> HIDE DEF e
<1>3. log \in Seq(Entry) /\ log[Len(log)] = e
  BY <1>1, <1>2, AppendProperties
<1> HIDE DEF log
<1>4. NodeTypeOK(a) /\ a.role = Leader /\ a.log = log
  BY <1>1, <1>3 DEF NodeTypeOK, RaftNode
<1>5. ms \in SUBSET Message
  BY <1>4, BroadcastType
<1>6. es \in Seq(Entry)
  BY <1>2, <1>3, <1>4
<1> HIDE DEF a, es, ms
<1>7. ResultTypeOK(Quiet(a)) /\ Quiet(a).node = a
  BY <1>4, QuietType DEF Quiet
<1>8. ResultTypeOK([Quiet(a) EXCEPT !.entries = es, !.sends = ms])
  BY <1>5, <1>6, <1>7 DEF ResultTypeOK, Result
<1> QED
  BY <1>8, TryCommitType DEF OnPropose, Append1, e, log, a, es, ms

-----------------------------------------------------------------------------
(* Type correctness *)

(* Splitting a disk log at a key.                                          *)
LEMMA SplitType ==
    ASSUME NEW log \in Seq(Entry), NEW i
    PROVE  Below(log, i) \in Seq(Entry) /\ AtOrAbove(log, i) \in Seq(Entry)
<1> DEFINE S == {k \in 1..Len(log) : log[k].index < i}
           c == Cardinality(S)
<1>1. Len(log) \in Nat
  BY LenProperties
<1>2. IsFiniteSet(1..Len(log)) /\ Cardinality(1..Len(log)) = Len(log)
  BY <1>1, FS_Interval
<1>3. IsFiniteSet(S) /\ Cardinality(S) <= Cardinality(1..Len(log))
  <2>1. S \in SUBSET (1..Len(log))
    OBVIOUS
  <2> HIDE DEF S
  <2> QED
    BY <1>2, <2>1, FS_Subset
<1>4. c \in Nat /\ c <= Len(log)
  <2> HIDE DEF S
  <2> QED
    BY <1>2, <1>3, FS_CardinalityType
<1>5. KeysBelow(log, i) = c
  BY DEF KeysBelow
<1> HIDE DEF c
<1>6. SubSeq(log, 1, c) \in Seq(Entry) /\ SubSeq(log, c + 1, Len(log)) \in Seq(Entry)
  BY <1>1, <1>4, SubSeqType
<1> QED
  BY <1>5, <1>6 DEF Below, AtOrAbove

LEMMA DurableType ==
    ASSUME NEW d \in HardState, NEW r, ResultTypeOK(r)
    PROVE  /\ Durable(d, r) \in HardState
           /\ CutWrites(d, r) \subseteq HardState
           /\ TornTruncations(d, r) \subseteq HardState
<1> DEFINE h == WithHardState(d, r)
           t == WithTruncate(h, r)
<1>1. r.entries \in Seq(Entry) /\ r.truncate \in Nat /\ r.node.currentTerm \in Nat
      /\ r.node.votedFor \in Server \cup {Nil}
  BY DEF ResultTypeOK, Result, RaftNode
<1>2. h \in HardState
  BY <1>1 DEF WithHardState, HardState
<1> HIDE DEF h
<1>3. h.log \in Seq(Entry)
  BY <1>2 DEF HardState
<1>4. Below(h.log, r.truncate) \in Seq(Entry) /\ AtOrAbove(h.log, r.truncate) \in Seq(Entry)
  BY <1>3, SplitType
<1>5. t \in HardState
  BY <1>2, <1>4 DEF WithTruncate, HardState
<1> HIDE DEF t
<1>6. ASSUME NEW k \in Nat, k <= Len(r.entries)
      PROVE  WithEntries(t, r, k) \in HardState
  <2> DEFINE low == Below(t.log, r.entries[1].index)
             new == SubSeq(r.entries, 1, k)
             high == AtOrAbove(t.log, r.entries[k].index + 1)
  <2>1. new \in Seq(Entry)
    BY <1>1, <1>6, SubSeqType
  <2>2. t.log \in Seq(Entry)
    BY <1>5 DEF HardState
  <2>3. low \in Seq(Entry) /\ high \in Seq(Entry)
    BY <2>2, SplitType
  <2>4. WithEntries(t, r, k) = IF k = 0 THEN t ELSE [t EXCEPT !.log = low \o new \o high]
    BY DEF WithEntries
  <2> HIDE DEF low, new, high
  <2>5. low \o new \in Seq(Entry)
    BY <2>1, <2>3, ConcatProperties
  <2>6. low \o new \o high \in Seq(Entry)
    BY <2>3, <2>5, ConcatProperties
  <2> QED
    BY <1>5, <2>4, <2>6 DEF HardState
<1>7. Durable(d, r) \in HardState
  BY <1>1, <1>6, LenProperties DEF Durable, h, t
<1>8. CutWrites(d, r) \subseteq HardState
  <2>1. \A k \in 1..Len(r.entries) : WithEntries(t, r, k) \in HardState
    BY <1>1, <1>6, LenProperties
  <2> QED
    BY <1>2, <1>5, <2>1 DEF CutWrites, h, t
<1>9. TornTruncations(d, r) \subseteq HardState
  <2> DEFINE low == Below(h.log, r.truncate)
             doomed == AtOrAbove(h.log, r.truncate)
  <2>1. ASSUME NEW j \in 1 .. Len(doomed)
        PROVE  [h EXCEPT !.log = low \o SubSeq(doomed, j + 1, Len(doomed))] \in HardState
    <3> HIDE DEF low, doomed
    <3>1. low \in Seq(Entry) /\ doomed \in Seq(Entry) /\ Len(doomed) \in Nat
      BY <1>4, LenProperties DEF low, doomed
    <3>2. SubSeq(doomed, j + 1, Len(doomed)) \in Seq(Entry)
      BY <3>1, SubSeqType
    <3>3. low \o SubSeq(doomed, j + 1, Len(doomed)) \in Seq(Entry)
      BY <3>1, <3>2, ConcatProperties
    <3> QED
      BY <1>2, <3>3 DEF HardState
  <2> QED
    BY <2>1 DEF TornTruncations, h
<1> QED
  BY <1>7, <1>8, <1>9

(* A result that asks for fewer writes is a result.                        *)
LEMMA SomeWritesType ==
    ASSUME NEW r, ResultTypeOK(r), NEW p \in {FALSE, r.persist},
           NEW t \in {0, r.truncate}, NEW k \in 0..Len(r.entries)
    PROVE  ResultTypeOK(SomeWrites(r, p, t, k))
<1> DEFINE w == SomeWrites(r, p, t, k)
<1>1. w = [r EXCEPT !.persist = p, !.truncate = t, !.entries = SubSeq(r.entries, 1, k)]
  BY DEF SomeWrites
<1> HIDE DEF w
<1>2. r.entries \in Seq(Entry) /\ Len(r.entries) \in Nat
  BY LenProperties DEF ResultTypeOK, Result
<1>3. SubSeq(r.entries, 1, k) \in Seq(Entry)
  BY <1>2, SubSeqType
<1>4. /\ r.node \in RaftNode /\ r.persist \in BOOLEAN /\ r.truncate \in Nat
      /\ r.applies \in Seq(Entry) /\ r.sends \in SUBSET Message
  BY DEF ResultTypeOK, Result
<1>5. p \in BOOLEAN /\ t \in Nat
  <2>1. p \in BOOLEAN
    BY <1>4, Zenon
  <2>2. t \in Nat
    BY <1>4, SMT
  <2> QED
    BY <2>1, <2>2
<1> DEFINE es == SubSeq(r.entries, 1, k)
<1> HIDE DEF es
<1>6. w = [r EXCEPT !.persist = p, !.truncate = t, !.entries = es] /\ es \in Seq(Entry)
  BY <1>1, <1>3 DEF es
<1>7. w \in Result
  BY <1>5, <1>6 DEF ResultTypeOK, Result
<1>8. w.node = r.node
  BY <1>6 DEF ResultTypeOK, Result
<1> QED
  BY <1>7, <1>8 DEF ResultTypeOK, w

(* A step of the shell keeps the types, whatever well-typed result it      *)
(* executes and however the execution ends.                                *)
LEMMA RunType ==
    ASSUME TypeOK, NEW n \in Server, NEW r, ResultTypeOK(r), Run(n, r),
           elections' \in Nat
    PROVE  TypeOK'
<1> DEFINE stream == applied[n] \o r.applies
<1>1. stream \in Seq(Entry)
  BY ConcatProperties DEF TypeOK, ResultTypeOK, Result
<1> HIDE DEF stream
<1>2. ASSUME Deliver(n, r)
      PROVE  /\ DOMAIN node' = Server
             /\ \A p \in Server : NodeTypeOK(node'[p])
             /\ up' \subseteq Server
             /\ messages' \subseteq Message
             /\ applied' \in [Server -> Seq(Entry)]
             /\ chosen' \in Seq(Entry)
             /\ crashes' \in Nat
  <2>1. DOMAIN node' = Server /\ \A p \in Server : NodeTypeOK(node'[p])
    BY <1>2 DEF Deliver, TypeOK, ResultTypeOK
  <2>2. messages' \subseteq Message
    BY <1>2 DEF Deliver, TypeOK, ResultTypeOK, Result
  <2>3. applied' = [applied EXCEPT ![n] = stream]
    BY <1>2 DEF Deliver, stream
  <2>4. applied' \in [Server -> Seq(Entry)] /\ applied'[n] \in Seq(Entry)
    BY <1>1, <2>3 DEF TypeOK
  <2>5. chosen' \in {applied'[n], chosen}
    BY <1>2 DEF Deliver
  <2> QED
    BY <1>2, <2>1, <2>2, <2>4, <2>5 DEF Deliver, TypeOK
<1>3. disk[n] \in HardState
  BY DEF TypeOK
<1>4. CASE Execute(n, r)
  <2>1. disk' \in [Server -> HardState]
    BY <1>3, <1>4, DurableType DEF Execute, TypeOK
  <2> QED
    BY <1>2, <1>4, <2>1 DEF Execute, TypeOK
<1>5. CASE PersistFails(n, r)
  <2>1. PICK p \in {FALSE, r.persist}, t \in {0, r.truncate}, k \in 0..Len(r.entries) :
           disk' = [disk EXCEPT ![n] = Durable(disk[n], SomeWrites(r, p, t, k))]
    BY <1>5 DEF PersistFails
  <2>2. Durable(disk[n], SomeWrites(r, p, t, k)) \in HardState
    BY <1>3, DurableType, SomeWritesType
  <2>3. disk' \in [Server -> HardState]
    BY <2>1, <2>2 DEF TypeOK
  <2> QED
    BY <1>2, <1>5, <2>3 DEF PersistFails, TypeOK
<1>6. CASE CrashDuring(n, r)
  <2>1. PICK d \in CutWrites(disk[n], r) \cup TornTruncations(disk[n], r) :
          disk' = [disk EXCEPT ![n] = d]
    BY <1>6 DEF CrashDuring
  <2>2. disk' \in [Server -> HardState]
    BY <1>3, <2>1, DurableType DEF TypeOK
  <2>3. DOMAIN node' = Server /\ \A p \in Server : NodeTypeOK(node'[p])
    BY <1>6, NewNodeType DEF CrashDuring, TypeOK
  <2>4. applied' \in [Server -> Seq(Entry)]
    BY <1>6, EmptySeq DEF CrashDuring, TypeOK
  <2>5. crashes' \in Nat
    BY <1>6 DEF CrashDuring, TypeOK
  <2> QED
    BY <1>6, <2>2, <2>3, <2>4, <2>5 DEF CrashDuring, TypeOK
<1> QED
  BY <1>4, <1>5, <1>6 DEF Run

(* The results that a running server may execute in the current state.     *)
HandlerResult(n, m, r) ==
    \/ m \in RequestVoteReq    /\ r = OnRequestVote(n, node[n], m)
    \/ m \in RequestVoteResp   /\ r = OnRequestVoteResp(n, node[n], m)
    \/ m \in AppendEntriesReq  /\ r = OnAppendEntries(n, node[n], m)
    \/ m \in AppendEntriesResp /\ r = OnAppendEntriesResp(n, node[n], m)

StepResult(n, r) ==
    \/ r = StartElection(n, node[n])
    \/ node[n].role = Leader /\ r = [Quiet(node[n]) EXCEPT !.sends = BroadcastAppend(n, node[n])]
    \/ \E m \in messages : m.to = n /\ HandlerResult(n, m, r)
    \/ node[n].role = Leader /\ \E cmd \in Command : r = OnPropose(n, node[n], cmd)
    \/ r = Quiet(node[n])

LEMMA MessageKinds ==
    ASSUME NEW m \in Message
    PROVE  /\ m.type = "RequestVote" => m \in RequestVoteReq
           /\ m.type = "RequestVoteResp" => m \in RequestVoteResp
           /\ m.type = "AppendEntries" => m \in AppendEntriesReq
           /\ m.type = "AppendEntriesResp" => m \in AppendEntriesResp
  BY DEF Message, RequestVoteReq, RequestVoteResp, AppendEntriesReq, AppendEntriesResp

(* Every step is a restart or one server executing such a result.          *)
LEMMA NextCases ==
    ASSUME TypeOK, Next
    PROVE  \E n \in Server :
              \/ Restart(n)
              \/ n \in up /\ elections' \in Nat
                 /\ \E r : StepResult(n, r) /\ Run(n, r)
<1>1. PICK n \in Server : Timeout(n) \/ Heartbeat(n) \/ Receive(n) \/ Propose(n)
                           \/ Crash(n) \/ Restart(n)
  BY DEF Next
<1>2. CASE Timeout(n)
  <2>1. elections' \in Nat
    BY <1>2 DEF Timeout, TypeOK
  <2> QED
    BY <1>2, <2>1 DEF Timeout, StepResult
<1>3. CASE Heartbeat(n)
  BY <1>3 DEF Heartbeat, Run, StepResult, TypeOK
<1>4. CASE Receive(n)
  <2>1. PICK m \in messages :
          /\ m.to = n
          /\ \/ HandleRequestVote(n, m)
             \/ HandleRequestVoteResp(n, m)
             \/ HandleAppendEntries(n, m)
             \/ HandleAppendEntriesResp(n, m)
    BY <1>4 DEF Receive
  <2>2. m \in Message
    BY DEF TypeOK
  <2>3. \E r : HandlerResult(n, m, r) /\ Run(n, r)
    BY <2>1, <2>2, MessageKinds
       DEF HandlerResult, HandleRequestVote, HandleRequestVoteResp,
           HandleAppendEntries, HandleAppendEntriesResp
  <2>4. elections' \in Nat /\ n \in up
    BY <1>4 DEF Receive, TypeOK
  <2> QED
    BY <2>1, <2>3, <2>4 DEF StepResult
<1>5. CASE Propose(n)
  BY <1>5 DEF Propose, StepResult, TypeOK
<1>6. CASE Crash(n)
  BY <1>6 DEF Crash, Run, StepResult, TypeOK
<1> QED
  BY <1>1, <1>2, <1>3, <1>4, <1>5, <1>6

LEMMA StepResultType ==
    ASSUME TypeOK, NEW n \in Server, NEW r, StepResult(n, r)
    PROVE  ResultTypeOK(r)
<1>1. NodeTypeOK(node[n])
  BY DEF TypeOK
<1>2. CASE r = StartElection(n, node[n])
  BY <1>1, <1>2, StartElectionType
<1>3. CASE node[n].role = Leader /\ r = [Quiet(node[n]) EXCEPT !.sends = BroadcastAppend(n, node[n])]
  BY <1>1, <1>3, BroadcastType, QuietType, SendsType
<1>4. ASSUME NEW m \in messages, HandlerResult(n, m, r)
      PROVE  ResultTypeOK(r)
  BY <1>1, <1>4, OnRequestVoteType, OnRequestVoteRespType, OnAppendEntriesType,
     OnAppendEntriesRespType DEF HandlerResult
<1>5. CASE node[n].role = Leader /\ \E cmd \in Command : r = OnPropose(n, node[n], cmd)
  BY <1>1, <1>5, OnProposeType
<1>6. CASE r = Quiet(node[n])
  BY <1>1, <1>6, QuietType
<1> QED
  BY <1>2, <1>3, <1>4, <1>5, <1>6 DEF StepResult

LEMMA RecoverType ==
    ASSUME NEW d \in HardState
    PROVE  NodeTypeOK(Recover(d)) /\ Recover(d).role = Follower
<1>1. NewNode \in RaftNode /\ NewNode.role = Follower
  BY NewNodeType DEF NodeTypeOK, NewNode
<1>2. Recover(d) \in RaftNode /\ Recover(d).role = Follower
  BY <1>1 DEF Recover, RaftNode, HardState
<1> QED
  BY <1>2 DEF NodeTypeOK, Follower, Leader

LEMMA InitType == Init => TypeOK
<1> SUFFICES ASSUME Init PROVE TypeOK
  OBVIOUS
<1>1. EmptyDisk \in HardState
  BY EmptySeq DEF EmptyDisk, HardState
<1> QED
  BY <1>1, NewNodeType, EmptySeq DEF Init, TypeOK

LEMMA StepType == TypeOK /\ [Next]_vars => TypeOK'
<1> SUFFICES ASSUME TypeOK, [Next]_vars PROVE TypeOK'
  OBVIOUS
<1>1. CASE Next
  <2>1. PICK n \in Server :
          \/ Restart(n)
          \/ n \in up /\ elections' \in Nat /\ \E r : StepResult(n, r) /\ Run(n, r)
    BY <1>1, NextCases
  <2>2. CASE Restart(n)
    <3>1. NodeTypeOK(Recover(disk[n]))
      BY RecoverType DEF TypeOK
    <3> QED
      BY <2>2, <3>1 DEF Restart, TypeOK
  <2>3. CASE n \in up /\ elections' \in Nat /\ \E r : StepResult(n, r) /\ Run(n, r)
    BY <2>3, StepResultType, RunType
  <2> QED
    BY <2>1, <2>2, <2>3
<1>2. CASE UNCHANGED vars
  BY <1>2 DEF vars, TypeOK
<1> QED
  BY <1>1, <1>2

(* Type correctness of the protocol for every cluster size, under crashes  *)
(* and under both storage faults.  It includes that next_index of a leader *)
(* stays at least 1, so that `next - 1` in append_for never underflows.    *)
THEOREM TypeCorrect == Spec => []TypeOK
  BY InitType, StepType, PTL DEF Spec

-----------------------------------------------------------------------------
(***************************************************************************)
(* Election Safety of Raft.tla, for every finite cluster, any number of    *)
(* crashes, and a network that delays, reorders, duplicates and loses      *)
(* messages, provided the disk reports no errors (they are what makes the  *)
(* property false: see PersistFails).                                      *)
(*                                                                         *)
(* The argument.  VoteInv is inductive: a vote is on the voter's disk      *)
(* before it leaves (BallotsAreDurable), hence no voter votes twice in a   *)
(* term (BallotsAreUnique); candidates count only votes that were cast,    *)
(* and a leader has a majority of them.  Two majorities share a voter.     *)
(***************************************************************************)

-----------------------------------------------------------------------------
(* What a handler may do to the vote, and what it may say about it.        *)

VoteResult(n, s, r) ==
    /\ r.node.currentTerm >= s.currentTerm
    /\ r.node.currentTerm = s.currentTerm => s.votedFor \in {Nil, r.node.votedFor}
    /\ ~r.persist => r.node.currentTerm = s.currentTerm /\ r.node.votedFor = s.votedFor
    /\ \A m \in r.sends :
          /\ m.from = n
          /\ m.term = r.node.currentTerm
          /\ m.type = "RequestVoteResp" /\ m.voteGranted => m.to = r.node.votedFor
          /\ m.type = "RequestVote" => r.node.votedFor = n
          /\ m.type = "AppendEntries" => r.node.role = Leader

(* What a node believes about the election of its term is backed by        *)
(* ballots among M.                                                        *)
Backed(M, n, s) ==
    /\ s.role = Candidate => \A v \in s.votes : BallotIn(M, v, n, s.currentTerm)
    /\ s.role = Leader => WonIn(M, n, s.currentTerm)

(* q differs from r in nothing an election depends on.                     *)
KeepsVote(q, r) ==
    /\ q.node.role = r.node.role
    /\ q.node.currentTerm = r.node.currentTerm
    /\ q.node.votedFor = r.node.votedFor
    /\ q.node.votes = r.node.votes
    /\ q.persist = r.persist
    /\ q.sends = r.sends

LEMMA BallotMonotone ==
    ASSUME NEW M, NEW N, M \subseteq N, NEW v, NEW c, NEW t, BallotIn(M, v, c, t)
    PROVE  BallotIn(N, v, c, t)
  BY DEF BallotIn

LEMMA WonMonotone ==
    ASSUME NEW M, NEW N, M \subseteq N, NEW c, NEW t, WonIn(M, c, t)
    PROVE  WonIn(N, c, t)
  BY BallotMonotone DEF WonIn

LEMMA BackedMonotone ==
    ASSUME NEW M, NEW N, M \subseteq N, NEW n, NEW s, Backed(M, n, s)
    PROVE  Backed(N, n, s)
  BY BallotMonotone, WonMonotone DEF Backed

LEMMA StepDownVote ==
    ASSUME NEW n, NEW s, NodeTypeOK(s), NEW t \in Nat
    PROVE  LET r == MaybeStepDown(s, t)
           IN  /\ VoteResult(n, s, r)
               /\ r.sends = {}
               /\ r.node.currentTerm >= t
               /\ \/ r.node = s
                  \/ r.node.role = Follower /\ r.persist
               /\ \A M : Backed(M, n, s) => Backed(M, n, r.node)
<1> DEFINE r == MaybeStepDown(s, t)
<1>1. s \in RaftNode /\ s.currentTerm \in Nat
  BY DEF NodeTypeOK, RaftNode
<1>2. CASE t <= s.currentTerm
  <2>1. r.node = s /\ r.sends = {} /\ r.persist = FALSE
    BY <1>2 DEF MaybeStepDown, Quiet
  <2> HIDE DEF r
  <2>2. VoteResult(n, s, r) /\ r.node.currentTerm >= t
    BY <1>1, <1>2, <2>1 DEF VoteResult
  <2> QED
    BY <2>1, <2>2 DEF r
<1>3. CASE t > s.currentTerm
  <2>1. ~(t <= s.currentTerm)
    BY <1>1, <1>3
  <2>2. r.node.currentTerm = t /\ r.node.role = Follower /\ r.sends = {} /\ r.persist = TRUE
    BY <1>1, <2>1 DEF MaybeStepDown, Quiet, RaftNode
  <2> HIDE DEF r
  <2>3. VoteResult(n, s, r) /\ r.node.currentTerm >= t
    BY <1>1, <1>3, <2>2 DEF VoteResult
  <2>4. \A M : Backed(M, n, r.node)
    BY <2>2 DEF Backed, Follower, Candidate, Leader
  <2> QED
    BY <2>2, <2>3, <2>4 DEF r
<1> QED
  BY <1>1, <1>2, <1>3

LEMMA AppendForVote ==
    ASSUME NEW n, NEW s, NEW p
    PROVE  /\ AppendFor(n, s, p).from = n
           /\ AppendFor(n, s, p).term = s.currentTerm
           /\ AppendFor(n, s, p).type = "AppendEntries"
  BY DEF AppendFor

LEMMA AdvanceAppliedVote ==
    ASSUME NEW r, ResultTypeOK(r), NEW c
    PROVE  KeepsVote(AdvanceApplied(r, c), r)
<1>a. PICK ap, l : /\ ap = SubSeq(r.node.log, r.node.lastApplied + 1, c)
                   /\ l = Advanced(r.node.lastApplied, c)
  OBVIOUS
<1>1. KeepsVote([r EXCEPT !.node.commitIndex = c, !.node.lastApplied = l, !.applies = ap], r)
  BY DEF KeepsVote, ResultTypeOK, Result, RaftNode
<1> QED
  BY <1>1, <1>a DEF AdvanceApplied

LEMMA TryCommitVote ==
    ASSUME NEW n, NEW r, ResultTypeOK(r)
    PROVE  KeepsVote(TryCommit(n, r), r)
  BY AdvanceAppliedVote DEF TryCommit, KeepsVote

LEMMA FollowCommitVote ==
    ASSUME NEW r, ResultTypeOK(r), NEW m
    PROVE  KeepsVote(FollowCommit(r, m), r)
  BY AdvanceAppliedVote DEF FollowCommit, KeepsVote

LEMMA MergeEntriesVote ==
    ASSUME NEW r, ResultTypeOK(r), NEW m
    PROVE  KeepsVote(MergeEntries(r, m), r)
<1> DEFINE k == MinOf(Divergence(r.node.log, m))
           i == m.prevLogIndex + k
           tail == SubSeq(m.entries, k, Len(m.entries))
           log == TruncateFrom(r.node.log, i) \o tail
           cut == IF i <= LastIndex(r.node.log) THEN i ELSE 0
<1> HIDE DEF k, i, tail, log, cut
<1>1. KeepsVote([r EXCEPT !.node.log = log, !.truncate = cut, !.entries = tail], r)
  BY DEF KeepsVote, ResultTypeOK, Result, RaftNode
<1>2. KeepsVote(r, r)
  BY DEF KeepsVote
<1> QED
  BY <1>1, <1>2 DEF MergeEntries, k, i, tail, log, cut

LEMMA KeepsVoteResult ==
    ASSUME NEW n, NEW s, NEW r, NEW q, KeepsVote(q, r), VoteResult(n, s, r)
    PROVE  /\ VoteResult(n, s, q)
           /\ \A M : Backed(M, n, r.node) => Backed(M, n, q.node)
  BY DEF KeepsVote, VoteResult, Backed

(* A candidate that counts only ballots wins only with a majority of them. *)
LEMMA TryWinVote ==
    ASSUME NEW n \in Server, NEW s, NEW r, ResultTypeOK(r), VoteResult(n, s, r),
           NEW M, Backed(M, n, r.node)
    PROVE  /\ VoteResult(n, s, TryWin(n, r))
           /\ Backed(M, n, TryWin(n, r).node)
           /\ r.sends \subseteq TryWin(n, r).sends
<1>1. CASE r.node.role = Candidate /\ Cardinality(r.node.votes) >= Majority
  <2> DEFINE l == BecomeLeader(n, r.node)
             b == r.sends \cup BroadcastAppend(n, l)
             q == [r EXCEPT !.node = l, !.sends = b]
  <2>1. l.role = Leader /\ l.currentTerm = r.node.currentTerm /\ l.votedFor = r.node.votedFor
    BY DEF BecomeLeader, ResultTypeOK, Result, RaftNode
  <2>2. \A m \in BroadcastAppend(n, l) :
           m.from = n /\ m.term = l.currentTerm /\ m.type = "AppendEntries"
    BY AppendForVote DEF BroadcastAppend
  <2>3. q.node = l /\ q.sends = b /\ q.persist = r.persist
    BY DEF ResultTypeOK, Result
  <2>4. TryWin(n, r) = q
    BY <1>1 DEF TryWin
  <2>5. \A m \in r.sends : m.type # "AppendEntries"
    BY <1>1 DEF VoteResult, Candidate, Leader
  <2>6. r.node.votes \in SUBSET Server
    BY DEF ResultTypeOK, Result, RaftNode
  <2>7. WonIn(M, n, r.node.currentTerm)
    BY <1>1, <2>6 DEF WonIn, Backed
  <2> HIDE DEF l, q
  <2>8. VoteResult(n, s, q)
    BY <2>1, <2>2, <2>3, <2>5 DEF VoteResult
  <2>9. Backed(M, n, q.node)
    BY <2>1, <2>3, <2>7 DEF Backed, Candidate, Leader
  <2> QED
    BY <2>3, <2>4, <2>8, <2>9
<1>2. CASE ~(r.node.role = Candidate /\ Cardinality(r.node.votes) >= Majority)
  BY <1>2 DEF TryWin
<1> QED
  BY <1>1, <1>2

-----------------------------------------------------------------------------
(* The handlers *)

LEMMA StartElectionVote ==
    ASSUME NEW n \in Server, NEW s, NodeTypeOK(s), NEW M
    PROVE  /\ VoteResult(n, s, StartElection(n, s))
           /\ Backed(M \cup StartElection(n, s).sends, n, StartElection(n, s).node)
<1> DEFINE t == s.currentTerm + 1
           c == [s EXCEPT !.currentTerm = t, !.votedFor = n,
                          !.role = Candidate, !.votes = {n}, !.leaderHint = Nil]
           ms == {[type |-> "RequestVote", from |-> n, to |-> p,
                   term |-> c.currentTerm, lastLogIndex |-> LastIndex(c.log),
                   lastLogTerm |-> LastTerm(c.log)] : p \in Peers(n)}
           r == [Quiet(c) EXCEPT !.persist = TRUE, !.sends = ms]
           N == M \cup StartElection(n, s).sends
<1>1. s \in RaftNode /\ s.currentTerm \in Nat /\ t \in Nat /\ t > s.currentTerm
  BY DEF NodeTypeOK, RaftNode
<1> HIDE DEF t
<1>2. c \in RaftNode /\ c.role = Candidate /\ c.currentTerm = t /\ c.votedFor = n /\ c.votes = {n}
  BY <1>1 DEF RaftNode, Candidate
<1> HIDE DEF c
<1>3. NodeTypeOK(c)
  BY <1>2 DEF NodeTypeOK, Candidate, Leader
<1>4. LastIndex(c.log) \in Nat /\ LastTerm(c.log) \in Nat
  BY <1>2, LenProperties, LastTermType DEF LastIndex, RaftNode
<1>5. ms \in SUBSET Message
  BY <1>1, <1>2, <1>4 DEF Message, RequestVoteReq, Peers
<1>6. \A m \in ms : m.from = n /\ m.term = t /\ m.type = "RequestVote"
  BY <1>2
<1>7. \A p \in Peers(n) : \E m \in ms : m.from = n /\ m.term = t /\ m.type = "RequestVote"
  <2> TAKE p \in Peers(n)
  <2> DEFINE x == [type |-> "RequestVote", from |-> n, to |-> p,
                   term |-> c.currentTerm, lastLogIndex |-> LastIndex(c.log),
                   lastLogTerm |-> LastTerm(c.log)]
  <2>1. x \in ms
    OBVIOUS
  <2> QED
    BY <1>6, <2>1
<1> HIDE DEF ms
<1>8. r.node = c /\ r.sends = ms /\ r.persist = TRUE
  BY DEF Quiet
<1>9. ResultTypeOK(r)
  BY <1>3, <1>5, QuietType DEF ResultTypeOK, Result, Quiet
<1>10. StartElection(n, s) = TryWin(n, r)
  BY DEF StartElection, t, c, ms
<1> HIDE DEF r
<1>11. VoteResult(n, s, r)
  BY <1>1, <1>2, <1>6, <1>8 DEF VoteResult
<1>12. BallotIn(M \cup ms, n, n, t)
  BY <1>7 DEF BallotIn, Peers
<1>13. Backed(M \cup ms, n, r.node)
  BY <1>2, <1>8, <1>12 DEF Backed, Candidate, Leader
<1>14. /\ VoteResult(n, s, TryWin(n, r))
       /\ Backed(M \cup ms, n, TryWin(n, r).node)
       /\ r.sends \subseteq TryWin(n, r).sends
  BY <1>9, <1>11, <1>13, TryWinVote
<1>15. M \cup ms \subseteq M \cup TryWin(n, r).sends
  BY <1>8, <1>14
<1> QED
  BY <1>10, <1>14, <1>15, BackedMonotone

LEMMA OnRequestVoteVote ==
    ASSUME NEW n \in Server, NEW s, NodeTypeOK(s), NEW m \in RequestVoteReq,
           NEW M, Backed(M, n, s)
    PROVE  /\ VoteResult(n, s, OnRequestVote(n, s, m))
           /\ Backed(M, n, OnRequestVote(n, s, m).node)
<1> DEFINE r == MaybeStepDown(s, m.term)
           grant == Grants(r.node, m)
           v == IF grant THEN m.from ELSE r.node.votedFor
           p == r.persist \/ grant
           ms == {[type |-> "RequestVoteResp", from |-> n, to |-> m.from,
                   term |-> r.node.currentTerm, voteGranted |-> grant]}
           q == [r EXCEPT !.node.votedFor = v, !.persist = p, !.sends = ms]
<1>1. m.term \in Nat
  BY DEF RequestVoteReq
<1>2. ResultTypeOK(r)
  BY <1>1, StepDownType
<1>3. VoteResult(n, s, r) /\ Backed(M, n, r.node)
  BY <1>1, StepDownVote
<1> HIDE DEF r
<1>4. grant \in BOOLEAN
  BY DEF Grants
<1>5. grant => r.node.votedFor \in {Nil, m.from}
  BY DEF Grants
<1>6. r.node.votedFor \in {Nil, v}
  BY <1>5
<1>7. \A x \in ms :
         /\ x.from = n
         /\ x.term = r.node.currentTerm
         /\ x.type = "RequestVoteResp"
         /\ x.voteGranted => x.to = v
  BY <1>4
<1>8. ~p => v = r.node.votedFor /\ ~r.persist
  OBVIOUS
<1> HIDE DEF grant, v, p, ms
<1>9. /\ q.node.currentTerm = r.node.currentTerm
      /\ q.node.votedFor = v
      /\ q.node.role = r.node.role
      /\ q.node.votes = r.node.votes
      /\ q.persist = p
      /\ q.sends = ms
  BY <1>2 DEF ResultTypeOK, Result, RaftNode
<1>10. OnRequestVote(n, s, m) = q
  BY DEF OnRequestVote, r, grant, v, p, ms
<1> HIDE DEF q
<1>11. r.node.currentTerm = s.currentTerm => s.votedFor \in {Nil, v}
  BY <1>3, <1>6 DEF VoteResult
<1>12. VoteResult(n, s, q)
  <2>1. q.node.currentTerm >= s.currentTerm
    BY <1>3, <1>9 DEF VoteResult
  <2>2. q.node.currentTerm = s.currentTerm => s.votedFor \in {Nil, q.node.votedFor}
    BY <1>9, <1>11
  <2>3. ~q.persist => q.node.currentTerm = s.currentTerm /\ q.node.votedFor = s.votedFor
    BY <1>3, <1>8, <1>9 DEF VoteResult
  <2>4. \A x \in q.sends :
          /\ x.from = n
          /\ x.term = q.node.currentTerm
          /\ x.type = "RequestVoteResp"
          /\ x.voteGranted => x.to = q.node.votedFor
    BY <1>7, <1>9
  <2> QED
    BY <2>1, <2>2, <2>3, <2>4 DEF VoteResult
<1>13. Backed(M, n, q.node)
  BY <1>3, <1>9 DEF Backed
<1> QED
  BY <1>10, <1>12, <1>13

LEMMA OnRequestVoteRespVote ==
    ASSUME NEW n \in Server, NEW s, NodeTypeOK(s), NEW m \in RequestVoteResp,
           m.to = n, NEW M, Backed(M, n, s), m \in M
    PROVE  /\ VoteResult(n, s, OnRequestVoteResp(n, s, m))
           /\ Backed(M, n, OnRequestVoteResp(n, s, m).node)
<1> DEFINE r == MaybeStepDown(s, m.term)
           vs == r.node.votes \cup {m.from}
           q == [r EXCEPT !.node.votes = vs]
<1>1. m.term \in Nat /\ m.from \in Server /\ m.type = "RequestVoteResp"
  BY DEF RequestVoteResp
<1>2. ResultTypeOK(r)
  BY <1>1, StepDownType
<1>3. VoteResult(n, s, r) /\ Backed(M, n, r.node)
  BY <1>1, StepDownVote
<1> HIDE DEF r
<1>4. CASE r.node.role = Candidate /\ m.term = r.node.currentTerm /\ m.voteGranted
  <2>1. vs \in SUBSET Server
    BY <1>1, <1>2 DEF ResultTypeOK, Result, RaftNode
  <2>2. BallotIn(M, m.from, n, r.node.currentTerm)
    BY <1>1, <1>4 DEF BallotIn
  <2>3. \A v \in vs : BallotIn(M, v, n, r.node.currentTerm)
    BY <1>3, <1>4, <2>2 DEF Backed
  <2> HIDE DEF vs
  <2>4. /\ q.node.currentTerm = r.node.currentTerm
        /\ q.node.votedFor = r.node.votedFor
        /\ q.node.role = r.node.role
        /\ q.node.votes = vs
        /\ q.persist = r.persist
        /\ q.sends = r.sends
    BY <1>2 DEF ResultTypeOK, Result, RaftNode
  <2>5. ResultTypeOK(q)
    BY <1>2, <2>1 DEF ResultTypeOK, Result, RaftNode, NodeTypeOK
  <2>6. OnRequestVoteResp(n, s, m) = TryWin(n, q)
    BY <1>4 DEF OnRequestVoteResp, r, vs
  <2> HIDE DEF q
  <2>7. VoteResult(n, s, q)
    BY <1>3, <2>4 DEF VoteResult
  <2>8. Backed(M, n, q.node)
    BY <1>4, <2>3, <2>4 DEF Backed, Candidate, Leader
  <2> QED
    BY <2>5, <2>6, <2>7, <2>8, TryWinVote
<1>5. CASE ~(r.node.role = Candidate /\ m.term = r.node.currentTerm /\ m.voteGranted)
  BY <1>3, <1>5 DEF OnRequestVoteResp, r
<1> QED
  BY <1>4, <1>5

LEMMA RepliesVote ==
    ASSUME NEW n \in Server, NEW s, NEW r, ResultTypeOK(r), VoteResult(n, s, r),
           NEW ms,
           \A x \in ms :
              /\ x.from = n
              /\ x.term = r.node.currentTerm
              /\ \/ x.type = "AppendEntriesResp"
                 \/ x.type = "AppendEntries" /\ r.node.role = Leader
    PROVE  /\ VoteResult(n, s, [r EXCEPT !.sends = ms])
           /\ [r EXCEPT !.sends = ms].node = r.node
  BY DEF VoteResult, ResultTypeOK, Result

LEMMA OnAppendEntriesVote ==
    ASSUME NEW n \in Server, NEW s, NodeTypeOK(s), NEW m \in AppendEntriesReq,
           NEW M, Backed(M, n, s)
    PROVE  /\ VoteResult(n, s, OnAppendEntries(n, s, m))
           /\ Backed(M, n, OnAppendEntries(n, s, m).node)
<1> DEFINE r == MaybeStepDown(s, m.term)
           role == IF r.node.role = Candidate THEN Follower ELSE r.node.role
           f == [r EXCEPT !.node.role = role, !.node.votes = NoVotes,
                          !.node.leaderHint = m.from]
           e == MergeEntries(f, m)
           g == FollowCommit(e, m)
           Reply(q, ok, match) == {AppendReply(n, q.node, m, ok, match)}
<1>1. m.term \in Nat /\ m.from \in Server
  BY DEF AppendEntriesReq
<1>2. ResultTypeOK(r)
  BY <1>1, StepDownType
<1>3. VoteResult(n, s, r) /\ Backed(M, n, r.node) /\ r.sends = {}
  BY <1>1, StepDownVote
<1> HIDE DEF r
<1>4. /\ role \in {Follower, Candidate, Leader}
      /\ role # Candidate
      /\ role = Leader => r.node.role = Leader
  BY <1>2 DEF ResultTypeOK, Result, RaftNode, Follower, Leader, Candidate
<1> HIDE DEF role
<1>5. ResultTypeOK(f)
  <2>1. f \in Result
    BY <1>1, <1>2, <1>4 DEF ResultTypeOK, Result, RaftNode, NoVotes
  <2>2. NodeTypeOK(f.node)
    BY <1>1, <1>2, <1>4 DEF ResultTypeOK, Result, RaftNode, NodeTypeOK, NoVotes
  <2> QED
    BY <2>1, <2>2 DEF ResultTypeOK
<1>6. /\ f.node.currentTerm = r.node.currentTerm
      /\ f.node.votedFor = r.node.votedFor
      /\ f.node.role = role
      /\ f.persist = r.persist
      /\ f.sends = {}
  BY <1>2, <1>3 DEF ResultTypeOK, Result, RaftNode
<1> HIDE DEF f
<1>7. VoteResult(n, s, f) /\ Backed(M, n, f.node)
  BY <1>3, <1>4, <1>6 DEF VoteResult, Backed
<1>8. ResultTypeOK(e) /\ VoteResult(n, s, e) /\ Backed(M, n, e.node)
  BY <1>5, <1>7, MergeEntriesType, MergeEntriesVote, KeepsVoteResult
<1> HIDE DEF e
<1>9. ResultTypeOK(g) /\ VoteResult(n, s, g) /\ Backed(M, n, g.node)
  BY <1>8, FollowCommitType, FollowCommitVote, KeepsVoteResult
<1> HIDE DEF g
<1>10. ASSUME NEW q, ResultTypeOK(q), VoteResult(n, s, q), Backed(M, n, q.node),
              NEW ok, NEW match
       PROVE  /\ VoteResult(n, s, [q EXCEPT !.sends = Reply(q, ok, match)])
              /\ Backed(M, n, [q EXCEPT !.sends = Reply(q, ok, match)].node)
  <2>1. \A x \in Reply(q, ok, match) :
           x.from = n /\ x.term = q.node.currentTerm /\ x.type = "AppendEntriesResp"
    BY DEF AppendReply
  <2> HIDE DEF Reply
  <2> QED
    BY <1>10, <2>1, RepliesVote
<1> QED
  BY <1>2, <1>3, <1>5, <1>7, <1>9, <1>10 DEF OnAppendEntries, r, role, f, e, g

LEMMA OnAppendEntriesRespVote ==
    ASSUME NEW n \in Server, NEW s, NodeTypeOK(s), NEW m \in AppendEntriesResp,
           NEW M, Backed(M, n, s)
    PROVE  /\ VoteResult(n, s, OnAppendEntriesResp(n, s, m))
           /\ Backed(M, n, OnAppendEntriesResp(n, s, m).node)
<1> DEFINE r == MaybeStepDown(s, m.term)
           match == MaxOf({r.node.matchIndex[m.from], m.matchIndex})
           next == match + 1
           back == WalkBack(r.node.nextIndex[m.from])
           acked == [r EXCEPT !.node.matchIndex[m.from] = match,
                              !.node.nextIndex[m.from] = next]
           probe == [r EXCEPT !.node.nextIndex[m.from] = back]
           ms == {AppendFor(n, probe.node, m.from)}
<1>1. m.term \in Nat /\ m.from \in Server /\ m.matchIndex \in Nat
  BY DEF AppendEntriesResp
<1>2. ResultTypeOK(r)
  BY <1>1, StepDownType
<1>3. VoteResult(n, s, r) /\ Backed(M, n, r.node)
  BY <1>1, StepDownVote
<1> HIDE DEF r
<1>4. r.node.matchIndex[m.from] \in Nat /\ r.node.nextIndex[m.from] \in Nat
  BY <1>1, <1>2 DEF ResultTypeOK, Result, RaftNode
<1>5. match \in Nat /\ next \in Nat /\ next >= 1
  <2>0. r.node.matchIndex[m.from] \in Int /\ m.matchIndex \in Int
    BY <1>1, <1>4
  <2>1. match \in {r.node.matchIndex[m.from], m.matchIndex}
    BY <2>0, MaxOfPair
  <2>2. match \in Nat
    BY <1>1, <1>4, <2>1
  <2> HIDE DEF match
  <2> QED
    BY <2>2
<1> HIDE DEF match, next, back
<1>6. KeepsVote(acked, r) /\ KeepsVote(probe, r)
  BY <1>2 DEF KeepsVote, ResultTypeOK, Result, RaftNode
<1>7. acked \in Result
  BY <1>1, <1>2, <1>5 DEF ResultTypeOK, Result, RaftNode
<1>8. probe.node = [r.node EXCEPT !.nextIndex[m.from] = back]
  BY <1>2 DEF ResultTypeOK, Result
<1>9. CASE m.term < r.node.currentTerm \/ r.node.role # Leader
  BY <1>3, <1>9 DEF OnAppendEntriesResp, r
<1>10. CASE ~(m.term < r.node.currentTerm \/ r.node.role # Leader) /\ m.success
  <2>1. OnAppendEntriesResp(n, s, m) = TryCommit(n, acked)
    BY <1>10 DEF OnAppendEntriesResp, r, match, next
  <2>2. ResultTypeOK(acked)
    <3>1. acked.node.role = r.node.role
          /\ acked.node.nextIndex = [r.node.nextIndex EXCEPT ![m.from] = next]
      BY <1>1, <1>2, <1>5 DEF ResultTypeOK, Result, RaftNode
    <3>2. r.node.role = Leader => \A p \in Server : acked.node.nextIndex[p] >= 1
      BY <1>2, <1>5, <3>1 DEF ResultTypeOK, Result, RaftNode, NodeTypeOK
    <3> QED
      BY <1>7, <3>1, <3>2 DEF ResultTypeOK, Result, NodeTypeOK
  <2> HIDE DEF acked
  <2>3. VoteResult(n, s, acked) /\ Backed(M, n, acked.node)
    BY <1>3, <1>6, KeepsVoteResult
  <2> QED
    BY <2>1, <2>2, <2>3, TryCommitVote, KeepsVoteResult
<1>11. CASE ~(m.term < r.node.currentTerm \/ r.node.role # Leader) /\ ~m.success
  <2>1. OnAppendEntriesResp(n, s, m) = [probe EXCEPT !.sends = ms]
    BY <1>11 DEF OnAppendEntriesResp, r, back
  <2>2. VoteResult(n, s, probe) /\ Backed(M, n, probe.node)
    BY <1>3, <1>6, KeepsVoteResult
  <2>3. \A x \in ms :
          x.from = n /\ x.term = probe.node.currentTerm /\ x.type = "AppendEntries"
    BY AppendForVote
  <2>4. probe.node.role = Leader
    BY <1>6, <1>11 DEF KeepsVote
  <2> HIDE DEF ms
  <2>5. DOMAIN probe = DOMAIN r /\ [probe EXCEPT !.sends = ms].node = probe.node
        /\ [probe EXCEPT !.sends = ms].sends = ms
        /\ [probe EXCEPT !.sends = ms].persist = probe.persist
    BY <1>2 DEF ResultTypeOK, Result
  <2> HIDE DEF probe
  <2>6. VoteResult(n, s, [probe EXCEPT !.sends = ms])
    BY <2>2, <2>3, <2>4, <2>5 DEF VoteResult
  <2> QED
    BY <2>1, <2>2, <2>5, <2>6
<1> QED
  BY <1>9, <1>10, <1>11

LEMMA OnProposeVote ==
    ASSUME NEW n \in Server, NEW s, NodeTypeOK(s), s.role = Leader, NEW cmd \in Command,
           NEW M, Backed(M, n, s)
    PROVE  /\ VoteResult(n, s, OnPropose(n, s, cmd))
           /\ Backed(M, n, OnPropose(n, s, cmd).node)
<1> DEFINE log == Append1(s.log, s.currentTerm, cmd)
           a == [s EXCEPT !.log = log]
           es == <<a.log[Len(a.log)]>>
           ms == BroadcastAppend(n, a)
           r == [Quiet(a) EXCEPT !.entries = es, !.sends = ms]
<1>1. s.log \in Seq(Entry) /\ s.currentTerm \in Nat /\ s \in RaftNode
  BY DEF NodeTypeOK, RaftNode
<1>2. [term |-> s.currentTerm, index |-> Len(s.log) + 1, command |-> cmd] \in Entry
  BY <1>1, LenProperties DEF Entry
<1>3. log \in Seq(Entry) /\ log[Len(log)] \in Entry
  BY <1>1, <1>2, AppendProperties DEF Append1
<1> HIDE DEF log
<1>4. /\ NodeTypeOK(a) /\ a.role = Leader /\ a.log = log
      /\ a.currentTerm = s.currentTerm /\ a.votedFor = s.votedFor
  BY <1>1, <1>3 DEF NodeTypeOK, RaftNode
<1>7. OnPropose(n, s, cmd) = TryCommit(n, r)
  BY DEF OnPropose, log
<1> HIDE DEF a
<1>5. \A x \in ms : x.from = n /\ x.term = a.currentTerm /\ x.type = "AppendEntries"
  BY AppendForVote DEF BroadcastAppend
<1>6. ms \in SUBSET Message /\ es \in Seq(Entry)
  <2>1. ms \in SUBSET Message
    BY <1>4, BroadcastType
  <2>2. es \in Seq(Entry)
    BY <1>3, <1>4
  <2> QED
    BY <2>1, <2>2
<1> HIDE DEF es, ms
<1>8. r.node = a /\ r.sends = ms /\ r.persist = FALSE
  BY DEF Quiet
<1>9. ResultTypeOK(r)
  BY <1>4, <1>6, QuietType DEF ResultTypeOK, Result, Quiet
<1> HIDE DEF r
<1>10. VoteResult(n, s, r)
  BY <1>1, <1>4, <1>5, <1>8 DEF VoteResult
<1>11. Backed(M, n, r.node)
  BY <1>4, <1>8 DEF Backed, Candidate, Leader
<1> QED
  BY <1>7, <1>9, <1>10, <1>11, TryCommitVote, KeepsVoteResult

(* Whatever a running server does next respects its vote and is backed by  *)
(* the ballots cast so far, including the ones it is about to send.        *)
LEMMA StepResultVote ==
    ASSUME TypeOK, NEW n \in Server, Backed(messages, n, node[n]),
           NEW r, StepResult(n, r)
    PROVE  /\ VoteResult(n, node[n], r)
           /\ Backed(messages \cup r.sends, n, r.node)
<1>1. NodeTypeOK(node[n])
  BY DEF TypeOK
<1>2. ASSUME Backed(messages, n, r.node)
      PROVE  Backed(messages \cup r.sends, n, r.node)
  BY <1>2, BackedMonotone
<1>3. CASE r = StartElection(n, node[n])
  BY <1>1, <1>3, StartElectionVote
<1>4. CASE node[n].role = Leader /\ r = [Quiet(node[n]) EXCEPT !.sends = BroadcastAppend(n, node[n])]
  <2> DEFINE ms == BroadcastAppend(n, node[n])
  <2>1. \A x \in ms : x.from = n /\ x.term = node[n].currentTerm /\ x.type = "AppendEntries"
    BY AppendForVote DEF BroadcastAppend
  <2> HIDE DEF ms
  <2>2. r.node = node[n] /\ r.sends = ms /\ r.persist = FALSE
    BY <1>4 DEF Quiet, ms
  <2>3. node[n].currentTerm \in Nat
    BY <1>1 DEF NodeTypeOK, RaftNode
  <2>4. VoteResult(n, node[n], r)
    BY <1>4, <2>1, <2>2, <2>3 DEF VoteResult
  <2> QED
    BY <1>2, <2>2, <2>4
<1>5. ASSUME NEW m \in messages, m.to = n, HandlerResult(n, m, r)
      PROVE  VoteResult(n, node[n], r) /\ Backed(messages, n, r.node)
  BY <1>1, <1>5, OnRequestVoteVote, OnRequestVoteRespVote, OnAppendEntriesVote,
     OnAppendEntriesRespVote DEF HandlerResult
<1>6. CASE node[n].role = Leader /\ \E cmd \in Command : r = OnPropose(n, node[n], cmd)
  BY <1>1, <1>2, <1>6, OnProposeVote
<1>7. CASE r = Quiet(node[n])
  <2>1. r.node = node[n] /\ r.sends = {} /\ r.persist = FALSE
    BY <1>7 DEF Quiet
  <2>2. node[n].currentTerm \in Nat
    BY <1>1 DEF NodeTypeOK, RaftNode
  <2>3. VoteResult(n, node[n], r)
    BY <2>1, <2>2 DEF VoteResult
  <2> QED
    BY <1>2, <2>1, <2>3
<1> QED
  BY <1>2, <1>3, <1>4, <1>5, <1>6, <1>7 DEF StepResult

-----------------------------------------------------------------------------
(* The disk *)

ReliableWrites == "PersistError" \notin StorageFaults

(* What a disk says about the vote after a write, complete or cut short.   *)
LEMMA DurableVote ==
    ASSUME NEW d \in HardState, NEW r, ResultTypeOK(r)
    PROVE  /\ Durable(d, r).currentTerm = (IF r.persist THEN r.node.currentTerm ELSE d.currentTerm)
           /\ Durable(d, r).votedFor = (IF r.persist THEN r.node.votedFor ELSE d.votedFor)
           /\ \A e \in CutWrites(d, r) \cup TornTruncations(d, r) :
                \/ e.currentTerm = d.currentTerm /\ e.votedFor = d.votedFor
                \/ /\ r.persist
                   /\ e.currentTerm = r.node.currentTerm
                   /\ e.votedFor = r.node.votedFor
<1> DEFINE h == WithHardState(d, r)
           t == WithTruncate(h, r)
<1>1. /\ h.currentTerm = (IF r.persist THEN r.node.currentTerm ELSE d.currentTerm)
      /\ h.votedFor = (IF r.persist THEN r.node.votedFor ELSE d.votedFor)
      /\ DOMAIN h = DOMAIN d
  BY DEF WithHardState, HardState
<1> HIDE DEF h
<1>2. "log" \in DOMAIN h /\ "currentTerm" # "log" /\ "votedFor" # "log"
  BY <1>1 DEF HardState
<1>3. \A l : /\ [h EXCEPT !.log = l].currentTerm = h.currentTerm
             /\ [h EXCEPT !.log = l].votedFor = h.votedFor
  BY <1>1 DEF HardState
<1>4. t.currentTerm = h.currentTerm /\ t.votedFor = h.votedFor /\ DOMAIN t = DOMAIN h
  BY <1>3 DEF WithTruncate
<1> HIDE DEF t
<1>5. \A k : /\ WithEntries(t, r, k).currentTerm = h.currentTerm
             /\ WithEntries(t, r, k).votedFor = h.votedFor
  BY <1>1, <1>4 DEF WithEntries, HardState
<1>6. \A e \in CutWrites(d, r) :
         \/ e = d
         \/ e.currentTerm = h.currentTerm /\ e.votedFor = h.votedFor
  BY <1>4, <1>5 DEF CutWrites, h, t
<1>7. \A e \in TornTruncations(d, r) :
         e.currentTerm = h.currentTerm /\ e.votedFor = h.votedFor
  BY <1>3 DEF TornTruncations, h
<1>8. Durable(d, r) = WithEntries(t, r, Len(r.entries))
  BY DEF Durable, h, t
<1> QED
  BY <1>1, <1>5, <1>6, <1>7, <1>8

(* One write to a voter's hard state.                                      *)
VoteStep(d, e) ==
    /\ e.currentTerm >= d.currentTerm
    /\ e.currentTerm = d.currentTerm => d.votedFor \in {Nil, e.votedFor}

LEMMA RunDisk ==
    ASSUME TypeOK, HardStateMirrored, NEW n \in up, NEW r, ResultTypeOK(r),
           VoteResult(n, node[n], r), Run(n, r), ReliableWrites
    PROVE  /\ \A v \in Server : VoteStep(disk[v], disk'[v])
           /\ n \in up' => /\ Execute(n, r)
                           /\ disk'[n].currentTerm = r.node.currentTerm
                           /\ disk'[n].votedFor = r.node.votedFor
<1> DEFINE s == node[n]
<1>1. /\ n \in Server /\ disk[n] \in HardState /\ DOMAIN disk = Server
      /\ \A v \in Server : disk[v].currentTerm \in Nat
  BY DEF TypeOK, HardState
<1>2. disk[n].currentTerm = s.currentTerm /\ disk[n].votedFor = s.votedFor
  BY DEF HardStateMirrored
<1>3. ASSUME NEW e, disk' = [disk EXCEPT ![n] = e],
             \/ e.currentTerm = s.currentTerm /\ e.votedFor = s.votedFor
             \/ e.currentTerm = r.node.currentTerm /\ e.votedFor = r.node.votedFor
      PROVE  \A v \in Server : VoteStep(disk[v], disk'[v])
  <2>1. VoteStep(disk[n], e)
    <3>1. CASE e.currentTerm = s.currentTerm /\ e.votedFor = s.votedFor
      BY <1>1, <1>2, <3>1 DEF VoteStep
    <3>2. CASE e.currentTerm = r.node.currentTerm /\ e.votedFor = r.node.votedFor
      BY <1>2, <3>2 DEF VoteStep, VoteResult
    <3> QED
      BY <1>3, <3>1, <3>2
  <2>2. \A v \in Server : VoteStep(disk[v], disk[v])
    BY <1>1 DEF VoteStep
  <2> QED
    BY <1>1, <1>3, <2>1, <2>2
<1>4. CASE Execute(n, r)
  <2> DEFINE e == Durable(disk[n], r)
  <2>1. e.currentTerm = r.node.currentTerm /\ e.votedFor = r.node.votedFor
    BY <1>1, <1>2, DurableVote DEF VoteResult
  <2> HIDE DEF e
  <2>2. disk' = [disk EXCEPT ![n] = e]
    BY <1>4 DEF Execute, e
  <2> QED
    BY <1>1, <1>3, <1>4, <2>1, <2>2
<1>5. CASE CrashDuring(n, r)
  <2>1. PICK e \in CutWrites(disk[n], r) \cup TornTruncations(disk[n], r) :
          disk' = [disk EXCEPT ![n] = e]
    BY <1>5 DEF CrashDuring
  <2>2. n \notin up'
    BY <1>5 DEF CrashDuring
  <2>3. \/ e.currentTerm = s.currentTerm /\ e.votedFor = s.votedFor
        \/ e.currentTerm = r.node.currentTerm /\ e.votedFor = r.node.votedFor
    BY <1>1, <1>2, <2>1, DurableVote
  <2> QED
    BY <1>3, <2>1, <2>2, <2>3
<1> QED
  BY <1>4, <1>5 DEF Run, PersistFails, ReliableWrites

-----------------------------------------------------------------------------
(* The invariant *)

(* Leaving out inert refusals loses no ballot.                             *)
LEMMA InertIsNoBallot ==
    ASSUME NEW n, NEW r, Deliver(n, r)
    PROVE  /\ messages \subseteq messages'
           /\ messages' \subseteq messages \cup r.sends
           /\ \A v, c, t : BallotIn(messages \cup r.sends, v, c, t) => Ballot(v, c, t)'
<1>1. messages' = messages \cup {m \in r.sends : ~Inert(m)}
  BY DEF Deliver
<1>2. ASSUME NEW v, NEW c, NEW t, BallotIn(messages \cup r.sends, v, c, t)
      PROVE  BallotIn(messages', v, c, t)
  <2>1. CASE v = c /\ Server = {c}
    BY <2>1 DEF BallotIn
  <2>2. ASSUME NEW m \in messages \cup r.sends,
               m.from = v /\ m.term = t,
               \/ m.type = "RequestVoteResp" /\ m.voteGranted /\ m.to = c
               \/ m.type = "RequestVote" /\ v = c
        PROVE  BallotIn(messages', v, c, t)
    <3>1. ~Inert(m)
      BY <2>2 DEF Inert
    <3>2. m \in messages'
      BY <1>1, <2>2, <3>1
    <3> QED
      BY <2>2, <3>2 DEF BallotIn
  <2> QED
    BY <1>2, <2>1, <2>2 DEF BallotIn
<1> QED
  BY <1>1, <1>2 DEF Ballot

LEMMA BallotTerm ==
    ASSUME NEW v, NEW c, NEW t, Ballot(v, c, t), Server # {c}
    PROVE  t \in Terms
  BY DEF Ballot, BallotIn, Terms

LEMMA TermsAreNat == TypeOK => Terms \subseteq Nat
<1> SUFFICES ASSUME TypeOK, NEW t \in Terms PROVE t \in Nat
  OBVIOUS
<1>1. \A n \in Server : node[n].currentTerm \in Nat
  BY DEF TypeOK, NodeTypeOK, RaftNode
<1>2. ASSUME NEW m \in Message PROVE m.term \in Nat
  BY DEF Message, RequestVoteReq, RequestVoteResp, AppendEntriesReq, AppendEntriesResp
<1>3. \A m \in messages : m.term \in Nat
  BY <1>2 DEF TypeOK
<1> QED
  BY <1>1, <1>3 DEF Terms

(* The parts of VoteInv that speak of ballots survive every step that      *)
(* writes votes and emits new ballots as VoteResult allows.                *)
LEMMA BallotStep ==
    ASSUME TypeOK, TypeOK', BallotsAreDurable, BallotsAreUnique,
           \A v \in Server : VoteStep(disk[v], disk'[v]),
           \A v, c \in Server : \A t :
              Ballot(v, c, t)' =>
                 \/ Ballot(v, c, t)
                 \/ /\ disk'[v].currentTerm = t
                    /\ disk'[v].votedFor = c
    PROVE  BallotsAreDurable' /\ BallotsAreUnique'
<1>0. Terms' \subseteq Nat
  <2>1. (TypeOK => Terms \subseteq Nat)'
    BY TermsAreNat, PTL
  <2> QED
    BY <2>1
<1>1. \A v \in Server : /\ disk[v].currentTerm \in Nat
                         /\ disk'[v].currentTerm \in Nat
  BY DEF TypeOK, HardState
<1>2. ASSUME NEW v \in Server, NEW c \in Server, NEW t \in Terms', Ballot(v, c, t)', Server # {c}
      PROVE  \/ disk'[v].currentTerm > t
             \/ disk'[v].currentTerm = t /\ disk'[v].votedFor = c
  <2>1. CASE Ballot(v, c, t)
    <3>1. \/ disk[v].currentTerm > t
          \/ disk[v].currentTerm = t /\ disk[v].votedFor = c
      BY <1>2, <2>1, BallotTerm DEF BallotsAreDurable
    <3>2. t \in Nat
      BY <1>2, <1>0
    <3>3. c # Nil
      BY ServerAssumption
    <3>4. VoteStep(disk[v], disk'[v])
      OBVIOUS
    <3> QED
      BY <1>1, <3>1, <3>2, <3>3, <3>4 DEF VoteStep
  <2> QED
    BY <1>2, <2>1
<1>3. BallotsAreDurable'
  BY <1>2 DEF BallotsAreDurable
<1>4. ASSUME NEW v \in Server, NEW c \in Server, NEW d \in Server, NEW t \in Terms',
             Ballot(v, c, t)', Ballot(v, d, t)', c # d
      PROVE  FALSE
  <2>1. Server # {c} /\ Server # {d}
    BY <1>4
  <2>2. t \in Nat
    BY <1>4, <1>0
  <2>3. ASSUME NEW a \in Server, NEW b \in Server, a # b, Server # {a},
               Ballot(v, a, t), disk'[v].currentTerm = t, disk'[v].votedFor = b
        PROVE  FALSE
    <3>1. \/ disk[v].currentTerm > t
          \/ disk[v].currentTerm = t /\ disk[v].votedFor = a
      BY <2>3, BallotTerm DEF BallotsAreDurable
    <3>2. VoteStep(disk[v], disk'[v])
      OBVIOUS
    <3>3. disk[v].currentTerm = t /\ disk[v].votedFor = a
      BY <1>1, <2>2, <2>3, <3>1, <3>2 DEF VoteStep
    <3>4. a \in {Nil, b}
      BY <2>3, <3>2, <3>3 DEF VoteStep
    <3> QED
      BY <2>3, <3>4, ServerAssumption
  <2>4. CASE Ballot(v, c, t) /\ Ballot(v, d, t)
    BY <1>4, <2>1, <2>4, BallotTerm DEF BallotsAreUnique
  <2> QED
    BY <1>4, <2>1, <2>3, <2>4
<1>5. BallotsAreUnique'
  BY <1>4 DEF BallotsAreUnique
<1> QED
  BY <1>3, <1>5

LEMMA RunVoteInv ==
    ASSUME TypeOK, TypeOK', VoteInv, ReliableWrites,
           NEW n \in up, NEW r, StepResult(n, r), Run(n, r)
    PROVE  VoteInv'
<1>1. n \in Server
  BY DEF TypeOK
<1>2. ResultTypeOK(r)
  BY <1>1, StepResultType
<1>3. Backed(messages, n, node[n])
  BY DEF VoteInv, CandidatesCountBallots, LeadersHaveWon, Backed, Ballot, Won
<1>4. VoteResult(n, node[n], r) /\ Backed(messages \cup r.sends, n, r.node)
  BY <1>1, <1>3, StepResultVote
<1>5. /\ \A v \in Server : VoteStep(disk[v], disk'[v])
      /\ n \in up' => /\ Execute(n, r)
                      /\ disk'[n].currentTerm = r.node.currentTerm
                      /\ disk'[n].votedFor = r.node.votedFor
  BY <1>2, <1>4, RunDisk DEF VoteInv
<1>6. DOMAIN node = Server /\ DOMAIN disk = Server
  BY DEF TypeOK
<1>7. CASE n \in up'
  <2>1. Execute(n, r) /\ Deliver(n, r)
    BY <1>5, <1>7 DEF Execute
  <2>2. /\ node' = [node EXCEPT ![n] = r.node]
        /\ disk' = [disk EXCEPT ![n] = Durable(disk[n], r)]
        /\ up' = up
    BY <2>1 DEF Execute, Deliver
  <2>3. /\ messages \subseteq messages'
        /\ messages' \subseteq messages \cup r.sends
        /\ \A v, c, t : BallotIn(messages \cup r.sends, v, c, t) => BallotIn(messages', v, c, t)
    BY <2>1, InertIsNoBallot DEF Ballot
  <2>4. HardStateMirrored'
    <3>1. \A p \in up \ {n} : node'[p] = node[p] /\ disk'[p] = disk[p]
      BY <2>2 DEF TypeOK
    <3>2. node'[n] = r.node
      BY <1>1, <1>6, <2>2
    <3> QED
      BY <1>5, <1>7, <2>2, <3>1, <3>2 DEF HardStateMirrored, VoteInv
  <2>5. \A v, c \in Server : \A t :
           Ballot(v, c, t)' =>
              \/ Ballot(v, c, t)
              \/ disk'[v].currentTerm = t /\ disk'[v].votedFor = c
    <3> SUFFICES ASSUME NEW v \in Server, NEW c \in Server, NEW t,
                        BallotIn(messages', v, c, t), ~BallotIn(messages, v, c, t)
                 PROVE  disk'[v].currentTerm = t /\ disk'[v].votedFor = c
      BY DEF Ballot
    <3>1. PICK m \in r.sends :
            /\ m.from = v /\ m.term = t
            /\ \/ m.type = "RequestVoteResp" /\ m.voteGranted /\ m.to = c
               \/ m.type = "RequestVote" /\ v = c
      BY <2>3 DEF BallotIn
    <3>2. v = n /\ t = r.node.currentTerm /\ c = r.node.votedFor
      BY <1>4, <3>1 DEF VoteResult
    <3> QED
      BY <1>5, <1>7, <3>2
  <2>6. BallotsAreDurable' /\ BallotsAreUnique'
    BY <1>5, <2>5, BallotStep DEF VoteInv
  <2>7. Backed(messages', n, r.node)
    <3>1. \A c, t : WonIn(messages \cup r.sends, c, t) => WonIn(messages', c, t)
      BY <2>3 DEF WonIn
    <3> QED
      BY <1>4, <2>3, <3>1 DEF Backed
  <2>8. \A p \in up' : Backed(messages', p, node'[p])
    <3>1. \A p \in up : Backed(messages, p, node[p])
      BY DEF VoteInv, CandidatesCountBallots, LeadersHaveWon, Backed, Ballot, Won
    <3>2. \A p \in up : p # n => node'[p] = node[p]
      BY <2>2 DEF TypeOK
    <3>3. node'[n] = r.node
      BY <1>1, <1>6, <2>2
    <3> QED
      BY <2>2, <2>3, <2>7, <3>1, <3>2, <3>3, BackedMonotone
  <2>9. \A m \in messages' : m.type = "AppendEntries" => WonIn(messages', m.from, m.term)
    <3>1. \A m \in messages : m.type = "AppendEntries" => WonIn(messages', m.from, m.term)
      BY <2>3, WonMonotone DEF VoteInv, LeadersHaveWon, Won
    <3>2. \A m \in r.sends : m.type = "AppendEntries" => WonIn(messages', m.from, m.term)
      BY <1>4, <2>7 DEF VoteResult, Backed
    <3> QED
      BY <2>3, <3>1, <3>2
  <2>10. CandidatesCountBallots' /\ LeadersHaveWon'
    BY <2>8, <2>9 DEF CandidatesCountBallots, LeadersHaveWon, Backed, Ballot, Won
  <2> QED
    BY <2>4, <2>6, <2>10 DEF VoteInv
<1>8. CASE n \notin up'
  <2>1. CrashDuring(n, r)
    BY <1>8 DEF Run, Execute, PersistFails, Deliver
  <2>2. up' = up \ {n} /\ messages' = messages
    BY <2>1 DEF CrashDuring
  <2>3. \A p \in up' : node'[p] = node[p] /\ disk'[p] = disk[p] /\ p \in up
    BY <2>1, <2>2 DEF CrashDuring, TypeOK
  <2>4. BallotsAreDurable' /\ BallotsAreUnique'
    BY <1>5, <2>2, BallotStep DEF VoteInv, Ballot
  <2> QED
    BY <2>2, <2>3, <2>4 DEF VoteInv, HardStateMirrored, CandidatesCountBallots,
                            LeadersHaveWon, Ballot, Won
<1> QED
  BY <1>7, <1>8

LEMMA RestartVoteInv ==
    ASSUME TypeOK, VoteInv, NEW n \in Server, Restart(n)
    PROVE  VoteInv'
<1>1. /\ Recover(disk[n]).role = Follower
      /\ Recover(disk[n]).currentTerm = disk[n].currentTerm
      /\ Recover(disk[n]).votedFor = disk[n].votedFor
  BY DEF Recover, NewNode
<1>2. /\ node'[n] = Recover(disk[n])
      /\ \A p \in up' : p # n => p \in up /\ node'[p] = node[p]
      /\ disk' = disk /\ messages' = messages
  BY DEF Restart, TypeOK
<1>3. HardStateMirrored'
  BY <1>1, <1>2 DEF HardStateMirrored, VoteInv
<1>4. CandidatesCountBallots' /\ LeadersHaveWon'
  BY <1>1, <1>2 DEF CandidatesCountBallots, LeadersHaveWon, VoteInv, Ballot, Won,
                    Follower, Candidate, Leader
<1>5. Terms' \subseteq Terms \cup {disk[n].currentTerm}
  <2>1. \A p \in Server : node'[p].currentTerm \in {node[p].currentTerm, disk[n].currentTerm}
    BY <1>1 DEF Restart, TypeOK
  <2> QED
    BY <1>2, <2>1 DEF Terms
<1>6. BallotsAreDurable' /\ BallotsAreUnique'
  <2>1. \A v, c \in Server : \A t : Ballot(v, c, t)' <=> Ballot(v, c, t)
    BY <1>2 DEF Ballot
  <2>2. BallotsAreDurable'
    BY <1>2, <2>1, BallotTerm DEF BallotsAreDurable, VoteInv
  <2>3. ASSUME NEW v \in Server, NEW c \in Server, NEW d \in Server, NEW t,
               Ballot(v, c, t), Ballot(v, d, t), c # d
        PROVE  FALSE
    <3>1. t \in Terms
      BY <2>3, BallotTerm
    <3> QED
      BY <2>3, <3>1 DEF BallotsAreUnique, VoteInv
  <2> QED
    BY <2>1, <2>2, <2>3 DEF BallotsAreUnique
<1> QED
  BY <1>3, <1>4, <1>6 DEF VoteInv

LEMMA InitVoteInv == Init => VoteInv
<1> SUFFICES ASSUME Init PROVE VoteInv
  OBVIOUS
<1>1. \A n \in Server : /\ node[n].role = Follower
                         /\ node[n].currentTerm = 0 /\ node[n].votedFor = Nil
                         /\ disk[n].currentTerm = 0 /\ disk[n].votedFor = Nil
  BY DEF Init, NewNode, EmptyDisk
<1>2. up = Server /\ messages = {}
  BY DEF Init
<1>3. \A v, c, t : Ballot(v, c, t) => v = c /\ Server = {c}
  BY <1>2 DEF Ballot, BallotIn
<1> QED
  BY <1>1, <1>2, <1>3 DEF VoteInv, HardStateMirrored, BallotsAreDurable, BallotsAreUnique,
     CandidatesCountBallots, LeadersHaveWon, Follower, Candidate, Leader

LEMMA StepVoteInv ==
    ReliableWrites /\ TypeOK /\ VoteInv /\ [Next]_vars => VoteInv'
<1> SUFFICES ASSUME ReliableWrites, TypeOK, VoteInv, [Next]_vars PROVE VoteInv'
  OBVIOUS
<1>1. TypeOK'
  BY StepType
<1>2. CASE Next
  <2>1. PICK n \in Server :
          \/ Restart(n)
          \/ n \in up /\ elections' \in Nat /\ \E r : StepResult(n, r) /\ Run(n, r)
    BY <1>2, NextCases
  <2> QED
    BY <1>1, <2>1, RestartVoteInv, RunVoteInv
<1>3. CASE UNCHANGED vars
  BY <1>3 DEF vars, VoteInv, HardStateMirrored, BallotsAreDurable, BallotsAreUnique,
     CandidatesCountBallots, LeadersHaveWon, Ballot, Won, Terms
<1> QED
  BY <1>2, <1>3

-----------------------------------------------------------------------------
(* Theorems *)

(* Two majorities of the cluster share a member.                           *)
LEMMA MajoritiesMeet ==
    ASSUME NEW P \in SUBSET Server, NEW Q \in SUBSET Server,
           Cardinality(P) >= Majority, Cardinality(Q) >= Majority
    PROVE  P \cap Q # {}
<1>1. IsFiniteSet(Server) /\ Cardinality(Server) \in Nat
  BY ServerAssumption, FS_CardinalityType
<1>2. IsFiniteSet(P) /\ IsFiniteSet(Q)
  BY <1>1, FS_Subset
<1>3. Cardinality(P) \in Nat /\ Cardinality(Q) \in Nat
  BY <1>2, FS_CardinalityType
<1>4. Cardinality(P) + Cardinality(Q) > Cardinality(Server)
  BY <1>1, <1>3 DEF Majority
<1> QED
  BY <1>1, <1>4, FS_MajoritiesIntersect

LEMMA VoteInvImpliesSafety == TypeOK /\ VoteInv => ElectionSafety
<1> SUFFICES ASSUME TypeOK, VoteInv, NEW t \in Terms, NEW a \in LeadersOf(t), NEW b \in LeadersOf(t)
             PROVE  a = b
  BY DEF ElectionSafety
<1>0. a \in Server /\ b \in Server
  BY DEF TypeOK, LeadersOf, Message, RequestVoteReq, RequestVoteResp,
         AppendEntriesReq, AppendEntriesResp
<1>1. Won(a, t) /\ Won(b, t)
  BY DEF VoteInv, LeadersHaveWon, LeadersOf
<1>2. PICK P \in SUBSET Server :
        Cardinality(P) >= Majority /\ \A v \in P : Ballot(v, a, t)
  BY <1>1 DEF Won, WonIn, Ballot
<1>3. PICK Q \in SUBSET Server :
        Cardinality(Q) >= Majority /\ \A v \in Q : Ballot(v, b, t)
  BY <1>1 DEF Won, WonIn, Ballot
<1>4. PICK v \in Server : Ballot(v, a, t) /\ Ballot(v, b, t)
  BY <1>2, <1>3, MajoritiesMeet
<1> QED
  BY <1>0, <1>4 DEF VoteInv, BallotsAreUnique

(* The inductive invariant about votes holds in every cluster whose        *)
(* storage calls do not fail: votes leave their voter only once durable,   *)
(* are never doubled, and leaders have a majority of them.                 *)
THEOREM VotesInvariant == ReliableWrites => (Spec => []VoteInv)
<1> SUFFICES ASSUME ReliableWrites PROVE Spec => []VoteInv
  OBVIOUS
<1>1. TypeOK /\ VoteInv /\ [Next]_vars => VoteInv'
  BY StepVoteInv
<1> QED
  BY <1>1, InitVoteInv, TypeCorrect, PTL DEF Spec

(* Election Safety for every cluster size, with crashes at any point of    *)
(* the writes, torn truncations included, and a network that delays,       *)
(* duplicates, reorders and loses messages.                                *)
THEOREM ElectionSafe == ReliableWrites => (Spec => []ElectionSafety)
<1> SUFFICES ASSUME ReliableWrites PROVE Spec => []ElectionSafety
  OBVIOUS
<1>1. Spec => []VoteInv
  BY VotesInvariant
<1> QED
  BY <1>1, TypeCorrect, VoteInvImpliesSafety, PTL

(* No step of the shell, no crash and no restart takes back a term or a    *)
(* vote that is on disk.                                                   *)
THEOREM DurableVotesAreFinal == ReliableWrites => (Spec => VotesAreFinal)
<1> SUFFICES ASSUME ReliableWrites PROVE Spec => VotesAreFinal
  OBVIOUS
<1>1. Spec => []VoteInv
  BY VotesInvariant
<1>2. ASSUME TypeOK, VoteInv, [Next]_vars
      PROVE  [\A n \in Server :
                 /\ disk'[n].currentTerm >= disk[n].currentTerm
                 /\ disk'[n].currentTerm = disk[n].currentTerm =>
                       disk[n].votedFor \in {Nil, disk'[n].votedFor}]_disk
  <2>1. CASE Next
    <3>1. PICK n \in Server :
            \/ Restart(n)
            \/ n \in up /\ elections' \in Nat /\ \E r : StepResult(n, r) /\ Run(n, r)
      BY <1>2, <2>1, NextCases
    <3>2. CASE Restart(n)
      BY <3>2 DEF Restart
    <3>3. ASSUME n \in up, NEW r, StepResult(n, r), Run(n, r)
          PROVE  \A v \in Server : VoteStep(disk[v], disk'[v])
      <4>1. Backed(messages, n, node[n])
        BY <1>2, <3>3 DEF VoteInv, CandidatesCountBallots, LeadersHaveWon, Backed, Ballot, Won
      <4>2. ResultTypeOK(r) /\ VoteResult(n, node[n], r)
        BY <1>2, <3>3, <4>1, StepResultType, StepResultVote
      <4> QED
        BY <1>2, <3>3, <4>2, RunDisk DEF VoteInv
    <3> QED
      BY <3>1, <3>2, <3>3 DEF VoteStep
  <2>2. CASE UNCHANGED vars
    BY <2>2 DEF vars
  <2> QED
    BY <1>2, <2>1, <2>2
<1> QED
  BY <1>1, <1>2, TypeCorrect, PTL DEF Spec, VotesAreFinal

-----------------------------------------------------------------------------
(***************************************************************************)
(* The safety of the replicated log of Raft.tla, for every finite cluster, *)
(* any number of crashes, and a network that delays, reorders, duplicates  *)
(* and loses messages, provided the disk shows none of the faults of       *)
(* StorageFaults.                                                          *)
(*                                                                         *)
(* The argument speaks of two history functions that are not variables of  *)
(* the specification: b[t] is the server that became the leader of term t  *)
(* (or Nil), and G[t] is the log of that leader, as it stands or as it was *)
(* when it stopped leading.  The invariant says that such functions exist. *)
(* Part one states it and proves what is independent of the handlers: how  *)
(* it survives a merge into a follower's log, an election and a proposal.  *)
(* Part two shows that the handlers do nothing else.                       *)
(***************************************************************************)

-----------------------------------------------------------------------------
(* Logs and the histories they come from *)

(* p and q are both at least i long and equal up to i.                     *)
Agree(p, q, i) == i <= Len(p) /\ i <= Len(q) /\ \A k \in 1..i : p[k] = q[k]

Has(log, i, t) == i \in 1..Len(log) /\ log[i].term = t

History(b, G) == b \in [Nat -> Server \cup {Nil}] /\ G \in [Nat -> Seq(Entry)]

(* Every entry of the log comes, with all that precedes it, from the log   *)
(* of the leader of its term, and none is of a term after t.               *)
Rooted(b, G, log, t) ==
    \A j \in 1..Len(log) :
        /\ log[j].term <= t
        /\ b[log[j].term] # Nil
        /\ Agree(log, G[log[j].term], j)

LeaderLogs(b, G) ==
    \A t \in Nat :
        /\ b[t] = Nil => G[t] = << >>
        /\ Rooted(b, G, G[t], t)
        /\ \A j \in 1..Len(G[t]) :
              /\ G[t][j].index = j
              /\ \A i \in 1..j : G[t][i].term <= G[t][j].term

(* Whoever led t is in t or later, and so is a majority.                   *)
Elected(b, D) ==
    \A t \in Nat :
        b[t] # Nil =>
            /\ D[b[t]].currentTerm >= t
            /\ \E Q \in SUBSET Server :
                  /\ Cardinality(Q) >= Majority
                  /\ \A v \in Q : D[v].currentTerm >= t

DiskLogs(b, G, D) ==
    \A v \in Server : Rooted(b, G, D[v].log, D[v].currentTerm)

(* v has acknowledged the log of the leader of t up to i or further.       *)
AckedIn(M, v, i, t) ==
    \E m \in M :
        /\ m.type = "AppendEntriesResp" /\ m.success
        /\ m.from = v /\ m.term = t /\ m.matchIndex >= i

AcksHold(b, G, D, M) ==
    \A v \in Server, t \in Nat, i \in Nat \ {0} :
        AckedIn(M, v, i, t) =>
            /\ b[t] \notin {Nil, v}
            /\ i <= Len(G[t])
            /\ D[v].currentTerm >= t
            /\ D[v].currentTerm = t => Agree(D[v].log, G[t], i)

(* Position i of the leader of t is an entry of its own term, the kind     *)
(* that try_commit counts.                                                 *)
Stamped(b, G, i, t) == b[t] # Nil /\ Has(G[t], i, t)

Holds(b, M, v, i, t) == b[t] = v \/ AckedIn(M, v, i, t)

(* Entry i of term t can no longer gather a majority of holders: in every  *)
(* majority there is a server that has left t without holding it.          *)
Dead(b, D, M, i, t) ==
    \A Q \in SUBSET Server :
        Cardinality(Q) >= Majority =>
            \E v \in Q : D[v].currentTerm > t /\ ~Holds(b, M, v, i, t)

(* Later leaders have the entry, unless it is dead.                        *)
Succession(b, G, D, M) ==
    \A t, u \in Nat, i \in Nat \ {0} :
        Stamped(b, G, i, t) /\ t < u /\ b[u] # Nil =>
            Dead(b, D, M, i, t) \/ Has(G[u], i, t)

(* Holders keep it on disk, unless it is dead.                             *)
HoldersHold(b, G, D, M) ==
    \A v \in Server, t \in Nat, i \in Nat \ {0} :
        Stamped(b, G, i, t) /\ Holds(b, M, v, i, t) =>
            Dead(b, D, M, i, t) \/ Has(D[v].log, i, t)

Core(b, G, D, M) ==
    /\ History(b, G)
    /\ LeaderLogs(b, G)
    /\ Elected(b, D)
    /\ DiskLogs(b, G, D)
    /\ AcksHold(b, G, D, M)
    /\ Succession(b, G, D, M)
    /\ HoldersHold(b, G, D, M)

-----------------------------------------------------------------------------
(* Agreement *)

LEMMA AgreeFacts ==
    ASSUME NEW p \in Seq(Entry), NEW q \in Seq(Entry), NEW i \in Nat, Agree(p, q, i)
    PROVE  /\ Agree(q, p, i)
           /\ \A j \in 0..i : Agree(p, q, j)
           /\ \A r \in Seq(Entry) : Agree(q, r, i) => Agree(p, r, i)
           /\ \A j \in 1..i : j \in 1..Len(p) /\ j \in 1..Len(q) /\ p[j] = q[j]
<1>1. Len(p) \in Nat /\ Len(q) \in Nat
  BY LenProperties
<1>2. i <= Len(p) /\ i <= Len(q) /\ \A k \in 1..i : p[k] = q[k]
  BY DEF Agree
<1>3. Agree(q, p, i) /\ \A j \in 0..i : Agree(p, q, j)
  BY <1>1, <1>2 DEF Agree
<1>4. ASSUME NEW r \in Seq(Entry), Agree(q, r, i) PROVE Agree(p, r, i)
  BY <1>1, <1>2, <1>4 DEF Agree
<1>5. \A j \in 1..i : j \in 1..Len(p) /\ j \in 1..Len(q) /\ p[j] = q[j]
  BY <1>1, <1>2
<1> QED
  BY <1>3, <1>4, <1>5

LEMMA EntryTerm ==
    ASSUME NEW log \in Seq(Entry), NEW j \in 1..Len(log)
    PROVE  log[j] \in Entry /\ log[j].term \in Nat
<1>1. log[j] \in Entry
  BY ElementOfSeq
<1> QED
  BY <1>1 DEF Entry

(* Two rooted logs with an entry of the same term at the same position are *)
(* equal up to it.                                                         *)
LEMMA RootedMeet ==
    ASSUME NEW b, NEW G, History(b, G),
           NEW p \in Seq(Entry), NEW q \in Seq(Entry), NEW i, NEW t, NEW x, NEW y,
           Rooted(b, G, p, x), Rooted(b, G, q, y), Has(p, i, t), Has(q, i, t)
    PROVE  Agree(p, q, i)
<1>1. i \in Nat /\ t \in Nat
  BY EntryTerm, LenProperties DEF Has
<1>2. G[t] \in Seq(Entry)
  BY <1>1 DEF History
<1>3. Agree(p, G[t], i) /\ Agree(q, G[t], i)
  BY DEF Rooted, Has
<1> QED
  BY <1>1, <1>2, <1>3, AgreeFacts

(* What agrees with a rooted log up to i has the entry at i if it does.    *)
LEMMA AgreeHas ==
    ASSUME NEW p \in Seq(Entry), NEW q \in Seq(Entry), NEW i \in Nat, Agree(p, q, i),
           NEW j \in 1..i, NEW t, Has(p, j, t)
    PROVE  Has(q, j, t)
  BY AgreeFacts DEF Has

-----------------------------------------------------------------------------
(* What may happen to a log: the log of a follower becomes log2 when parts *)
(* of the leader's log g, or all of it, are merged into it.                *)

Merged(log, g, log2) ==
    /\ \A j \in 1..Len(log2) : Agree(log2, log, j) \/ Agree(log2, g, j)
    /\ \A i \in Nat : Agree(log, g, i) => Agree(log2, g, i)

(* Only server n changes its disk and only it acknowledges something, in   *)
(* the term it is then in and truthfully.                                  *)
DiskStep(n, D, D2) ==
    /\ D \in [Server -> HardState] /\ D2 \in [Server -> HardState]
    /\ \A v \in Server \ {n} : D2[v] = D[v]
    /\ D2[n].currentTerm >= D[n].currentTerm

AckStep(n, b, G, D2, M, M2) ==
    /\ \A v \in Server, t \in Nat, i \in Nat \ {0} :
          AckedIn(M, v, i, t) => AckedIn(M2, v, i, t)
    /\ \A v \in Server, t \in Nat, i \in Nat \ {0} :
          AckedIn(M2, v, i, t) =>
             \/ AckedIn(M, v, i, t)
             \/ /\ v = n /\ t = D2[n].currentTerm
                /\ b[t] \notin {Nil, n}
                /\ Agree(D2[n].log, G[t], i)

SameAcks(M, M2) ==
    \A v \in Server, t \in Nat, i \in Nat \ {0} :
        AckedIn(M, v, i, t) <=> AckedIn(M2, v, i, t)

LEMMA TermsOnDisk ==
    ASSUME NEW n \in Server, NEW D, NEW D2, DiskStep(n, D, D2)
    PROVE  \A v \in Server : /\ D[v].currentTerm \in Nat /\ D2[v].currentTerm \in Nat
                             /\ D2[v].currentTerm >= D[v].currentTerm
                             /\ D[v].log \in Seq(Entry) /\ D2[v].log \in Seq(Entry)
  BY DEF DiskStep, HardState

(* An entry stays dead: nobody becomes a holder in a term it has left.     *)
LEMMA DeadStable ==
    ASSUME NEW n \in Server, NEW D, NEW D2, DiskStep(n, D, D2),
           NEW b, NEW b2, NEW M, NEW M2, NEW i \in Nat \ {0}, NEW t \in Nat,
           Dead(b, D, M, i, t),
           \A v \in Server : Holds(b2, M2, v, i, t) /\ ~Holds(b, M, v, i, t) =>
                                D[v].currentTerm <= t
    PROVE  Dead(b2, D2, M2, i, t)
<1> SUFFICES ASSUME NEW Q \in SUBSET Server, Cardinality(Q) >= Majority
             PROVE  \E v \in Q : D2[v].currentTerm > t /\ ~Holds(b2, M2, v, i, t)
  BY DEF Dead
<1>1. PICK v \in Q : D[v].currentTerm > t /\ ~Holds(b, M, v, i, t)
  BY DEF Dead
<1>2. D[v].currentTerm \in Nat /\ D2[v].currentTerm \in Nat /\ D2[v].currentTerm >= D[v].currentTerm
  BY TermsOnDisk
<1> QED
  BY <1>1, <1>2

LEMMA ElectedStable ==
    ASSUME NEW n \in Server, NEW D, NEW D2, DiskStep(n, D, D2), NEW b, NEW G, History(b, G),
           NEW t \in Nat,
           /\ D[b[t]].currentTerm >= t
           /\ \E Q \in SUBSET Server :
                 Cardinality(Q) >= Majority /\ \A v \in Q : D[v].currentTerm >= t,
           b[t] # Nil
    PROVE  /\ D2[b[t]].currentTerm >= t
           /\ \E Q \in SUBSET Server :
                 Cardinality(Q) >= Majority /\ \A v \in Q : D2[v].currentTerm >= t
<1>1. b[t] \in Server
  BY DEF History
<1>2. PICK Q \in SUBSET Server : Cardinality(Q) >= Majority /\ \A v \in Q : D[v].currentTerm >= t
  OBVIOUS
<1>3. \A v \in Q : D2[v].currentTerm >= t
  BY <1>2, TermsOnDisk
<1>4. D2[b[t]].currentTerm >= t
  BY <1>1, TermsOnDisk
<1> QED
  BY <1>2, <1>3, <1>4

LEMMA MergedRooted ==
    ASSUME NEW b, NEW G, History(b, G),
           NEW log \in Seq(Entry), NEW g \in Seq(Entry), NEW log2 \in Seq(Entry),
           NEW t \in Nat, NEW x \in Nat, x <= t,
           Rooted(b, G, log, x), Rooted(b, G, g, t), Merged(log, g, log2)
    PROVE  Rooted(b, G, log2, t)
<1> SUFFICES ASSUME NEW j \in 1..Len(log2)
             PROVE  /\ log2[j].term <= t
                    /\ b[log2[j].term] # Nil
                    /\ Agree(log2, G[log2[j].term], j)
  BY DEF Rooted
<1>1. j \in Nat /\ log2[j].term \in Nat
  BY EntryTerm, LenProperties
<1>2. G[log2[j].term] \in Seq(Entry)
  BY <1>1 DEF History
<1>3. ASSUME NEW p \in Seq(Entry), NEW y \in Nat, y <= t, Rooted(b, G, p, y), Agree(log2, p, j)
      PROVE  /\ log2[j].term <= t
             /\ b[log2[j].term] # Nil
             /\ Agree(log2, G[log2[j].term], j)
  <2>1. j \in 1..Len(p) /\ p[j] = log2[j]
    BY <1>1, <1>3, AgreeFacts
  <2>2. /\ log2[j].term <= y
        /\ b[log2[j].term] # Nil
        /\ Agree(p, G[log2[j].term], j)
    BY <1>3, <2>1 DEF Rooted
  <2> QED
    BY <1>1, <1>2, <1>3, <2>2, AgreeFacts
<1>4. Agree(log2, log, j) \/ Agree(log2, g, j)
  BY DEF Merged
<1> QED
  BY <1>3, <1>4

LEMMA RootedLater ==
    ASSUME NEW b, NEW G, NEW log \in Seq(Entry), NEW x \in Nat, NEW y \in Nat, x <= y,
           Rooted(b, G, log, x)
    PROVE  Rooted(b, G, log, y)
  BY EntryTerm DEF Rooted

-----------------------------------------------------------------------------
(* The core invariant survives a step in which nobody becomes a leader and *)
(* no leader extends its log: n keeps its log or merges the log of the     *)
(* leader of its term into it.                                             *)

LogStep(n, b, G, D, D2) ==
    \/ D2[n].log = D[n].log
    \/ /\ b[D2[n].currentTerm] \notin {Nil, n}
       /\ Merged(D[n].log, G[D2[n].currentTerm], D2[n].log)

LEMMA CoreMerge ==
    ASSUME NEW n \in Server, NEW b, NEW G, NEW D, NEW D2, NEW M, NEW M2,
           Core(b, G, D, M), DiskStep(n, D, D2), AckStep(n, b, G, D2, M, M2),
           LogStep(n, b, G, D, D2)
    PROVE  /\ Core(b, G, D2, M2)
           /\ \A i \in Nat \ {0}, t \in Nat : Dead(b, D, M, i, t) => Dead(b, D2, M2, i, t)
<1>1. \A v \in Server : /\ D[v].currentTerm \in Nat /\ D2[v].currentTerm \in Nat
                         /\ D2[v].currentTerm >= D[v].currentTerm
                         /\ D[v].log \in Seq(Entry) /\ D2[v].log \in Seq(Entry)
  BY TermsOnDisk
<1>2. \A v \in Server : v # n => D2[v] = D[v]
  BY DEF DiskStep
<1>3. PICK u \in Nat : u = D2[n].currentTerm
  BY <1>1
<1>4. History(b, G) /\ \A t \in Nat : G[t] \in Seq(Entry)
  BY DEF Core, History
<1>5. Rooted(b, G, D[n].log, D[n].currentTerm) /\ Rooted(b, G, G[u], u)
  BY DEF Core, DiskLogs, LeaderLogs
<1>6. ASSUME NEW i \in Nat \ {0}, NEW t \in Nat, Dead(b, D, M, i, t)
      PROVE  Dead(b, D2, M2, i, t)
  <2>1. \A v \in Server : Holds(b, M2, v, i, t) /\ ~Holds(b, M, v, i, t) =>
                             D[v].currentTerm <= t
    BY <1>1 DEF Holds, AckStep
  <2> QED
    BY <1>6, <2>1, DeadStable
<1>7. Elected(b, D2)
  BY <1>4, ElectedStable DEF Core, Elected
<1>8. DiskLogs(b, G, D2)
  <2>1. CASE D2[n].log = D[n].log
    <3>1. Rooted(b, G, D2[n].log, D2[n].currentTerm)
      BY <1>1, <1>5, <2>1, RootedLater
    <3> QED
      BY <1>2, <3>1 DEF Core, DiskLogs
  <2>2. CASE Merged(D[n].log, G[u], D2[n].log)
    <3>1. Rooted(b, G, D2[n].log, u)
      BY <1>1, <1>3, <1>4, <1>5, <2>2, MergedRooted
    <3> QED
      BY <1>2, <1>3, <3>1 DEF Core, DiskLogs
  <2> QED
    BY <1>3, <2>1, <2>2 DEF LogStep
<1>9. AcksHold(b, G, D2, M2)
  <2> SUFFICES ASSUME NEW v \in Server, NEW t \in Nat, NEW i \in Nat \ {0}, AckedIn(M2, v, i, t)
               PROVE  /\ b[t] \notin {Nil, v}
                      /\ i <= Len(G[t])
                      /\ D2[v].currentTerm >= t
                      /\ D2[v].currentTerm = t => Agree(D2[v].log, G[t], i)
    BY DEF AcksHold
  <2>1. CASE AckedIn(M, v, i, t)
    <3>1. /\ b[t] \notin {Nil, v}
          /\ i <= Len(G[t])
          /\ D[v].currentTerm >= t
          /\ D[v].currentTerm = t => Agree(D[v].log, G[t], i)
      BY <2>1 DEF Core, AcksHold
    <3>2. CASE v # n \/ D2[n].log = D[n].log
      BY <1>1, <1>2, <3>1, <3>2
    <3>3. CASE v = n /\ Merged(D[n].log, G[u], D2[n].log)
      <4>1. D2[v].currentTerm >= t
        BY <1>1, <3>1
      <4>2. ASSUME D2[v].currentTerm = t PROVE Agree(D2[v].log, G[t], i)
        <5>1. u = t /\ D[n].currentTerm = t
          BY <1>1, <1>3, <3>1, <3>3, <4>2
        <5> QED
          BY <3>1, <3>3, <5>1 DEF Merged
      <4> QED
        BY <3>1, <4>1, <4>2
    <3> QED
      BY <1>3, <3>2, <3>3 DEF LogStep
  <2>2. CASE ~AckedIn(M, v, i, t)
    BY <1>1, <2>2 DEF AckStep, Agree
  <2> QED
    BY <2>1, <2>2
<1>10. Succession(b, G, D2, M2)
  BY <1>6 DEF Core, Succession
<1>11. HoldersHold(b, G, D2, M2)
  <2> SUFFICES ASSUME NEW v \in Server, NEW t \in Nat, NEW i \in Nat \ {0},
                      Stamped(b, G, i, t), Holds(b, M2, v, i, t), ~Dead(b, D, M, i, t)
               PROVE  Has(D2[v].log, i, t)
    BY <1>6 DEF HoldersHold
  <2>1. CASE ~Holds(b, M, v, i, t)
    <3>1. v = n /\ Agree(D2[n].log, G[t], i)
      BY <2>1 DEF Holds, AckStep
    <3>2. Agree(G[t], D2[n].log, i)
      BY <1>1, <1>4, <3>1, AgreeFacts
    <3>3. Has(G[t], i, t) /\ i \in 1..i
      BY DEF Stamped
    <3> QED
      BY <1>1, <1>4, <3>1, <3>2, <3>3, AgreeHas
  <2>2. CASE Holds(b, M, v, i, t)
    <3>1. Has(D[v].log, i, t)
      BY <2>2 DEF Core, HoldersHold
    <3>2. CASE v # n \/ D2[n].log = D[n].log
      BY <1>2, <3>1, <3>2
    <3>3. CASE v = n /\ b[u] \notin {Nil, n} /\ Merged(D[n].log, G[u], D2[n].log)
      <4>1. t <= D[n].currentTerm
        BY <1>5, <3>1, <3>3 DEF Rooted, Has
      <4>2. t <= u
        BY <1>1, <1>3, <4>1
      <4>3. Has(G[u], i, t)
        BY <3>3, <4>2 DEF Core, Succession, Stamped
      <4>4. Agree(D[n].log, G[u], i)
        BY <1>1, <1>4, <1>5, <3>1, <3>3, <4>3, RootedMeet
      <4>5. Agree(D2[n].log, G[u], i)
        BY <3>3, <4>4 DEF Merged
      <4>6. Agree(G[u], D2[n].log, i)
        BY <1>1, <1>4, <4>5, AgreeFacts
      <4> QED
        BY <1>1, <1>4, <3>3, <4>3, <4>6, AgreeHas
    <3> QED
      BY <1>3, <3>2, <3>3 DEF LogStep
  <2> QED
    BY <2>1, <2>2
<1> QED
  BY <1>6, <1>7, <1>8, <1>9, <1>10, <1>11 DEF Core

(* A rooted log is numbered from 1 and its terms do not decrease.          *)
LEMMA RootedOrdered ==
    ASSUME NEW b, NEW G, History(b, G), LeaderLogs(b, G),
           NEW log \in Seq(Entry), NEW x, Rooted(b, G, log, x), NEW j \in 1..Len(log)
    PROVE  /\ log[j].index = j
           /\ \A i \in 1..j : log[i].term <= log[j].term
<1>1. j \in Nat /\ log[j].term \in Nat
  BY EntryTerm, LenProperties
<1>2. PICK t \in Nat : t = log[j].term
  BY <1>1
<1>3. Agree(log, G[t], j) /\ G[t] \in Seq(Entry)
  BY <1>2 DEF Rooted, History
<1>4. j \in 1..Len(G[t]) /\ \A i \in 1..j : log[i] = G[t][i]
  BY <1>1, <1>3, AgreeFacts
<1>5. G[t][j].index = j /\ \A i \in 1..j : G[t][i].term <= G[t][j].term
  BY <1>4 DEF LeaderLogs
<1> QED
  BY <1>1, <1>4, <1>5

(* The core invariant survives an election: n, with a majority in its term *)
(* u, becomes the first and only leader of u.                              *)
WinStep(n, u, b, G, D, b2, G2, D2, M2) ==
    /\ D2[n].log = D[n].log
    /\ u = D2[n].currentTerm
    /\ b[u] = Nil
    /\ \E Q \in SUBSET Server :
          Cardinality(Q) >= Majority /\ \A v \in Q : D2[v].currentTerm >= u
    /\ \A t \in Nat, i \in Nat \ {0} :
          Stamped(b, G, i, t) /\ t < u => Dead(b2, D2, M2, i, t) \/ Has(D[n].log, i, t)
    /\ b2 = [b EXCEPT ![u] = n]
    /\ G2 = [G EXCEPT ![u] = D[n].log]

LEMMA CoreWin ==
    ASSUME NEW n \in Server, NEW u \in Nat, NEW b, NEW G, NEW D, NEW D2, NEW M, NEW M2,
           NEW b2, NEW G2,
           Core(b, G, D, M), DiskStep(n, D, D2), SameAcks(M, M2),
           WinStep(n, u, b, G, D, b2, G2, D2, M2)
    PROVE  /\ Core(b2, G2, D2, M2)
           /\ \A i \in Nat \ {0}, t \in Nat : Dead(b, D, M, i, t) => Dead(b2, D2, M2, i, t)
           /\ \A i \in Nat \ {0}, t \in Nat : Stamped(b2, G2, i, t) <=> Stamped(b, G, i, t)
<1>1. \A v \in Server : /\ D[v].currentTerm \in Nat /\ D2[v].currentTerm \in Nat
                         /\ D2[v].currentTerm >= D[v].currentTerm
                         /\ D[v].log \in Seq(Entry) /\ D2[v].log = D[v].log
  BY TermsOnDisk DEF DiskStep, WinStep
<1>2. \A v \in Server : v # n => D2[v] = D[v]
  BY DEF DiskStep
<1>3. History(b, G) /\ \A t \in Nat : G[t] \in Seq(Entry)
  BY DEF Core, History
<1>4. /\ History(b2, G2)
      /\ b2[u] = n /\ G2[u] = D[n].log /\ n # Nil
      /\ \A t \in Nat : t # u => b2[t] = b[t] /\ G2[t] = G[t]
  <2>1. b2 = [b EXCEPT ![u] = n] /\ G2 = [G EXCEPT ![u] = D[n].log]
    BY DEF WinStep
  <2> QED
    BY <1>1, <1>3, <2>1, ServerAssumption DEF History
<1>5. b[u] = Nil /\ u = D2[n].currentTerm
  BY DEF WinStep
<1>6. ASSUME NEW log \in Seq(Entry), NEW x, Rooted(b, G, log, x)
      PROVE  Rooted(b2, G2, log, x)
  <2>1. \A j \in 1..Len(log) : log[j].term \in Nat
    BY EntryTerm
  <2> QED
    BY <1>4, <1>5, <1>6, <2>1 DEF Rooted
<1>7. Rooted(b, G, D[n].log, D[n].currentTerm) /\ LeaderLogs(b, G)
  BY DEF Core, DiskLogs
<1>8. LeaderLogs(b2, G2)
  <2> SUFFICES ASSUME NEW t \in Nat
               PROVE  /\ b2[t] = Nil => G2[t] = << >>
                      /\ Rooted(b2, G2, G2[t], t)
                      /\ \A j \in 1..Len(G2[t]) :
                            /\ G2[t][j].index = j
                            /\ \A i \in 1..j : G2[t][i].term <= G2[t][j].term
    BY DEF LeaderLogs
  <2>1. CASE t = u
    <3>1. Rooted(b, G, D[n].log, u)
      BY <1>1, <1>5, <1>7, RootedLater
    <3>2. Rooted(b2, G2, D[n].log, u)
      BY <1>1, <1>6, <3>1
    <3> QED
      BY <1>1, <1>3, <1>4, <1>7, <2>1, <3>2, RootedOrdered
  <2>2. CASE t # u
    <3>1. Rooted(b, G, G[t], t)
      BY <1>7 DEF LeaderLogs
    <3>2. Rooted(b2, G2, G[t], t)
      BY <1>3, <1>6, <3>1
    <3> QED
      BY <1>4, <1>7, <2>2, <3>2 DEF LeaderLogs
  <2> QED
    BY <2>1, <2>2
<1>9. Elected(b2, D2)
  <2>1. ASSUME NEW t \in Nat, t # u, b2[t] # Nil
        PROVE  /\ D2[b2[t]].currentTerm >= t
               /\ \E Q \in SUBSET Server :
                     Cardinality(Q) >= Majority /\ \A v \in Q : D2[v].currentTerm >= t
    BY <1>3, <1>4, <2>1, ElectedStable DEF Core, Elected
  <2>2. D2[b2[u]].currentTerm >= u
    BY <1>4, <1>5
  <2>3. \E Q \in SUBSET Server :
           Cardinality(Q) >= Majority /\ \A v \in Q : D2[v].currentTerm >= u
    BY DEF WinStep
  <2> QED
    BY <2>1, <2>2, <2>3 DEF Elected
<1>10. DiskLogs(b2, G2, D2)
  <2> SUFFICES ASSUME NEW v \in Server PROVE Rooted(b2, G2, D2[v].log, D2[v].currentTerm)
    BY DEF DiskLogs
  <2>1. Rooted(b, G, D[v].log, D[v].currentTerm)
    BY DEF Core, DiskLogs
  <2>2. Rooted(b, G, D2[v].log, D2[v].currentTerm)
    BY <1>1, <2>1, RootedLater
  <2> QED
    BY <1>1, <1>6, <2>2
<1>11. AcksHold(b2, G2, D2, M2)
  <2> SUFFICES ASSUME NEW v \in Server, NEW t \in Nat, NEW i \in Nat \ {0}, AckedIn(M2, v, i, t)
               PROVE  /\ b2[t] \notin {Nil, v}
                      /\ i <= Len(G2[t])
                      /\ D2[v].currentTerm >= t
                      /\ D2[v].currentTerm = t => Agree(D2[v].log, G2[t], i)
    BY DEF AcksHold
  <2>1. /\ b[t] \notin {Nil, v}
        /\ i <= Len(G[t])
        /\ D[v].currentTerm >= t
        /\ D[v].currentTerm = t => Agree(D[v].log, G[t], i)
    BY DEF Core, AcksHold, SameAcks
  <2>2. t # u
    BY <1>5, <2>1
  <2> QED
    BY <1>1, <1>2, <1>4, <1>5, <2>1, <2>2
<1>12. \A i \in Nat \ {0}, t \in Nat : Stamped(b2, G2, i, t) <=> t # u /\ Stamped(b, G, i, t)
  <2>1. \A i : ~Has(D[n].log, i, u)
    BY <1>7, <1>5 DEF Has, Rooted
  <2> QED
    BY <1>4, <2>1 DEF Stamped
<1>13. ASSUME NEW i \in Nat \ {0}, NEW t \in Nat, Dead(b, D, M, i, t)
       PROVE  Dead(b2, D2, M2, i, t)
  <2>1. \A v \in Server : Holds(b2, M2, v, i, t) /\ ~Holds(b, M, v, i, t) =>
                             D[v].currentTerm <= t
    BY <1>1, <1>4, <1>5 DEF Holds, SameAcks
  <2> QED
    BY <1>13, <2>1, DeadStable
<1>14. Succession(b2, G2, D2, M2)
  <2> SUFFICES ASSUME NEW t \in Nat, NEW x \in Nat, NEW i \in Nat \ {0},
                      Stamped(b2, G2, i, t), t < x, b2[x] # Nil, ~Dead(b2, D2, M2, i, t)
               PROVE  Has(G2[x], i, t)
    BY DEF Succession
  <2>1. Stamped(b, G, i, t)
    BY <1>12
  <2>2. CASE x = u
    BY <1>4, <2>1, <2>2 DEF WinStep
  <2>3. CASE x # u
    BY <1>4, <1>13, <2>1, <2>3 DEF Core, Succession
  <2> QED
    BY <2>2, <2>3
<1>15. HoldersHold(b2, G2, D2, M2)
  <2> SUFFICES ASSUME NEW v \in Server, NEW t \in Nat, NEW i \in Nat \ {0},
                      Stamped(b2, G2, i, t), Holds(b2, M2, v, i, t), ~Dead(b, D, M, i, t)
               PROVE  Has(D2[v].log, i, t)
    BY <1>13 DEF HoldersHold
  <2>1. t # u /\ Stamped(b, G, i, t)
    BY <1>12
  <2>2. Holds(b, M, v, i, t)
    BY <1>4, <2>1 DEF Holds, SameAcks
  <2> QED
    BY <1>1, <2>1, <2>2 DEF Core, HoldersHold
<1>16. \A i \in Nat \ {0}, t \in Nat : Stamped(b, G, i, t) => t # u
  BY <1>5 DEF Stamped
<1> QED
  BY <1>4, <1>8, <1>9, <1>10, <1>11, <1>12, <1>13, <1>14, <1>15, <1>16 DEF Core

(* The core invariant survives a proposal: the leader n of t0 appends an   *)
(* entry of t0 to its log.                                                 *)
GrowStep(n, t0, e, b, G, D, G2, D2) ==
    /\ t0 = D[n].currentTerm /\ t0 = D2[n].currentTerm
    /\ b[t0] = n /\ G[t0] = D[n].log
    /\ e \in Entry /\ e.term = t0 /\ e.index = Len(D[n].log) + 1
    /\ D2[n].log = Append(D[n].log, e)
    /\ G2 = [G EXCEPT ![t0] = D2[n].log]

LEMMA CoreGrow ==
    ASSUME NEW n \in Server, NEW t0 \in Nat, NEW e, NEW b, NEW G, NEW D, NEW D2, NEW M, NEW M2,
           NEW G2,
           Core(b, G, D, M), DiskStep(n, D, D2), SameAcks(M, M2),
           GrowStep(n, t0, e, b, G, D, G2, D2)
    PROVE  /\ Core(b, G2, D2, M2)
           /\ \A i \in Nat \ {0}, t \in Nat : Dead(b, D, M, i, t) => Dead(b, D2, M2, i, t)
           /\ \A i \in Nat \ {0}, t \in Nat :
                 Stamped(b, G2, i, t) => \/ Stamped(b, G, i, t)
                                         \/ t = t0 /\ i = Len(G[t0]) + 1
           /\ \A i \in Nat \ {0}, t \in Nat, v \in Server :
                 t = t0 /\ i = Len(G[t0]) + 1 /\ Holds(b, M2, v, i, t) => v = n
           /\ \A t \in Nat : Agree(G[t], G2[t], Len(G[t]))
<1>1. \A v \in Server : /\ D[v].currentTerm \in Nat /\ D2[v].currentTerm = D[v].currentTerm
                         /\ D[v].log \in Seq(Entry) /\ D2[v].log \in Seq(Entry)
  BY TermsOnDisk DEF DiskStep, GrowStep
<1>2. \A v \in Server : v # n => D2[v] = D[v]
  BY DEF DiskStep
<1>3. /\ t0 = D[n].currentTerm /\ t0 = D2[n].currentTerm
      /\ b[t0] = n /\ G[t0] = D[n].log
      /\ e \in Entry /\ e.term = t0 /\ e.index = Len(D[n].log) + 1
      /\ D2[n].log = Append(D[n].log, e)
  BY DEF GrowStep
<1>4. PICK log \in Seq(Entry) : log = D[n].log
  BY <1>1
<1>5. PICK l \in Nat : l = Len(log)
  BY LenProperties
<1>6. PICK new \in Seq(Entry) : new = Append(log, e)
  BY <1>3, <1>4, AppendProperties
<1>7. Len(new) = l + 1 /\ new[l + 1] = e /\ \A j \in 1..l : new[j] = log[j]
  BY <1>3, <1>5, <1>6, AppendProperties
<1>8. Agree(log, new, l)
  BY <1>5, <1>7 DEF Agree
<1>9. History(b, G) /\ \A t \in Nat : G[t] \in Seq(Entry)
  BY DEF Core, History
<1>10. /\ History(b, G2)
      /\ G2[t0] = new /\ G[t0] = log
      /\ \A t \in Nat : t # t0 => G2[t] = G[t]
  <2>1. G2 = [G EXCEPT ![t0] = new]
    BY <1>3, <1>4, <1>6 DEF GrowStep
  <2> QED
    BY <1>3, <1>4, <1>9, <2>1 DEF History
<1>11. \A t \in Nat : G2[t] \in Seq(Entry) /\ Len(G[t]) \in Nat /\ Agree(G[t], G2[t], Len(G[t]))
  <2> TAKE t \in Nat
  <2>1. G2[t] \in Seq(Entry) /\ Len(G[t]) \in Nat
    BY <1>9, <1>10, LenProperties DEF History
  <2>2. CASE t = t0
    BY <1>5, <1>8, <1>10, <2>1, <2>2
  <2>3. CASE t # t0
    BY <1>10, <2>1, <2>3 DEF Agree
  <2> QED
    BY <2>1, <2>2, <2>3
<1>12. ASSUME NEW q \in Seq(Entry), NEW t \in Nat, NEW j \in Nat, Agree(q, G[t], j)
       PROVE  Agree(q, G2[t], j)
  <2>1. j \in 0..Len(G[t])
    BY <1>11, <1>12 DEF Agree
  <2>2. Agree(G[t], G2[t], j)
    BY <1>9, <1>11, <2>1, AgreeFacts
  <2> QED
    BY <1>9, <1>11, <1>12, <2>2, AgreeFacts
<1>13. ASSUME NEW q \in Seq(Entry), NEW x, Rooted(b, G, q, x)
       PROVE  Rooted(b, G2, q, x)
  <2>1. \A j \in 1..Len(q) : q[j].term \in Nat /\ j \in Nat
    BY EntryTerm, LenProperties
  <2> QED
    BY <1>12, <1>13, <2>1 DEF Rooted
<1>14. /\ LeaderLogs(b, G)
       /\ Rooted(b, G, log, t0)
  BY <1>3, <1>4 DEF Core, DiskLogs
<1>15. Rooted(b, G2, new, t0)
  <2> SUFFICES ASSUME NEW j \in 1..l + 1
               PROVE  /\ new[j].term <= t0
                      /\ b[new[j].term] # Nil
                      /\ Agree(new, G2[new[j].term], j)
    BY <1>7 DEF Rooted
  <2>1. CASE j = l + 1
    <3>1. Agree(new, new, j)
      BY <1>7, <2>1 DEF Agree
    <3> QED
      BY <1>3, <1>7, <1>10, <2>1, <3>1, ServerAssumption
  <2>2. CASE j \in 1..l
    <3>1. new[j] = log[j] /\ j \in 1..Len(log) /\ log[j].term \in Nat
      BY <1>5, <1>7, <2>2, EntryTerm
    <3>2. Rooted(b, G2, log, t0)
      BY <1>13, <1>14
    <3>3. /\ log[j].term <= t0 /\ b[log[j].term] # Nil
          /\ Agree(log, G2[log[j].term], j)
      BY <3>1, <3>2 DEF Rooted
    <3>4. Agree(new, log, j)
      BY <1>5, <1>7, <2>2 DEF Agree
    <3> QED
      BY <1>11, <3>1, <3>3, <3>4, AgreeFacts
  <2> QED
    BY <2>1, <2>2
<1>16. LeaderLogs(b, G2)
  <2> SUFFICES ASSUME NEW t \in Nat
               PROVE  /\ b[t] = Nil => G2[t] = << >>
                      /\ Rooted(b, G2, G2[t], t)
                      /\ \A j \in 1..Len(G2[t]) :
                            /\ G2[t][j].index = j
                            /\ \A i \in 1..j : G2[t][i].term <= G2[t][j].term
    BY DEF LeaderLogs
  <2>1. CASE t # t0
    <3>1. Rooted(b, G2, G[t], t)
      BY <1>9, <1>13, <1>14 DEF LeaderLogs
    <3> QED
      BY <1>10, <1>14, <2>1, <3>1 DEF LeaderLogs
  <2>2. CASE t = t0
    <3>1. ASSUME NEW j \in 1..l + 1
          PROVE  /\ new[j].index = j
                 /\ \A i \in 1..j : new[i].term <= new[j].term
      <4>1. CASE j = l + 1
        <5>1. \A i \in 1..l : new[i].term <= t0
          BY <1>5, <1>7, <1>14 DEF Rooted
        <5> QED
          BY <1>3, <1>4, <1>5, <1>7, <4>1, <5>1
      <4>2. CASE j \in 1..l
        <5>1. /\ log[j].index = j
              /\ \A i \in 1..j : log[i].term <= log[j].term
          BY <1>5, <1>9, <1>14, <4>2, RootedOrdered
        <5> QED
          BY <1>7, <4>2, <5>1
      <4> QED
        BY <4>1, <4>2
    <3> QED
      BY <1>3, <1>7, <1>10, <1>15, <2>2, <3>1, ServerAssumption
  <2> QED
    BY <2>1, <2>2
<1>17. Elected(b, D2)
  BY <1>9, ElectedStable DEF Core, Elected
<1>18. DiskLogs(b, G2, D2)
  <2> SUFFICES ASSUME NEW v \in Server PROVE Rooted(b, G2, D2[v].log, D2[v].currentTerm)
    BY DEF DiskLogs
  <2>1. CASE v = n
    BY <1>3, <1>4, <1>6, <1>15, <2>1
  <2>2. CASE v # n
    BY <1>1, <1>2, <1>13, <2>2 DEF Core, DiskLogs
  <2> QED
    BY <2>1, <2>2
<1>19. \A v \in Server, t \in Nat, i \in Nat \ {0} :
          Holds(b, M2, v, i, t) <=> Holds(b, M, v, i, t)
  BY DEF Holds, SameAcks
<1>20. AcksHold(b, G2, D2, M2)
  <2> SUFFICES ASSUME NEW v \in Server, NEW t \in Nat, NEW i \in Nat \ {0}, AckedIn(M2, v, i, t)
               PROVE  /\ b[t] \notin {Nil, v}
                      /\ i <= Len(G2[t])
                      /\ D2[v].currentTerm >= t
                      /\ D2[v].currentTerm = t => Agree(D2[v].log, G2[t], i)
    BY DEF AcksHold
  <2>1. /\ b[t] \notin {Nil, v}
        /\ i <= Len(G[t])
        /\ D[v].currentTerm >= t
        /\ D[v].currentTerm = t => Agree(D[v].log, G[t], i)
    BY DEF Core, AcksHold, SameAcks
  <2>2. i <= Len(G2[t])
    BY <1>11, <2>1, LenProperties DEF Agree
  <2>3. D[v].currentTerm = t => v # n
    BY <1>3, <2>1
  <2> QED
    BY <1>1, <1>2, <1>12, <2>1, <2>2, <2>3
<1>21. ASSUME NEW i \in Nat \ {0}, NEW t \in Nat, Dead(b, D, M, i, t)
       PROVE  Dead(b, D2, M2, i, t)
  BY <1>19, <1>21, DeadStable
<1>22. ASSUME NEW i \in Nat \ {0}, NEW t \in Nat, NEW x \in Nat, Has(G[x], i, t)
       PROVE  Has(G2[x], i, t)
  <2>1. i \in 1..Len(G[x])
    BY <1>22 DEF Has
  <2> QED
    BY <1>9, <1>11, <1>22, <2>1, AgreeHas
<1>23. ASSUME NEW i \in Nat \ {0}, NEW t \in Nat, Stamped(b, G2, i, t)
       PROVE  Stamped(b, G, i, t) \/ (t = t0 /\ i = l + 1)
  <2>1. CASE t # t0
    BY <1>10, <1>23, <2>1 DEF Stamped
  <2>2. CASE t = t0 /\ i # l + 1
    <3>1. i \in 1..l /\ new[i].term = t /\ new[i] = log[i]
      BY <1>7, <1>10, <1>23, <2>2 DEF Stamped, Has
    <3> QED
      BY <1>5, <1>10, <1>23, <2>2, <3>1 DEF Stamped, Has
  <2> QED
    BY <2>1, <2>2
<1>24. ASSUME NEW v \in Server, Holds(b, M2, v, l + 1, t0) PROVE v = n
  <2>1. l + 1 \in Nat \ {0}
    OBVIOUS
  <2>2. ~AckedIn(M, v, l + 1, t0)
    BY <1>3, <1>4, <1>5, <2>1 DEF Core, AcksHold
  <2> QED
    BY <1>3, <1>19, <1>24, <2>1, <2>2 DEF Holds
<1>25. Succession(b, G2, D2, M2)
  <2> SUFFICES ASSUME NEW t \in Nat, NEW u \in Nat, NEW i \in Nat \ {0},
                      Stamped(b, G2, i, t), t < u, b[u] # Nil
               PROVE  Dead(b, D2, M2, i, t) \/ Has(G2[u], i, t)
    BY DEF Succession
  <2>1. CASE Stamped(b, G, i, t)
    BY <1>21, <1>22, <2>1 DEF Core, Succession
  <2>2. CASE t = t0 /\ i = l + 1
    <3>1. PICK P \in SUBSET Server : Cardinality(P) >= Majority /\ \A v \in P : D[v].currentTerm >= u
      BY DEF Core, Elected
    <3>2. ASSUME NEW Q \in SUBSET Server, Cardinality(Q) >= Majority
          PROVE  \E v \in Q : D2[v].currentTerm > t /\ ~Holds(b, M2, v, i, t)
      <4>1. PICK v \in P \cap Q : TRUE
        BY <3>1, <3>2, MajoritiesMeet
      <4>2. D2[v].currentTerm >= u /\ D2[v].currentTerm \in Nat
        BY <1>1, <3>1, <4>1
      <4>3. v # n
        BY <1>3, <2>2, <4>2
      <4> QED
        BY <1>24, <2>2, <4>1, <4>2, <4>3
    <3> QED
      BY <3>2 DEF Dead
  <2> QED
    BY <1>23, <2>1, <2>2
<1>26. HoldersHold(b, G2, D2, M2)
  <2> SUFFICES ASSUME NEW v \in Server, NEW t \in Nat, NEW i \in Nat \ {0},
                      Stamped(b, G2, i, t), Holds(b, M2, v, i, t), ~Dead(b, D, M, i, t)
               PROVE  Has(D2[v].log, i, t)
    BY <1>21 DEF HoldersHold
  <2>1. CASE Stamped(b, G, i, t)
    <3>1. Has(D[v].log, i, t)
      BY <1>19, <2>1 DEF Core, HoldersHold
    <3>2. CASE v # n
      BY <1>2, <3>1, <3>2
    <3>3. CASE v = n
      <4>1. i \in 1..l
        BY <1>4, <1>5, <3>1, <3>3 DEF Has
      <4> QED
        BY <1>3, <1>4, <1>5, <1>6, <1>8, <3>1, <3>3, <4>1, AgreeHas
    <3> QED
      BY <3>2, <3>3
  <2>2. CASE t = t0 /\ i = l + 1
    BY <1>3, <1>4, <1>6, <1>7, <1>24, <2>2 DEF Has
  <2> QED
    BY <1>23, <2>1, <2>2
<1>27. \A i \in Nat \ {0}, t \in Nat, v \in Server :
          t = t0 /\ i = Len(G[t0]) + 1 /\ Holds(b, M2, v, i, t) => v = n
  BY <1>5, <1>10, <1>24
<1>28. Core(b, G2, D2, M2)
  BY <1>10, <1>16, <1>17, <1>18, <1>20, <1>25, <1>26 DEF Core
<1> QED
  BY <1>5, <1>10, <1>11, <1>21, <1>23, <1>27, <1>28

-----------------------------------------------------------------------------
(* What the writes of a result leave on a disk whose log is numbered from  *)
(* 1: either nothing is written to the log, or the log is cut before       *)
(* position i and a run of entries numbered from i is appended.            *)

Numbered(log) == \A j \in 1..Len(log) : log[j].index = j

WritesNothing(r) == r.truncate = 0 /\ r.entries = << >>

WritesAt(r, log, i) ==
    /\ i \in 1..Len(log) + 1
    /\ r.entries # << >>
    /\ \A k \in 1..Len(r.entries) : r.entries[k].index = i + k - 1
    /\ r.truncate = (IF i <= Len(log) THEN i ELSE 0)

(* The first i - 1 entries of log and then the first k of es.              *)
Spliced(log, i, es, k) == SubSeq(log, 1, i - 1) \o SubSeq(es, 1, k)

LEMMA SubSeqFacts ==
    ASSUME NEW log \in Seq(Entry), NEW a \in Nat \ {0}, NEW z \in Nat,
           a <= z + 1, z <= Len(log)
    PROVE  /\ SubSeq(log, a, z) \in Seq(Entry)
           /\ Len(SubSeq(log, a, z)) = z - a + 1
           /\ \A i \in 1..z - a + 1 : SubSeq(log, a, z)[i] = log[a + i - 1]
<1>1. Len(log) \in Nat
  BY LenProperties
<1>2. \A i \in a..z : log[i] \in Entry
  BY <1>1, ElementOfSeq
<1>3. a \in Int /\ z \in Int
  OBVIOUS
<1>4. /\ SubSeq(log, a, z) \in Seq(Entry)
      /\ Len(SubSeq(log, a, z)) = IF a <= z THEN z - a + 1 ELSE 0
      /\ \A i \in 1..z - a + 1 : SubSeq(log, a, z)[i] = log[a + i - 1]
  BY <1>2, <1>3, SubSeqProperties
<1>5. a <= z \/ z - a + 1 = 0
  OBVIOUS
<1> QED
  BY <1>4, <1>5

LEMMA SplicedFacts ==
    ASSUME NEW log \in Seq(Entry), NEW i \in 1..Len(log) + 1,
           NEW es \in Seq(Entry), NEW k \in 0..Len(es)
    PROVE  /\ Spliced(log, i, es, k) \in Seq(Entry)
           /\ Len(Spliced(log, i, es, k)) = i - 1 + k
           /\ \A j \in 1..i - 1 : Spliced(log, i, es, k)[j] = log[j]
           /\ \A j \in 1..k : Spliced(log, i, es, k)[i - 1 + j] = es[j]
<1>1. Len(log) \in Nat /\ Len(es) \in Nat
  BY LenProperties
<1> DEFINE p == SubSeq(log, 1, i - 1)
           q == SubSeq(es, 1, k)
<1>2. i - 1 \in Nat /\ 1 <= (i - 1) + 1 /\ i - 1 <= Len(log) /\ (i - 1) - 1 + 1 = i - 1
      /\ k \in Nat /\ 1 <= k + 1 /\ k <= Len(es) /\ k - 1 + 1 = k /\ \A j \in Nat : 1 + j - 1 = j
  BY <1>1
<1>3. p \in Seq(Entry) /\ Len(p) = i - 1 /\ \A j \in 1..i - 1 : p[j] = log[j]
  BY <1>2, SubSeqFacts
<1>4. q \in Seq(Entry) /\ Len(q) = k
  BY <1>2, SubSeqFacts
<1>5. \A j \in 1..k : q[j] = es[j]
  BY <1>2, SubSeqFacts
<1> HIDE DEF p, q
<1>6. /\ p \o q \in Seq(Entry)
      /\ Len(p \o q) = i - 1 + k
      /\ \A j \in 1 .. i - 1 + k : (p \o q)[j] = IF j <= i - 1 THEN p[j] ELSE q[j - (i - 1)]
  <2>1. /\ p \o q \in Seq(Entry)
        /\ Len(p \o q) = Len(p) + Len(q)
        /\ \A j \in 1 .. Len(p) + Len(q) : (p \o q)[j] =
                     IF j <= Len(p) THEN p[j] ELSE q[j - Len(p)]
    BY <1>3, <1>4, ConcatProperties
  <2> QED
    BY <1>3, <1>4, <2>1
<1>7. PICK c \in Seq(Entry) : c = p \o q
  BY <1>6
<1>8. /\ Len(c) = i - 1 + k
      /\ \A j \in 1 .. i - 1 + k : c[j] = IF j <= i - 1 THEN p[j] ELSE q[j - (i - 1)]
  BY <1>6, <1>7
<1>9. \A j \in 1..i - 1 : c[j] = log[j]
  BY <1>1, <1>3, <1>8
<1>10. \A j \in 1..k : c[i - 1 + j] = es[j]
  <2> TAKE j \in 1..k
  <2>1. i - 1 + j \in 1..i - 1 + k /\ ~(i - 1 + j <= i - 1) /\ (i - 1 + j) - (i - 1) = j
    BY <1>1
  <2> QED
    BY <1>5, <1>8, <2>1
<1> QED
  BY <1>7, <1>8, <1>9, <1>10 DEF Spliced, p, q

LEMMA KeysBelowNumbered ==
    ASSUME NEW log \in Seq(Entry), Numbered(log), NEW i \in Nat \ {0}
    PROVE  KeysBelow(log, i) = IF i <= Len(log) THEN i - 1 ELSE Len(log)
<1>1. Len(log) \in Nat
  BY LenProperties
<1>2. CASE i <= Len(log)
  <2>1. {k \in 1..Len(log) : log[k].index < i} = 1..i - 1
    BY <1>1, <1>2 DEF Numbered
  <2>2. Cardinality(1..i - 1) = i - 1
    <3>1. i - 1 \in Int /\ 1 \in Int /\ (1 > i - 1 => i - 1 = 0) /\ (i - 1) - 1 + 1 = i - 1
      OBVIOUS
    <3>2. Cardinality(1..i - 1) = IF 1 > i - 1 THEN 0 ELSE (i - 1) - 1 + 1
      BY <3>1, FS_Interval
    <3> QED
      BY <3>1, <3>2
  <2> QED
    BY <1>2, <2>1, <2>2 DEF KeysBelow
<1>3. CASE ~(i <= Len(log))
  <2>1. {k \in 1..Len(log) : log[k].index < i} = 1..Len(log)
    BY <1>1, <1>3 DEF Numbered
  <2>2. Cardinality(1..Len(log)) = Len(log)
    <3>1. PICK z \in Nat : z = Len(log)
      BY <1>1
    <3>2. z \in Int /\ 1 \in Int /\ (1 > z => z = 0) /\ z - 1 + 1 = z
      OBVIOUS
    <3>3. Cardinality(1..z) = IF 1 > z THEN 0 ELSE z - 1 + 1
      BY <3>2, FS_Interval
    <3> QED
      BY <3>1, <3>2, <3>3
  <2> QED
    BY <1>3, <2>1, <2>2 DEF KeysBelow
<1> QED
  BY <1>2, <1>3

LEMMA SplitNumbered ==
    ASSUME NEW log \in Seq(Entry), Numbered(log), NEW i \in Nat \ {0}
    PROVE  /\ i <= Len(log) => Below(log, i) = SubSeq(log, 1, i - 1)
           /\ i > Len(log) => Below(log, i) = log /\ AtOrAbove(log, i) = << >>
<1>1. Len(log) \in Nat
  BY LenProperties
<1>2. CASE i <= Len(log)
  BY <1>1, <1>2, KeysBelowNumbered DEF Below
<1>3. CASE i > Len(log)
  <2>1. KeysBelow(log, i) = Len(log)
    BY <1>1, <1>3, KeysBelowNumbered
  <2>2. SubSeq(log, 1, Len(log)) = log
    BY SubSeqFull
  <2>3. SubSeq(log, Len(log) + 1, Len(log)) = << >>
    BY <1>1, SubSeqEmpty
  <2> QED
    BY <1>1, <1>3, <2>1, <2>2, <2>3 DEF Below, AtOrAbove
<1> QED
  BY <1>1, <1>2, <1>3

LEMMA DiskWritesNothing ==
    ASSUME NEW d \in HardState, NEW r, ResultTypeOK(r), WritesNothing(r)
    PROVE  /\ Durable(d, r).log = d.log
           /\ \A e \in CutWrites(d, r) : e.log = d.log
<1>1. r.truncate = 0 /\ r.entries = << >> /\ Len(r.entries) = 0
  BY EmptySeq DEF WritesNothing
<1>2. WithHardState(d, r).log = d.log
  BY DEF WithHardState, HardState
<1>3. WithTruncate(WithHardState(d, r), r) = WithHardState(d, r)
  BY <1>1 DEF WithTruncate
<1>4. Durable(d, r) = WithHardState(d, r)
  BY <1>1, <1>3 DEF Durable, WithEntries
<1>5. CutWrites(d, r) = {d, WithHardState(d, r)}
  BY <1>1, <1>3 DEF CutWrites
<1> QED
  BY <1>2, <1>4, <1>5

LEMMA DiskWritesAt ==
    ASSUME NEW d \in HardState, NEW r, ResultTypeOK(r), Numbered(d.log),
           NEW i, WritesAt(r, d.log, i)
    PROVE  /\ Durable(d, r).log = Spliced(d.log, i, r.entries, Len(r.entries))
           /\ \A e \in CutWrites(d, r) :
                 \/ e.log = d.log
                 \/ /\ e.currentTerm = (IF r.persist THEN r.node.currentTerm ELSE d.currentTerm)
                    /\ \E k \in 0..Len(r.entries) : e.log = Spliced(d.log, i, r.entries, k)
<1> DEFINE h == WithHardState(d, r)
           t == WithTruncate(h, r)
           es == r.entries
           base == SubSeq(d.log, 1, i - 1)
           term == IF r.persist THEN r.node.currentTerm ELSE d.currentTerm
<1>1. /\ d.log \in Seq(Entry) /\ Len(d.log) \in Nat
      /\ es \in Seq(Entry) /\ Len(es) \in Nat \ {0}
      /\ r.truncate \in Nat
  BY LenProperties, EmptySeq DEF HardState, ResultTypeOK, Result, WritesAt
<1>2. /\ i \in 1..Len(d.log) + 1
      /\ \A k \in 1..Len(es) : es[k].index = i + k - 1
      /\ r.truncate = (IF i <= Len(d.log) THEN i ELSE 0)
  BY DEF WritesAt
<1>3. h.log = d.log /\ h.currentTerm = term /\ h \in HardState
  BY DEF WithHardState, HardState, ResultTypeOK, Result, RaftNode
<1>4. i - 1 \in Nat /\ 1 <= (i - 1) + 1 /\ i - 1 <= Len(d.log) /\ (i - 1) - 1 + 1 = i - 1
      /\ i \in Nat \ {0} /\ \A j \in Nat : 1 + j - 1 = j
  BY <1>1, <1>2
<1>5. base \in Seq(Entry) /\ Len(base) = i - 1 /\ \A j \in 1..i - 1 : base[j] = d.log[j]
  BY <1>1, <1>4, SubSeqFacts
<1>6. t.log = base /\ t.currentTerm = term /\ t \in HardState
  <2> HIDE DEF h
  <2>1. CASE i <= Len(d.log)
    <3>1. Below(h.log, r.truncate) = base
      BY <1>1, <1>2, <1>3, <1>4, <2>1, SplitNumbered
    <3>2. r.truncate > 0
      BY <1>2, <1>4, <2>1
    <3> HIDE DEF base
    <3> QED
      BY <1>3, <1>5, <3>1, <3>2 DEF WithTruncate, HardState
  <2>2. CASE ~(i <= Len(d.log))
    <3>1. i - 1 = Len(d.log)
      BY <1>1, <1>2, <2>2
    <3>2. base = d.log
      BY <1>1, <3>1, SubSeqFull
    <3>3. t = h
      BY <1>2, <2>2 DEF WithTruncate
    <3> QED
      BY <1>3, <3>2, <3>3
  <2> QED
    BY <2>1, <2>2
<1> HIDE DEF h, t, base, term
<1>7. Numbered(base)
  BY <1>1, <1>2, <1>4, <1>5 DEF Numbered
<1>8. ASSUME NEW k \in 1..Len(es)
      PROVE  /\ WithEntries(t, r, k).log = Spliced(d.log, i, es, k)
             /\ WithEntries(t, r, k).currentTerm = term
  <2>1. k # 0 /\ es[1].index = i /\ es[k].index + 1 = i + k
    BY <1>1, <1>2, <1>4, <1>8
  <2>2. Below(t.log, r.entries[1].index) = base
    BY <1>4, <1>5, <1>6, <1>7, <2>1, SplitNumbered
  <2>3. AtOrAbove(t.log, r.entries[k].index + 1) = << >>
    <3>1. i + k \in Nat \ {0} /\ i + k > Len(base)
      BY <1>4, <1>5, <1>8
    <3> QED
      BY <1>5, <1>6, <1>7, <2>1, <3>1, SplitNumbered
  <2>4. Spliced(d.log, i, es, k) = base \o SubSeq(es, 1, k)
    BY DEF Spliced, base
  <2>5. Spliced(d.log, i, es, k) \in Seq(Entry)
    <3>1. k \in 0..Len(es)
      BY <1>1, <1>8
    <3> QED
      BY <1>1, <1>2, <3>1, SplicedFacts
  <2>6. Spliced(d.log, i, es, k) \o << >> = Spliced(d.log, i, es, k)
    BY <2>5, ConcatEmptySeq
  <2>7. WithEntries(t, r, k) = [t EXCEPT !.log = Spliced(d.log, i, es, k)]
    BY <2>1, <2>2, <2>3, <2>4, <2>6 DEF WithEntries
  <2> HIDE DEF es
  <2> QED
    BY <1>6, <2>5, <2>7 DEF HardState
<1>9. base = Spliced(d.log, i, es, 0)
  <2>1. SubSeq(es, 1, 0) = << >>
    BY SubSeqEmpty
  <2>2. base \o << >> = base
    BY <1>5, ConcatEmptySeq
  <2> QED
    BY <2>1, <2>2 DEF Spliced, base
<1>10. Durable(d, r).log = Spliced(d.log, i, es, Len(es))
  <2>1. Durable(d, r) = WithEntries(t, r, Len(es))
    BY DEF Durable, t, h
  <2> QED
    BY <1>1, <1>8, <2>1
<1>11. ASSUME NEW e \in CutWrites(d, r)
       PROVE  \/ e.log = d.log
              \/ e.currentTerm = term /\ \E k \in 0..Len(es) : e.log = Spliced(d.log, i, es, k)
  <2>1. \/ e \in {d, h, t}
        \/ \E k \in 1..Len(es) : e = WithEntries(t, r, k)
    BY DEF CutWrites, h, t
  <2>2. CASE e \in {d, h}
    BY <1>3, <2>2
  <2>3. CASE e = t
    BY <1>1, <1>6, <1>9, <2>3
  <2>4. CASE \E k \in 1..Len(es) : e = WithEntries(t, r, k)
    BY <1>1, <1>8, <2>4
  <2> QED
    BY <2>1, <2>2, <2>3, <2>4
<1> QED
  BY <1>10, <1>11 DEF term

-----------------------------------------------------------------------------
(* Merging the entries of a leader into a log that passed the prev_log     *)
(* check.  g is the log of the leader.                                     *)

(* The entries of m are a run of g, after the entry that prev_log names.   *)
RunOf(m, g) ==
    /\ m.prevLogIndex + Len(m.entries) <= Len(g)
    /\ m.prevLogTerm = TermAt(g, m.prevLogIndex)
    /\ \A k \in 1..Len(m.entries) : m.entries[k] = g[m.prevLogIndex + k]

(* A log that passes the check at prev_log agrees with g up to there, and  *)
(* up to any position that does not diverge.                               *)
LEMMA HeldAgrees ==
    ASSUME NEW b, NEW G, History(b, G), NEW log \in Seq(Entry), NEW g \in Seq(Entry),
           NEW x, NEW y, Rooted(b, G, log, x), Rooted(b, G, g, y),
           NEW j \in Nat, j <= Len(g), TermAt(log, j) = TermAt(g, j)
    PROVE  Agree(log, g, j)
<1>1. Len(log) \in Nat /\ Len(g) \in Nat
  BY LenProperties
<1>2. CASE j = 0
  BY <1>1, <1>2 DEF Agree
<1>3. CASE j # 0
  <2>1. j \in 1..Len(g)
    BY <1>1, <1>3
  <2>2. TermAt(g, j) = g[j].term /\ g[j].term \in Nat
    BY <1>3, <2>1, EntryTerm DEF TermAt
  <2>3. j \in 1..Len(log) /\ log[j].term = g[j].term
    BY <1>3, <2>2 DEF TermAt, NoTerm
  <2> QED
    BY <2>1, <2>3, RootedMeet DEF Has
<1> QED
  BY <1>2, <1>3

(* The log is cut before position i, the first that differs from g, and    *)
(* continued with a run of g.                                              *)
CutsIn(log, g, i, es) ==
    /\ i \in 1..Len(log) + 1
    /\ Agree(log, g, i - 1)
    /\ TermAt(log, i) # TermAt(g, i)
    /\ es \in Seq(Entry)
    /\ i - 1 + Len(es) <= Len(g)
    /\ \A k \in 1..Len(es) : es[k] = g[i + k - 1]

LEMMA SplicedMerged ==
    ASSUME NEW log \in Seq(Entry), NEW g \in Seq(Entry), NEW i, NEW es,
           CutsIn(log, g, i, es), NEW k \in 0..Len(es)
    PROVE  /\ Spliced(log, i, es, k) \in Seq(Entry)
           /\ Agree(Spliced(log, i, es, k), g, i - 1 + k)
           /\ Merged(log, g, Spliced(log, i, es, k))
<1>1. /\ i \in 1..Len(log) + 1 /\ es \in Seq(Entry) /\ Agree(log, g, i - 1)
      /\ i - 1 + Len(es) <= Len(g)
      /\ \A j \in 1..Len(es) : es[j] = g[i + j - 1]
  BY DEF CutsIn
<1>2. Len(log) \in Nat /\ Len(g) \in Nat /\ Len(es) \in Nat /\ i \in Nat \ {0} /\ k \in Nat
  BY <1>1, LenProperties
<1> DEFINE c == Spliced(log, i, es, k)
<1>3. c \in Seq(Entry) /\ Len(c) = i - 1 + k
  BY <1>1, SplicedFacts
<1>4. /\ Len(c) = i - 1 + k
      /\ \A j \in 1..i - 1 : c[j] = log[j]
      /\ \A j \in 1..k : c[i - 1 + j] = es[j]
  BY <1>1, SplicedFacts
<1> HIDE DEF c
<1>5. Agree(c, g, i - 1 + k)
  <2>1. ASSUME NEW j \in 1..i - 1 + k PROVE c[j] = g[j]
    <3>1. CASE j <= i - 1
      BY <1>1, <1>2, <1>4, <3>1 DEF Agree
    <3>2. CASE j > i - 1
      <4>1. PICK x \in 1..k : j = i - 1 + x
        <5>1. j - (i - 1) \in 1..k /\ j = i - 1 + (j - (i - 1))
          BY <1>2, <3>2
        <5> QED
          BY <5>1
      <4>2. es[x] = g[i + x - 1] /\ i + x - 1 = j
        BY <1>1, <1>2, <4>1
      <4> QED
        BY <1>4, <4>1, <4>2
    <3> QED
      BY <1>2, <3>1, <3>2
  <2>2. i - 1 + k <= Len(g)
    BY <1>1, <1>2
  <2> QED
    BY <1>2, <1>4, <2>1, <2>2 DEF Agree
<1>6. \A j \in 1..Len(c) : Agree(c, g, j)
  <2>1. i - 1 + k \in Nat /\ \A j \in 1..Len(c) : j \in 0..i - 1 + k
    BY <1>2, <1>4
  <2> QED
    BY <1>3, <1>5, <2>1, AgreeFacts
<1>7. ASSUME NEW j \in Nat, Agree(log, g, j) PROVE Agree(c, g, j)
  <2>1. j <= i - 1
    <3> SUFFICES ASSUME j >= i PROVE FALSE
      BY <1>2
    <3>1. i \in 1..j
      BY <1>2
    <3>2. i \in 1..Len(log) /\ i \in 1..Len(g) /\ log[i] = g[i]
      BY <1>7, <3>1, AgreeFacts
    <3> QED
      BY <1>2, <3>2 DEF CutsIn, TermAt
  <2>2. j \in 0..i - 1 + k /\ i - 1 + k \in Nat
    BY <1>2, <2>1
  <2> QED
    BY <1>3, <1>5, <2>2, AgreeFacts
<1> QED
  BY <1>3, <1>5, <1>6, <1>7 DEF Merged, c

LEMMA MergeEntriesLog ==
    ASSUME NEW f, ResultTypeOK(f), WritesNothing(f), NEW m \in AppendEntriesReq,
           NEW b, NEW G, History(b, G), NEW g \in Seq(Entry), NEW x, NEW y,
           Rooted(b, G, f.node.log, x), Rooted(b, G, g, y), Numbered(g),
           RunOf(m, g), HoldsPrev(f.node.log, m)
    PROVE  LET e == MergeEntries(f, m)
               len == m.prevLogIndex + Len(m.entries)
           IN  /\ Agree(e.node.log, g, len)
               /\ \/ e = f
                  \/ \E i : /\ CutsIn(f.node.log, g, i, e.entries)
                            /\ WritesAt(e, f.node.log, i)
                            /\ e.node.log = Spliced(f.node.log, i, e.entries, Len(e.entries))
<1> DEFINE log == f.node.log
           prev == m.prevLogIndex
           ms == m.entries
           V == Divergence(log, m)
           len == prev + Len(ms)
<1>1. /\ log \in Seq(Entry) /\ Len(log) \in Nat /\ Len(g) \in Nat
      /\ prev \in Nat /\ ms \in Seq(Entry) /\ Len(ms) \in Nat
  BY LenProperties DEF ResultTypeOK, Result, RaftNode, AppendEntriesReq
<1>2. /\ len <= Len(g)
      /\ \A k \in 1..Len(ms) : ms[k] = g[prev + k]
      /\ TermAt(log, prev) = TermAt(g, prev)
  BY DEF RunOf, HoldsPrev
<1>3. \A k \in 1..Len(ms) : prev + k \in 1..Len(g) /\ TermAt(g, prev + k) = ms[k].term
  BY <1>1, <1>2 DEF TermAt
<1>4. V = {k \in 1..Len(ms) : TermAt(log, prev + k) # TermAt(g, prev + k)}
  BY <1>3 DEF Divergence
<1>5. ASSUME NEW k \in 0..Len(ms), TermAt(log, prev + k) = TermAt(g, prev + k)
      PROVE  Agree(log, g, prev + k)
  <2>1. prev + k \in Nat /\ prev + k <= Len(g)
    BY <1>1, <1>2, <1>5
  <2> QED
    BY <1>1, <1>5, <2>1, HeldAgrees
<1>6. \A k \in 0..Len(ms) : k \notin V => Agree(log, g, prev + k)
  <2> SUFFICES ASSUME NEW k \in 0..Len(ms), k \notin V PROVE Agree(log, g, prev + k)
    OBVIOUS
  <2>1. CASE k = 0
    BY <1>1, <1>2, <1>5, <2>1
  <2>2. CASE k # 0
    <3>1. k \in 1..Len(ms)
      BY <1>1, <2>2
    <3> QED
      BY <1>4, <1>5, <3>1
  <2> QED
    BY <2>1, <2>2
<1> HIDE DEF V
<1>7. CASE V = {}
  <2>1. MergeEntries(f, m) = f
    BY <1>7 DEF MergeEntries, V
  <2>2. Agree(log, g, len)
    BY <1>1, <1>6, <1>7
  <2> QED
    BY <2>1, <2>2
<1>8. CASE V # {}
  <2> DEFINE k == MinOf(V)
             i == prev + k
             es == SubSeq(ms, k, Len(ms))
             new == TruncateFrom(log, i) \o es
             cut == IF i <= LastIndex(log) THEN i ELSE 0
             e == [f EXCEPT !.node.log = new, !.truncate = cut, !.entries = es]
  <2>1. V \in SUBSET Nat
    BY <1>1, <1>4
  <2>2. k \in V /\ \A z \in V : k <= z
    BY <1>8, <2>1, MinOfNat
  <2> HIDE DEF k
  <2>3. k \in 1..Len(ms) /\ TermAt(log, i) # TermAt(g, i)
    BY <1>4, <2>2
  <2>4. k \in Nat /\ i \in Nat \ {0} /\ i - 1 = prev + (k - 1) /\ k - 1 \in 0..Len(ms)
        /\ ~(k <= k - 1)
    BY <1>1, <2>3
  <2>5. Agree(log, g, i - 1)
    BY <1>6, <2>2, <2>4
  <2>6. i \in 1..Len(log) + 1
    <3>1. i - 1 <= Len(log) /\ Len(log) \in Nat /\ i \in Nat \ {0}
      BY <1>1, <2>4, <2>5 DEF Agree
    <3> HIDE DEF i
    <3> QED
      BY <3>1
  <2>7. es \in Seq(Entry) /\ Len(es) = Len(ms) - k + 1
        /\ \A z \in 1..Len(ms) - k + 1 : es[z] = ms[k + z - 1]
    <3>1. k \in Nat \ {0} /\ k <= Len(ms) + 1 /\ Len(ms) <= Len(ms)
      BY <1>1, <2>3
    <3> QED
      BY <1>1, <3>1, SubSeqFacts
  <2> HIDE DEF es
  <2>8. i - 1 + Len(es) = len /\ Len(es) \in Nat \ {0}
    <3>1. Len(es) = Len(ms) - k + 1
      BY <2>7
    <3>2. ASSUME NEW p \in Nat, NEW q \in Nat, NEW z \in 1..q, NEW w, w = q - z + 1
          PROVE  p + z - 1 + w = p + q /\ w \in Nat \ {0}
      BY <3>2
    <3> HIDE DEF prev, ms
    <3> QED
      BY <1>1, <2>3, <3>1, <3>2
  <2>9. \A z \in 1..Len(es) : es[z] = g[i + z - 1]
    <3> TAKE z \in 1..Len(es)
    <3>1. z \in 1..Len(ms) - k + 1 /\ k + z - 1 \in 1..Len(ms)
          /\ prev + (k + z - 1) = i + z - 1
      <4>1. ASSUME NEW p \in Nat, NEW q \in Nat, NEW v \in 1..q, NEW w \in 1..q - v + 1
            PROVE  v + w - 1 \in 1..q /\ p + (v + w - 1) = p + v + w - 1
        BY <4>1
      <4>2. z \in 1..Len(ms) - k + 1
        BY <2>7
      <4> HIDE DEF prev, ms
      <4> QED
        BY <1>1, <2>3, <4>1, <4>2
    <3> QED
      BY <1>2, <2>7, <3>1
  <2>10. CutsIn(log, g, i, es)
    BY <1>2, <2>3, <2>5, <2>6, <2>7, <2>8, <2>9 DEF CutsIn
  <2>11. new = Spliced(log, i, es, Len(es))
    <3>1. SubSeq(es, 1, Len(es)) = es
      BY <2>7, SubSeqFull
    <3>2. TruncateFrom(log, i) = SubSeq(log, 1, i - 1)
      <4>1. CASE i \in 1..Len(log)
        BY <4>1 DEF TruncateFrom
      <4>2. CASE i \notin 1..Len(log)
        <5>1. i - 1 = Len(log)
          BY <1>1, <2>6, <4>2
        <5>2. SubSeq(log, 1, Len(log)) = log
          BY <1>1, SubSeqFull
        <5> QED
          BY <4>2, <5>1, <5>2 DEF TruncateFrom
      <4> QED
        BY <4>1, <4>2
    <3> QED
      BY <3>1, <3>2 DEF Spliced
  <2>12. new \in Seq(Entry) /\ Agree(new, g, len)
    <3>1. Len(es) \in 0..Len(es)
      BY <2>8
    <3> QED
      BY <1>1, <2>8, <2>10, <2>11, <3>1, SplicedMerged
  <2> HIDE DEF new
  <2>13. e.node.log = new /\ e.entries = es /\ e.truncate = cut
    BY DEF ResultTypeOK, Result, RaftNode
  <2>14. MergeEntries(f, m) = e
    BY <1>8 DEF MergeEntries, V, k, es, new
  <2>15. ASSUME NEW z \in 1..Len(es) PROVE es[z].index = i + z - 1
    <3>1. i + z - 1 \in 1..Len(g)
      <4>1. ASSUME NEW p \in Nat \ {0}, NEW q \in Nat, NEW w \in Nat, p - 1 + q <= w, z \in 1..q
            PROVE  p + z - 1 \in 1..w
        BY <4>1
      <4>2. i - 1 + Len(es) <= Len(g)
        BY <1>2, <2>8
      <4> HIDE DEF i
      <4> QED
        BY <1>1, <2>4, <2>8, <2>15, <4>1, <4>2
    <3> QED
      BY <2>9, <2>15, <3>1 DEF Numbered
  <2> HIDE DEF e
  <2>16. WritesAt(e, log, i)
    <3>1. es # << >>
      BY <2>8, EmptySeq
    <3> QED
      BY <2>6, <2>13, <2>15, <3>1 DEF WritesAt, LastIndex
  <2> QED
    BY <2>10, <2>11, <2>12, <2>13, <2>14, <2>16
<1> QED
  BY <1>7, <1>8

-----------------------------------------------------------------------------
(* The up-to-date check of on_request_vote: whoever gets the vote of a     *)
(* holder has the entry too, unless it is dead.                            *)

LastAtLeast(index, term, log) ==
    term > LastTerm(log) \/ (term = LastTerm(log) /\ index >= LastIndex(log))

LEMMA LastTermAt ==
    ASSUME NEW log \in Seq(Entry), NEW j \in 1..Len(log)
    PROVE  /\ Len(log) \in 1..Len(log)
           /\ LastTerm(log) = log[Len(log)].term
           /\ LastTerm(log) \in Nat
<1>1. Len(log) \in Nat
  BY LenProperties
<1>2. Len(log) \in 1..Len(log) /\ log # << >>
  BY <1>1, EmptySeq
<1> QED
  BY <1>2, LastTermType DEF LastTerm

LEMMA UpToDateHas ==
    ASSUME NEW b, NEW G, NEW D \in [Server -> HardState], NEW M, Core(b, G, D, M),
           NEW v \in Server, NEW t \in Nat, NEW i \in Nat \ {0},
           Stamped(b, G, i, t), Holds(b, M, v, i, t), ~Dead(b, D, M, i, t),
           NEW log \in Seq(Entry), NEW x, Rooted(b, G, log, x),
           LastAtLeast(LastIndex(log), LastTerm(log), D[v].log)
    PROVE  Has(log, i, t)
<1>1. PICK old \in Seq(Entry) : old = D[v].log
  BY DEF HardState
<1>2. History(b, G) /\ LeaderLogs(b, G) /\ \A u \in Nat : G[u] \in Seq(Entry)
  BY DEF Core, History
<1>3. Has(old, i, t) /\ \E y : Rooted(b, G, old, y)
  BY <1>1 DEF Core, HoldersHold, DiskLogs
<1>4. PICK l \in Nat : l = Len(old)
  BY LenProperties
<1>5. i \in 1..l /\ l \in 1..Len(old) /\ LastTerm(old) = old[l].term /\ LastTerm(old) \in Nat
  BY <1>3, <1>4, LastTermAt DEF Has
<1>6. t <= LastTerm(old)
  BY <1>2, <1>3, <1>5, RootedOrdered DEF Has
<1>7. LastTerm(log) >= LastTerm(old) /\ LastTerm(log) \in Nat
  BY <1>1, <1>5, LastTermType DEF LastAtLeast
<1>8. CASE log = << >>
  <2>1. LastTerm(log) = 0 /\ Len(log) = 0
    BY <1>8, EmptySeq DEF LastTerm
  <2>2. t = 0 /\ LastTerm(old) = 0
    BY <1>5, <1>6, <1>7, <2>1
  <2>3. 0 >= l
    BY <1>1, <1>4, <2>1, <2>2 DEF LastAtLeast, LastIndex
  <2> QED
    BY <1>5, <2>3
<1>9. CASE log # << >>
  <2>1. PICK k \in Nat : k = Len(log)
    BY LenProperties
  <2>2. PICK u \in Nat : u = LastTerm(log)
    BY <1>7
  <2>3. k \in 1..Len(log) /\ log[k].term = u
    <3>1. Len(log) \in Nat \ {0}
      BY <1>9, EmptySeq
    <3> QED
      BY <1>9, <2>1, <2>2, <3>1 DEF LastTerm
  <2>4. Agree(log, G[u], k) /\ b[u] # Nil
    BY <2>3 DEF Rooted
  <2>5. Has(G[u], k, u)
    BY <1>2, <2>3, <2>4, AgreeFacts DEF Has
  <2>6. CASE u = LastTerm(old)
    <3>1. k >= l
      BY <1>1, <1>4, <1>5, <2>1, <2>2, <2>6 DEF LastAtLeast, LastIndex
    <3>2. Agree(old, G[u], l)
      BY <1>3, <1>5, <2>6 DEF Rooted
    <3>3. Has(G[u], i, t)
      BY <1>2, <1>3, <1>5, <3>2, AgreeHas
    <3>4. Agree(G[u], log, k) /\ i \in 1..k
      <4>1. Agree(G[u], log, k)
        BY <1>2, <2>4, AgreeFacts
      <4> QED
        BY <1>5, <3>1, <4>1
    <3> QED
      BY <1>2, <3>3, <3>4, AgreeHas
  <2>7. CASE u # LastTerm(old)
    <3>1. u > LastTerm(old) /\ t < u
      BY <1>5, <1>6, <1>7, <2>2, <2>7
    <3>2. Has(G[u], i, t)
      BY <2>4, <3>1 DEF Core, Succession
    <3>3. i <= k
      <4> SUFFICES ASSUME k < i PROVE FALSE
        OBVIOUS
      <4>1. k \in 1..i /\ i \in 1..Len(G[u])
        BY <2>3, <3>2 DEF Has
      <4>2. G[u][k].term <= G[u][i].term
        BY <1>2, <4>1 DEF LeaderLogs
      <4> QED
        BY <2>5, <3>1, <3>2, <4>2 DEF Has
    <3>4. Agree(G[u], log, k) /\ i \in 1..k
      BY <1>2, <2>4, <3>3, AgreeFacts
    <3> QED
      BY <1>2, <3>2, <3>4, AgreeHas
  <2> QED
    BY <2>6, <2>7
<1> QED
  BY <1>8, <1>9

-----------------------------------------------------------------------------
(* What the running servers and the messages say about the histories.      *)

(* Entry i of term t is held by a majority: it is committed.               *)
ChosenAt(b, G, M, i, t) ==
    /\ Stamped(b, G, i, t)
    /\ \E Q \in SUBSET Server :
          Cardinality(Q) >= Majority /\ \A v \in Q : Holds(b, M, v, i, t)

LeaderOK(b, G, M, n, s) ==
    s.role = Leader =>
        /\ b[s.currentTerm] = n
        /\ G[s.currentTerm] = s.log
        /\ \A p \in Server :
              /\ s.nextIndex[p] <= Len(s.log) + 1
              /\ s.matchIndex[p] <= Len(s.log)
              /\ s.matchIndex[p] > 0 => AckedIn(M, p, s.matchIndex[p], s.currentTerm)

(* A candidate has not led its term, its requests describe its log, and it *)
(* has what the holders among its voters have.                             *)
CandidateOK(b, G, D, M, c, s) ==
    s.role = Candidate =>
        /\ b[s.currentTerm] # c
        /\ \A m \in M :
              m.type = "RequestVote" /\ m.from = c /\ m.term = s.currentTerm =>
                 m.lastLogIndex = LastIndex(s.log) /\ m.lastLogTerm = LastTerm(s.log)
        /\ \A m \in M, t \in Nat, i \in Nat \ {0} :
              /\ m.type = "RequestVoteResp" /\ m.voteGranted
              /\ m.to = c /\ m.term = s.currentTerm
              /\ Stamped(b, G, i, t) /\ t < s.currentTerm /\ Holds(b, M, m.from, i, t)
              => Dead(b, D, M, i, t) \/ Has(s.log, i, t)

CommitOK(b, G, M, s, a) ==
    /\ s.lastApplied = s.commitIndex
    /\ s.commitIndex <= Len(s.log)
    /\ s.commitIndex > 0 => ChosenAt(b, G, M, s.commitIndex, s.log[s.commitIndex].term)
    /\ a = SubSeq(s.log, 1, s.commitIndex)

MessageOK(b, G, D, M, m) ==
    /\ m.to # m.from
    /\ m.term <= D[m.from].currentTerm
    /\ m.type = "RequestVoteResp" /\ m.voteGranted => m.term <= D[m.to].currentTerm
    /\ m.type = "AppendEntries" =>
          /\ b[m.term] = m.from
          /\ RunOf(m, G[m.term])
          /\ m.leaderCommit <= m.prevLogIndex + Len(m.entries)
          /\ m.leaderCommit > 0 =>
                ChosenAt(b, G, M, m.leaderCommit, G[m.term][m.leaderCommit].term)

(* What every step does to the histories, the disks and the messages.      *)
Steady(n, b, G, D, M, b2, G2, D2, M2) ==
    /\ Core(b, G, D, M) /\ Core(b2, G2, D2, M2)
    /\ DiskStep(n, D, D2)
    /\ M \subseteq M2
    /\ \A m \in M2 : m \in M \/ (m.from = n /\ m.term = D2[n].currentTerm)
    /\ \A t \in Nat : b[t] # Nil => b2[t] = b[t]
    /\ \A t \in Nat : b2[t] # b[t] \/ G2[t] # G[t] => b2[t] = n /\ t = D2[n].currentTerm
    /\ \A t \in Nat : Agree(G[t], G2[t], Len(G[t]))
    /\ \A i \in Nat \ {0}, t \in Nat : Dead(b, D, M, i, t) => Dead(b2, D2, M2, i, t)
    /\ \A i \in Nat \ {0}, t \in Nat, v \in Server :
          Stamped(b2, G2, i, t) /\ Holds(b2, M2, v, i, t) /\ D2[v].currentTerm > t =>
             Stamped(b, G, i, t) /\ Holds(b, M, v, i, t)

LEMMA ExtendsAgree ==
    ASSUME NEW p \in Seq(Entry), NEW q \in Seq(Entry), Agree(p, q, Len(p))
    PROVE  \A i \in 1..Len(p) : i \in 1..Len(q) /\ q[i] = p[i]
  BY LenProperties DEF Agree

LEMMA ChosenStable ==
    ASSUME NEW n \in Server, NEW b, NEW G, NEW D, NEW M, NEW b2, NEW G2, NEW D2, NEW M2,
           Steady(n, b, G, D, M, b2, G2, D2, M2),
           NEW i \in Nat \ {0}, NEW t \in Nat, ChosenAt(b, G, M, i, t)
    PROVE  ChosenAt(b2, G2, M2, i, t)
<1>1. Has(G[t], i, t) /\ b[t] # Nil
  BY DEF ChosenAt, Stamped
<1>2. /\ G[t] \in Seq(Entry) /\ G2[t] \in Seq(Entry)
      /\ Agree(G[t], G2[t], Len(G[t]))
      /\ b2[t] = b[t] /\ M \subseteq M2
  BY <1>1 DEF Steady, Core, History
<1>3. Stamped(b2, G2, i, t)
  BY <1>1, <1>2, ExtendsAgree DEF Stamped, Has
<1>4. \A v : Holds(b, M, v, i, t) => Holds(b2, M2, v, i, t)
  BY <1>2 DEF Holds, AckedIn
<1> QED
  BY <1>3, <1>4 DEF ChosenAt

LEMMA CommitStable ==
    ASSUME NEW n \in Server, NEW b, NEW G, NEW D, NEW M, NEW b2, NEW G2, NEW D2, NEW M2,
           Steady(n, b, G, D, M, b2, G2, D2, M2),
           NEW s \in RaftNode, NEW a, CommitOK(b, G, M, s, a)
    PROVE  CommitOK(b2, G2, M2, s, a)
<1>1. s.log \in Seq(Entry) /\ Len(s.log) \in Nat /\ s.commitIndex \in Nat
  BY LenProperties DEF RaftNode
<1>2. ASSUME s.commitIndex > 0
      PROVE  ChosenAt(b2, G2, M2, s.commitIndex, s.log[s.commitIndex].term)
  <2>1. s.commitIndex \in 1..Len(s.log) /\ s.commitIndex \in Nat \ {0}
    BY <1>1, <1>2 DEF CommitOK
  <2>2. s.log[s.commitIndex].term \in Nat
    BY <1>1, <2>1, EntryTerm
  <2> QED
    BY <1>2, <2>1, <2>2, ChosenStable DEF CommitOK
<1> QED
  BY <1>2 DEF CommitOK

LEMMA LeaderStable ==
    ASSUME NEW n \in Server, NEW b, NEW G, NEW D, NEW M, NEW b2, NEW G2, NEW D2, NEW M2,
           Steady(n, b, G, D, M, b2, G2, D2, M2),
           NEW p \in Server, p # n, NEW s \in RaftNode, LeaderOK(b, G, M, p, s)
    PROVE  LeaderOK(b2, G2, M2, p, s)
<1> SUFFICES ASSUME s.role = Leader
             PROVE  /\ b2[s.currentTerm] = p
                    /\ G2[s.currentTerm] = s.log
                    /\ \A q \in Server :
                          /\ s.nextIndex[q] <= Len(s.log) + 1
                          /\ s.matchIndex[q] <= Len(s.log)
                          /\ s.matchIndex[q] > 0 => AckedIn(M2, q, s.matchIndex[q], s.currentTerm)
  BY DEF LeaderOK
<1>1. s.currentTerm \in Nat
  BY DEF RaftNode
<1>2. /\ b[s.currentTerm] = p
      /\ G[s.currentTerm] = s.log
      /\ \A q \in Server :
            /\ s.nextIndex[q] <= Len(s.log) + 1
            /\ s.matchIndex[q] <= Len(s.log)
            /\ s.matchIndex[q] > 0 => AckedIn(M, q, s.matchIndex[q], s.currentTerm)
  BY DEF LeaderOK
<1>3. b2[s.currentTerm] = p
  BY <1>1, <1>2, ServerAssumption DEF Steady
<1>4. G2[s.currentTerm] = s.log
  BY <1>1, <1>2, <1>3 DEF Steady
<1>5. M \subseteq M2
  BY DEF Steady
<1> QED
  BY <1>2, <1>3, <1>4, <1>5 DEF AckedIn

LEMMA RunExtends ==
    ASSUME NEW g \in Seq(Entry), NEW h \in Seq(Entry), Agree(g, h, Len(g)),
           NEW m \in AppendEntriesReq, RunOf(m, g)
    PROVE  RunOf(m, h)
<1>1. /\ m.prevLogIndex \in Nat /\ Len(m.entries) \in Nat
      /\ Len(g) \in Nat /\ Len(h) \in Nat /\ Len(g) <= Len(h)
  BY LenProperties DEF AppendEntriesReq, Agree
<1>2. \A i \in 1..Len(g) : i \in 1..Len(h) /\ h[i] = g[i]
  BY ExtendsAgree
<1>3. m.prevLogIndex + Len(m.entries) <= Len(h)
  BY <1>1 DEF RunOf
<1>4. TermAt(h, m.prevLogIndex) = TermAt(g, m.prevLogIndex)
  <2>1. m.prevLogIndex = 0 \/ m.prevLogIndex \in 1..Len(g)
    BY <1>1 DEF RunOf
  <2> QED
    BY <1>2, <2>1 DEF TermAt
<1>5. \A k \in 1..Len(m.entries) : m.entries[k] = h[m.prevLogIndex + k]
  <2> TAKE k \in 1..Len(m.entries)
  <2>1. m.prevLogIndex + k \in 1..Len(g)
    BY <1>1 DEF RunOf
  <2> QED
    BY <1>2, <2>1 DEF RunOf
<1> QED
  BY <1>3, <1>4, <1>5 DEF RunOf

LEMMA MessageStable ==
    ASSUME NEW n \in Server, NEW b, NEW G, NEW D, NEW M, NEW b2, NEW G2, NEW D2, NEW M2,
           Steady(n, b, G, D, M, b2, G2, D2, M2),
           NEW m \in Message, MessageOK(b, G, D, M, m)
    PROVE  MessageOK(b2, G2, D2, M2, m)
<1>1. m.from \in Server /\ m.to \in Server /\ m.term \in Nat
  BY DEF Message, RequestVoteReq, RequestVoteResp, AppendEntriesReq, AppendEntriesResp
<1>2. \A v \in Server : /\ D[v].currentTerm \in Nat /\ D2[v].currentTerm \in Nat
                         /\ D2[v].currentTerm >= D[v].currentTerm
  BY TermsOnDisk DEF Steady
<1>3. /\ m.term <= D2[m.from].currentTerm
      /\ m.type = "RequestVoteResp" /\ m.voteGranted => m.term <= D2[m.to].currentTerm
  BY <1>1, <1>2 DEF MessageOK
<1>4. ASSUME m.type = "AppendEntries"
      PROVE  /\ b2[m.term] = m.from /\ m.to # m.from
             /\ RunOf(m, G2[m.term])
             /\ m.leaderCommit <= m.prevLogIndex + Len(m.entries)
             /\ m.leaderCommit > 0 =>
                   ChosenAt(b2, G2, M2, m.leaderCommit, G2[m.term][m.leaderCommit].term)
  <2>1. m \in AppendEntriesReq
    BY <1>4, MessageKinds
  <2>2. /\ b[m.term] = m.from /\ m.to # m.from
        /\ RunOf(m, G[m.term])
        /\ m.leaderCommit <= m.prevLogIndex + Len(m.entries)
        /\ m.leaderCommit > 0 =>
              ChosenAt(b, G, M, m.leaderCommit, G[m.term][m.leaderCommit].term)
    BY <1>4 DEF MessageOK
  <2>3. /\ G[m.term] \in Seq(Entry) /\ G2[m.term] \in Seq(Entry)
        /\ Agree(G[m.term], G2[m.term], Len(G[m.term]))
        /\ b2[m.term] = b[m.term]
    BY <1>1, <2>2, ServerAssumption DEF Steady, Core, History
  <2>4. RunOf(m, G2[m.term])
    BY <2>1, <2>2, <2>3, RunExtends
  <2>5. ASSUME m.leaderCommit > 0
        PROVE  ChosenAt(b2, G2, M2, m.leaderCommit, G2[m.term][m.leaderCommit].term)
    <3>1. /\ m.leaderCommit \in Nat /\ m.prevLogIndex \in Nat /\ Len(m.entries) \in Nat
          /\ Len(G[m.term]) \in Nat
      BY <2>1, <2>3, LenProperties DEF AppendEntriesReq
    <3>2. m.leaderCommit \in 1..Len(G[m.term]) /\ m.leaderCommit \in Nat \ {0}
      BY <2>2, <2>5, <3>1 DEF RunOf
    <3>3. G2[m.term][m.leaderCommit] = G[m.term][m.leaderCommit]
          /\ G[m.term][m.leaderCommit].term \in Nat
      BY <2>3, <3>2, ExtendsAgree, EntryTerm
    <3> QED
      BY <2>2, <2>5, <3>2, <3>3, ChosenStable
  <2> QED
    BY <2>2, <2>3, <2>4, <2>5
<1> QED
  BY <1>3, <1>4 DEF MessageOK

-----------------------------------------------------------------------------
(* Candidates and elections *)

(* A vote leaves n only in answer to a request that passed the up-to-date  *)
(* check against the log on its disk.                                      *)
NewVotes(n, D, D2, M, M2) ==
    \A m \in M2 : m \notin M /\ m.type = "RequestVoteResp" /\ m.voteGranted =>
        /\ D2[n].log = D[n].log
        /\ \E q \in M : /\ q.type = "RequestVote" /\ q.from = m.to /\ q.term = m.term
                        /\ LastAtLeast(q.lastLogIndex, q.lastLogTerm, D[n].log)

(* The requests of n describe the log it has.                              *)
NewRequests(n, t, log, M, M2) ==
    \A m \in M2 : m \notin M /\ m.type = "RequestVote" /\ m.term = t =>
        m.lastLogIndex = LastIndex(log) /\ m.lastLogTerm = LastTerm(log)

LEMMA CandidateStable ==
    ASSUME NEW n \in Server, NEW b, NEW G, NEW D, NEW M, NEW b2, NEW G2, NEW D2, NEW M2,
           Steady(n, b, G, D, M, b2, G2, D2, M2), M2 \subseteq Message,
           \A m \in M2 : MessageOK(b2, G2, D2, M2, m), NewVotes(n, D, D2, M, M2),
           NEW p \in Server, NEW s \in RaftNode, s.role = Candidate,
           NEW x, Rooted(b, G, s.log, x), CandidateOK(b, G, D, M, p, s),
           b2[s.currentTerm] # p,
           p = n => NewRequests(n, s.currentTerm, s.log, M, M2)
    PROVE  CandidateOK(b2, G2, D2, M2, p, s)
<1>1. s.currentTerm \in Nat /\ s.log \in Seq(Entry)
  BY DEF RaftNode
<1>2. \A m \in M2 : m.from \in Server /\ m.term \in Nat
  BY DEF Message, RequestVoteReq, RequestVoteResp, AppendEntriesReq, AppendEntriesResp
<1>3. ASSUME NEW m \in M2, m.type = "RequestVote", m.from = p, m.term = s.currentTerm
      PROVE  m.lastLogIndex = LastIndex(s.log) /\ m.lastLogTerm = LastTerm(s.log)
  <2>1. CASE m \in M
    BY <1>3, <2>1 DEF CandidateOK
  <2>2. CASE m \notin M
    <3>1. p = n
      BY <1>3, <2>2 DEF Steady
    <3> QED
      BY <1>3, <2>2, <3>1 DEF NewRequests
  <2> QED
    BY <2>1, <2>2
<1>4. ASSUME NEW m \in M2, NEW t \in Nat, NEW i \in Nat \ {0},
             m.type = "RequestVoteResp", m.voteGranted, m.to = p, m.term = s.currentTerm,
             Stamped(b2, G2, i, t), t < s.currentTerm, Holds(b2, M2, m.from, i, t),
             ~Dead(b2, D2, M2, i, t)
      PROVE  Has(s.log, i, t)
  <2>1. m.from \in Server /\ m.term <= D2[m.from].currentTerm
    BY <1>2, <1>4 DEF MessageOK
  <2>2. D2[m.from].currentTerm \in Nat
    BY <2>1, TermsOnDisk DEF Steady
  <2>3. D2[m.from].currentTerm > t
    BY <1>1, <1>4, <2>1, <2>2
  <2>4. Stamped(b, G, i, t) /\ Holds(b, M, m.from, i, t)
    BY <1>4, <2>1, <2>3 DEF Steady
  <2>5. ~Dead(b, D, M, i, t)
    BY <1>4 DEF Steady
  <2>6. CASE m \in M
    BY <1>4, <2>4, <2>5, <2>6 DEF CandidateOK
  <2>7. CASE m \notin M
    <3>1. m.from = n
      BY <1>4, <2>7 DEF Steady
    <3>2. PICK q \in M : /\ q.type = "RequestVote" /\ q.from = p /\ q.term = s.currentTerm
                         /\ LastAtLeast(q.lastLogIndex, q.lastLogTerm, D[n].log)
      BY <1>4, <2>7 DEF NewVotes
    <3>3. q.lastLogIndex = LastIndex(s.log) /\ q.lastLogTerm = LastTerm(s.log)
      BY <3>2 DEF CandidateOK
    <3>4. LastAtLeast(LastIndex(s.log), LastTerm(s.log), D[n].log)
      BY <3>2, <3>3
    <3>5. Core(b, G, D, M) /\ D \in [Server -> HardState]
      BY DEF Steady, DiskStep
    <3> QED
      BY <1>1, <1>4, <2>4, <2>5, <3>1, <3>4, <3>5, UpToDateHas
  <2> QED
    BY <2>6, <2>7
<1> QED
  BY <1>3, <1>4 DEF CandidateOK

(* A server that starts an election meets no trace of itself in the term.  *)
LEMMA CandidateNew ==
    ASSUME NEW n \in Server, NEW b, NEW G, NEW D, NEW M, NEW b2, NEW G2, NEW D2, NEW M2,
           Steady(n, b, G, D, M, b2, G2, D2, M2), M2 \subseteq Message,
           \A m \in M : MessageOK(b, G, D, M, m), NewVotes(n, D, D2, M, M2),
           NEW s \in RaftNode, s.currentTerm > D[n].currentTerm,
           b2[s.currentTerm] = b[s.currentTerm],
           NewRequests(n, s.currentTerm, s.log, M, M2)
    PROVE  CandidateOK(b2, G2, D2, M2, n, s)
<1>1. s.currentTerm \in Nat /\ D[n].currentTerm \in Nat
  BY TermsOnDisk DEF RaftNode, Steady
<1>2. \A m \in M2 : m.term \in Nat
  BY DEF Message, RequestVoteReq, RequestVoteResp, AppendEntriesReq, AppendEntriesResp
<1>3. b2[s.currentTerm] # n
  BY <1>1, ServerAssumption DEF Steady, Core, Elected
<1>4. ASSUME NEW m \in M2, m.type = "RequestVote", m.from = n, m.term = s.currentTerm
      PROVE  m.lastLogIndex = LastIndex(s.log) /\ m.lastLogTerm = LastTerm(s.log)
  <2>1. m \notin M
    BY <1>1, <1>4 DEF MessageOK
  <2> QED
    BY <1>4, <2>1 DEF NewRequests
<1>5. ASSUME NEW m \in M2, m.type = "RequestVoteResp", m.voteGranted, m.to = n,
             m.term = s.currentTerm
      PROVE  FALSE
  <2>1. m \notin M
    BY <1>1, <1>5 DEF MessageOK
  <2>2. PICK q \in M : q.from = n /\ q.term = s.currentTerm
    BY <1>5, <2>1 DEF NewVotes
  <2> QED
    BY <1>1, <2>2 DEF MessageOK
<1> QED
  BY <1>3, <1>4, <1>5 DEF CandidateOK

(* The votes that make n the leader of u.                                  *)
VotedFor(n, u, s, M) ==
    \E Q \in SUBSET Server :
        /\ Cardinality(Q) >= Majority
        /\ \A v \in Q :
              \/ v = n
              \/ /\ s.role = Candidate /\ s.currentTerm = u
                 /\ \E m \in M : /\ m.type = "RequestVoteResp" /\ m.voteGranted
                                 /\ m.from = v /\ m.to = n /\ m.term = u

LEMMA VotesWin ==
    ASSUME NEW n \in Server, NEW u \in Nat, NEW b, NEW G, NEW D, NEW D2, NEW M, NEW M2,
           NEW b2, NEW G2,
           Core(b, G, D, M), DiskStep(n, D, D2), SameAcks(M, M2), M \subseteq Message,
           \A m \in M : MessageOK(b, G, D, M, m),
           NEW s \in RaftNode, CandidateOK(b, G, D, M, n, s), s.log = D[n].log,
           VotedFor(n, u, s, M), u = D2[n].currentTerm, b[u] = Nil,
           D2[n].log = D[n].log,
           b2 = [b EXCEPT ![u] = n], G2 = [G EXCEPT ![u] = D[n].log]
    PROVE  WinStep(n, u, b, G, D, b2, G2, D2, M2)
<1> DEFINE Vote(m, v) == /\ m.type = "RequestVoteResp" /\ m.voteGranted
                         /\ m.from = v /\ m.to = n /\ m.term = u
<1>1. PICK Q \in SUBSET Server :
        /\ Cardinality(Q) >= Majority
        /\ \A v \in Q : \/ v = n
                        \/ /\ s.role = Candidate /\ s.currentTerm = u
                           /\ \E m \in M : Vote(m, v)
  BY DEF VotedFor
<1>2. \A v \in Server : /\ D[v].currentTerm \in Nat /\ D2[v].currentTerm \in Nat
                         /\ D2[v].currentTerm >= D[v].currentTerm
  BY TermsOnDisk
<1>3. ASSUME NEW v \in Q PROVE D2[v].currentTerm >= u
  <2>1. CASE v = n
    BY <1>2, <2>1
  <2>2. ASSUME NEW m \in M, Vote(m, v) PROVE D2[v].currentTerm >= u
    <3>1. m.term <= D[m.from].currentTerm
      BY DEF MessageOK
    <3> QED
      BY <1>2, <1>3, <2>2, <3>1
  <2> QED
    BY <1>1, <1>3, <2>1, <2>2
<1>4. \A t \in Nat : t # u => b2[t] = b[t]
  BY DEF Core, History
<1>5. ASSUME NEW t \in Nat, NEW i \in Nat \ {0}, Stamped(b, G, i, t), t < u,
             ~Dead(b2, D2, M2, i, t)
      PROVE  Has(D[n].log, i, t)
  <2>1. PICK P \in SUBSET Server :
          /\ Cardinality(P) >= Majority
          /\ \A v \in P : ~(D2[v].currentTerm > t /\ ~Holds(b2, M2, v, i, t))
    BY <1>5 DEF Dead
  <2>2. PICK v \in P \cap Q : TRUE
    BY <1>1, <2>1, MajoritiesMeet
  <2>3. D2[v].currentTerm > t
    BY <1>2, <1>3, <1>5, <2>2
  <2>4. Holds(b2, M2, v, i, t)
    BY <2>1, <2>2, <2>3
  <2>5. Holds(b, M, v, i, t)
    BY <1>4, <1>5, <2>2, <2>4 DEF Holds, SameAcks
  <2>6. ~Dead(b, D, M, i, t)
    <3>1. \A w \in Server : Holds(b2, M2, w, i, t) => Holds(b, M, w, i, t)
      BY <1>4, <1>5 DEF Holds, SameAcks
    <3> QED
      BY <1>5, <3>1, DeadStable
  <2>7. CASE v = n
    BY <1>5, <2>5, <2>6, <2>7 DEF Core, HoldersHold
  <2>8. CASE v # n
    <3>1. PICK m \in M : Vote(m, v)
      BY <1>1, <2>2, <2>8
    <3>2. s.role = Candidate /\ s.currentTerm = u
      BY <1>1, <2>2, <2>8
    <3> QED
      BY <1>5, <2>5, <2>6, <3>1, <3>2 DEF CandidateOK
  <2> QED
    BY <2>7, <2>8
<1> QED
  BY <1>1, <1>3, <1>5 DEF WinStep

-----------------------------------------------------------------------------
(* The three kinds of step, seen from the histories.                       *)

LEMMA SteadyMerge ==
    ASSUME NEW n \in Server, NEW b, NEW G, NEW D, NEW D2, NEW M, NEW M2,
           Core(b, G, D, M), DiskStep(n, D, D2), AckStep(n, b, G, D2, M, M2),
           LogStep(n, b, G, D, D2), M \subseteq M2,
           \A m \in M2 : m \in M \/ (m.from = n /\ m.term = D2[n].currentTerm)
    PROVE  Steady(n, b, G, D, M, b, G, D2, M2)
<1>1. /\ Core(b, G, D2, M2)
      /\ \A i \in Nat \ {0}, t \in Nat : Dead(b, D, M, i, t) => Dead(b, D2, M2, i, t)
  BY CoreMerge
<1>2. \A t \in Nat : Agree(G[t], G[t], Len(G[t]))
  <2>1. \A t \in Nat : G[t] \in Seq(Entry)
    BY DEF Core, History
  <2> QED
    BY <2>1, LenProperties DEF Agree
<1>3. ASSUME NEW i \in Nat \ {0}, NEW t \in Nat, NEW v \in Server,
             Holds(b, M2, v, i, t), D2[v].currentTerm > t
      PROVE  Holds(b, M, v, i, t)
  <2>1. D2[v].currentTerm \in Nat
    BY TermsOnDisk
  <2> QED
    BY <1>3, <2>1 DEF Holds, AckStep
<1> QED
  BY <1>1, <1>2, <1>3 DEF Steady

LEMMA SteadyWin ==
    ASSUME NEW n \in Server, NEW u \in Nat, NEW b, NEW G, NEW D, NEW D2, NEW M, NEW M2,
           NEW b2, NEW G2,
           Core(b, G, D, M), DiskStep(n, D, D2), SameAcks(M, M2),
           WinStep(n, u, b, G, D, b2, G2, D2, M2), M \subseteq M2,
           \A m \in M2 : m \in M \/ (m.from = n /\ m.term = D2[n].currentTerm)
    PROVE  /\ Steady(n, b, G, D, M, b2, G2, D2, M2)
           /\ b2[u] = n /\ G2[u] = D[n].log
<1>1. /\ Core(b2, G2, D2, M2)
      /\ \A i \in Nat \ {0}, t \in Nat : Dead(b, D, M, i, t) => Dead(b2, D2, M2, i, t)
      /\ \A i \in Nat \ {0}, t \in Nat : Stamped(b2, G2, i, t) <=> Stamped(b, G, i, t)
  BY CoreWin
<1>2. History(b, G) /\ u = D2[n].currentTerm /\ b[u] = Nil /\ G[u] = << >>
  BY DEF Core, WinStep, LeaderLogs
<1>3. /\ b2[u] = n /\ G2[u] = D[n].log
      /\ \A t \in Nat : t # u => b2[t] = b[t] /\ G2[t] = G[t]
  BY <1>2 DEF WinStep, History
<1>4. \A t \in Nat : Agree(G[t], G2[t], Len(G[t]))
  <2>1. \A t \in Nat : G[t] \in Seq(Entry) /\ G2[t] \in Seq(Entry)
    BY <1>1 DEF Core, History
  <2>2. \A t \in Nat : t # u => Agree(G[t], G2[t], Len(G[t]))
    BY <1>3, <2>1, LenProperties DEF Agree
  <2>3. Agree(G[u], G2[u], Len(G[u]))
    <3>1. Len(G[u]) = 0 /\ Len(G2[u]) \in Nat
      BY <1>2, <2>1, LenProperties, EmptySeq
    <3> QED
      BY <3>1 DEF Agree
  <2> QED
    BY <2>2, <2>3
<1>5. ASSUME NEW i \in Nat \ {0}, NEW t \in Nat, NEW v \in Server,
             Stamped(b2, G2, i, t), Holds(b2, M2, v, i, t)
      PROVE  Stamped(b, G, i, t) /\ Holds(b, M, v, i, t)
  <2>1. Stamped(b, G, i, t)
    BY <1>1, <1>5
  <2>2. t # u
    BY <1>2, <2>1 DEF Stamped
  <2> QED
    BY <1>3, <1>5, <2>1, <2>2 DEF Holds, SameAcks
<1>6. \A t \in Nat : b[t] # Nil => b2[t] = b[t]
  BY <1>2, <1>3
<1>7. \A t \in Nat : b2[t] # b[t] \/ G2[t] # G[t] => b2[t] = n /\ t = D2[n].currentTerm
  BY <1>2, <1>3
<1> QED
  BY <1>1, <1>3, <1>4, <1>5, <1>6, <1>7 DEF Steady

LEMMA SteadyGrow ==
    ASSUME NEW n \in Server, NEW t0 \in Nat, NEW e, NEW b, NEW G, NEW D, NEW D2, NEW M, NEW M2,
           NEW G2,
           Core(b, G, D, M), DiskStep(n, D, D2), SameAcks(M, M2),
           GrowStep(n, t0, e, b, G, D, G2, D2), M \subseteq M2,
           \A m \in M2 : m \in M \/ (m.from = n /\ m.term = D2[n].currentTerm)
    PROVE  /\ Steady(n, b, G, D, M, b, G2, D2, M2)
           /\ G2[t0] = D2[n].log
<1>1. /\ Core(b, G2, D2, M2)
      /\ \A i \in Nat \ {0}, t \in Nat : Dead(b, D, M, i, t) => Dead(b, D2, M2, i, t)
      /\ \A i \in Nat \ {0}, t \in Nat :
            Stamped(b, G2, i, t) => \/ Stamped(b, G, i, t)
                                    \/ t = t0 /\ i = Len(G[t0]) + 1
      /\ \A i \in Nat \ {0}, t \in Nat, v \in Server :
            t = t0 /\ i = Len(G[t0]) + 1 /\ Holds(b, M2, v, i, t) => v = n
      /\ \A t \in Nat : Agree(G[t], G2[t], Len(G[t]))
  BY CoreGrow, Zenon
<1>2. D2[n].currentTerm \in Nat
  BY TermsOnDisk
<1>3. History(b, G) /\ t0 = D2[n].currentTerm /\ b[t0] = n
  BY DEF Core, GrowStep
<1>4. G2[t0] = D2[n].log /\ \A t \in Nat : t # t0 => G2[t] = G[t]
  BY <1>3 DEF GrowStep, History
<1>5. ASSUME NEW i \in Nat \ {0}, NEW t \in Nat, NEW v \in Server,
             Stamped(b, G2, i, t), Holds(b, M2, v, i, t), D2[v].currentTerm > t
      PROVE  Stamped(b, G, i, t) /\ Holds(b, M, v, i, t)
  <2>1. ~(t = t0 /\ i = Len(G[t0]) + 1)
    BY <1>1, <1>2, <1>3, <1>5
  <2> QED
    BY <1>1, <1>5, <2>1 DEF Holds, SameAcks
<1> QED
  BY <1>1, <1>3, <1>4, <1>5 DEF Steady

-----------------------------------------------------------------------------
(* What a server sends.  l is the state append_for reads.                  *)

SendsOK(n, s, r, l, M) ==
    \A m \in r.sends :
        /\ m.to # n
        /\ m.type = "AppendEntries" => \E p \in Peers(n) : m = AppendFor(n, l, p)
        /\ m.type = "RequestVote" =>
              /\ r.node.currentTerm > s.currentTerm
              /\ m.lastLogIndex = LastIndex(s.log) /\ m.lastLogTerm = LastTerm(s.log)
        /\ m.type = "RequestVoteResp" /\ m.voteGranted =>
              /\ WritesNothing(r)
              /\ \E q \in M : /\ q.type = "RequestVote" /\ q.from = m.to /\ q.term = m.term
                              /\ LastAtLeast(q.lastLogIndex, q.lastLogTerm, s.log)

(* n, in state s, has carried out r.                                       *)
Done(n, s, r, D, D2, M, M2) ==
    /\ DiskStep(n, D, D2)
    /\ s.log = D[n].log /\ s.currentTerm = D[n].currentTerm
    /\ D2[n].log = r.node.log /\ D2[n].currentTerm = r.node.currentTerm
    /\ WritesNothing(r) => r.node.log = s.log
    /\ M \subseteq M2 /\ M2 \subseteq M \cup r.sends /\ M2 \subseteq Message
    /\ VoteResult(n, s, r)

LEMMA AppendForOK ==
    ASSUME NEW n \in Server, NEW p \in Peers(n), NEW s, NodeTypeOK(s), s.role = Leader,
           NEW b, NEW G, NEW D, NEW M, NEW x,
           LeaderOK(b, G, M, n, s), CommitOK(b, G, M, s, x), D[n].currentTerm = s.currentTerm
    PROVE  MessageOK(b, G, D, M, AppendFor(n, s, p))
<1> DEFINE m == AppendFor(n, s, p)
           i == s.nextIndex[p]
           es == EntriesFrom(s.log, i)
<1>1. /\ p \in Server /\ p # n /\ s.log \in Seq(Entry) /\ Len(s.log) \in Nat
      /\ i \in Nat /\ i >= 1 /\ s.currentTerm \in Nat /\ s.commitIndex \in Nat
  BY LenProperties DEF Peers, NodeTypeOK, RaftNode
<1>2. b[s.currentTerm] = n /\ G[s.currentTerm] = s.log /\ i <= Len(s.log) + 1
  BY <1>1 DEF LeaderOK
<1>3. /\ m.type = "AppendEntries" /\ m.from = n /\ m.to = p /\ m.term = s.currentTerm
      /\ m.prevLogIndex = i - 1 /\ m.entries = es /\ m.leaderCommit = s.commitIndex
      /\ m.prevLogTerm = IF TermAt(s.log, i - 1) = NoTerm THEN 0 ELSE TermAt(s.log, i - 1)
  BY DEF AppendFor
<1>4. TermAt(s.log, i - 1) # NoTerm
  <2>1. CASE i - 1 = 0
    BY <2>1 DEF TermAt, NoTerm
  <2>2. CASE i - 1 # 0
    <3>1. i - 1 \in 1..Len(s.log)
      BY <1>1, <1>2, <2>2
    <3>2. s.log[i - 1].term \in Nat
      BY <1>1, <3>1, EntryTerm
    <3> QED
      BY <2>2, <3>1, <3>2 DEF TermAt, NoTerm
  <2> QED
    BY <2>1, <2>2
<1>5. i - 1 + Len(es) = Len(s.log) /\ \A k \in 1..Len(es) : es[k] = s.log[i - 1 + k]
  <2>1. CASE i = Len(s.log) + 1
    <3>1. es = << >> /\ Len(es) = 0
      BY <1>1, <2>1 DEF EntriesFrom
    <3> HIDE DEF es
    <3> QED
      BY <1>1, <2>1, <3>1
  <2>2. CASE i \in 1..Len(s.log)
    <3>1. es = SubSeq(s.log, i, Len(s.log))
      BY <2>2 DEF EntriesFrom
    <3>2. i \in Nat \ {0} /\ i <= Len(s.log) + 1 /\ Len(s.log) <= Len(s.log)
      BY <1>1, <1>2
    <3> HIDE DEF es, i
    <3>3. Len(es) = Len(s.log) - i + 1 /\ \A k \in 1..Len(s.log) - i + 1 : es[k] = s.log[i + k - 1]
      BY <1>1, <3>1, <3>2, SubSeqFacts
    <3>4. i - 1 + Len(es) = Len(s.log)
      BY <1>1, <3>2, <3>3
    <3>5. \A k \in Nat : i + k - 1 = i - 1 + k
      BY <1>1
    <3>6. 1..Len(es) = 1..Len(s.log) - i + 1 /\ 1..Len(es) \subseteq Nat
      BY <1>1, <3>2, <3>3
    <3> QED
      BY <3>3, <3>4, <3>5, <3>6
  <2> QED
    BY <1>1, <1>2, <2>1, <2>2
<1> HIDE DEF m, es, i
<1>6. RunOf(m, s.log)
  BY <1>1, <1>3, <1>4, <1>5 DEF RunOf
<1>7. /\ s.commitIndex <= Len(s.log)
      /\ s.commitIndex > 0 => ChosenAt(b, G, M, s.commitIndex, s.log[s.commitIndex].term)
  BY DEF CommitOK
<1>8. m.prevLogIndex + Len(m.entries) = Len(s.log)
  BY <1>3, <1>5
<1>9. m.term <= D[m.from].currentTerm /\ G[m.term] = s.log /\ b[m.term] = m.from /\ m.to # m.from
  BY <1>1, <1>2, <1>3
<1>10. /\ m.leaderCommit <= m.prevLogIndex + Len(m.entries)
       /\ m.leaderCommit > 0 =>
             ChosenAt(b, G, M, m.leaderCommit, G[m.term][m.leaderCommit].term)
  BY <1>3, <1>7, <1>8, <1>9
<1>11. MessageOK(b, G, D, M, m)
  BY <1>3, <1>6, <1>9, <1>10 DEF MessageOK
<1> QED
  BY <1>11 DEF m

(* The new messages fit the histories, and votes were given properly.      *)
LEMMA SentOK ==
    ASSUME NEW n \in Server, NEW s, NEW r, NEW l, NEW b, NEW G, NEW D, NEW M,
           NEW b2, NEW G2, NEW D2, NEW M2,
           Steady(n, b, G, D, M, b2, G2, D2, M2), Done(n, s, r, D, D2, M, M2),
           SendsOK(n, s, r, l, M), \A m \in M : MessageOK(b, G, D, M, m),
           NodeTypeOK(l),
           r.node.role = Leader =>
              /\ l.role = Leader /\ l.currentTerm = D2[n].currentTerm
              /\ LeaderOK(b2, G2, M2, n, l) /\ \E x : CommitOK(b2, G2, M2, l, x)
    PROVE  /\ \A m \in M2 : MessageOK(b2, G2, D2, M2, m)
           /\ NewVotes(n, D, D2, M, M2)
           /\ NewRequests(n, s.currentTerm, s.log, M, M2)
           /\ r.node.log = s.log => NewRequests(n, r.node.currentTerm, r.node.log, M, M2)
<1>1. /\ D2[n].currentTerm \in Nat /\ D[n].currentTerm \in Nat
      /\ \A v \in Server : /\ D[v].currentTerm \in Nat /\ D2[v].currentTerm \in Nat
                           /\ D2[v].currentTerm >= D[v].currentTerm
  BY TermsOnDisk DEF Done
<1>2. /\ M \subseteq M2 /\ M2 \subseteq M \cup r.sends /\ M2 \subseteq Message
      /\ s.log = D[n].log /\ s.currentTerm = D[n].currentTerm
      /\ D2[n].currentTerm = r.node.currentTerm
  BY DEF Done
<1>3. \A m \in r.sends :
         /\ m.from = n /\ m.term = D2[n].currentTerm
         /\ m.type = "AppendEntries" => r.node.role = Leader
  BY DEF Done, VoteResult
<1>4. ASSUME NEW m \in M2, m \notin M PROVE MessageOK(b2, G2, D2, M2, m)
  <2>1. m \in r.sends
    BY <1>2, <1>4
  <2>2. m.term <= D2[m.from].currentTerm /\ m.to # m.from
    BY <1>1, <1>3, <2>1 DEF SendsOK
  <2>3. ASSUME m.type = "RequestVoteResp", m.voteGranted PROVE m.term <= D2[m.to].currentTerm
    <3>1. PICK q \in M : q.from = m.to /\ q.term = m.term
      BY <2>1, <2>3 DEF SendsOK
    <3>2. q.term <= D[q.from].currentTerm
      BY DEF MessageOK
    <3>3. q \in Message
      BY <1>2
    <3>4. q.from \in Server /\ q.term \in Nat
      BY <3>3 DEF Message, RequestVoteReq, RequestVoteResp, AppendEntriesReq, AppendEntriesResp
    <3> QED
      BY <1>1, <3>1, <3>2, <3>4
  <2>4. ASSUME m.type = "AppendEntries" PROVE MessageOK(b2, G2, D2, M2, m)
    <3>1. PICK p \in Peers(n) : m = AppendFor(n, l, p)
      BY <2>1, <2>4 DEF SendsOK
    <3> QED
      BY <1>3, <2>1, <2>4, <3>1, AppendForOK
  <2> QED
    BY <2>2, <2>3, <2>4 DEF MessageOK
<1>5. \A m \in M2 : MessageOK(b2, G2, D2, M2, m)
  BY <1>2, <1>4, MessageStable
<1>6. NewVotes(n, D, D2, M, M2)
  <2> SUFFICES ASSUME NEW m \in M2, m \notin M, m.type = "RequestVoteResp", m.voteGranted
               PROVE  /\ D2[n].log = D[n].log
                      /\ \E q \in M : /\ q.type = "RequestVote" /\ q.from = m.to /\ q.term = m.term
                                      /\ LastAtLeast(q.lastLogIndex, q.lastLogTerm, D[n].log)
    BY DEF NewVotes
  <2>1. m \in r.sends
    BY <1>2
  <2>2. WritesNothing(r)
        /\ \E q \in M : /\ q.type = "RequestVote" /\ q.from = m.to /\ q.term = m.term
                        /\ LastAtLeast(q.lastLogIndex, q.lastLogTerm, s.log)
    BY <2>1 DEF SendsOK
  <2> QED
    BY <1>2, <2>2 DEF Done
<1>7. NewRequests(n, s.currentTerm, s.log, M, M2)
  <2> SUFFICES ASSUME NEW m \in M2, m \notin M, m.type = "RequestVote", m.term = s.currentTerm
               PROVE  FALSE
    BY DEF NewRequests
  <2>1. m \in r.sends
    BY <1>2
  <2>2. r.node.currentTerm > s.currentTerm /\ m.term = r.node.currentTerm
    BY <1>2, <1>3, <2>1 DEF SendsOK
  <2> QED
    BY <1>1, <1>2, <2>2
<1>8. ASSUME r.node.log = s.log PROVE NewRequests(n, r.node.currentTerm, r.node.log, M, M2)
  BY <1>2, <1>8 DEF NewRequests, SendsOK
<1> QED
  BY <1>5, <1>6, <1>7, <1>8

-----------------------------------------------------------------------------
(* Commitment *)

LEMMA ChosenIsNotDead ==
    ASSUME NEW b, NEW G, NEW D, NEW M, NEW i, NEW t, ChosenAt(b, G, M, i, t)
    PROVE  Stamped(b, G, i, t) /\ ~Dead(b, D, M, i, t)
  BY DEF ChosenAt, Dead

(* A chosen entry of a rooted log is in the log of every leader of its     *)
(* term or a later one.                                                    *)
LEMMA ChosenInLeader ==
    ASSUME NEW b, NEW G, NEW D, NEW M, Core(b, G, D, M),
           NEW log \in Seq(Entry), NEW x, Rooted(b, G, log, x), NEW i \in 1..Len(log),
           ChosenAt(b, G, M, i, log[i].term),
           NEW u \in Nat, b[u] # Nil, log[i].term <= u
    PROVE  Agree(log, G[u], i)
<1>1. PICK t \in Nat : t = log[i].term
  BY EntryTerm
<1>2. i \in Nat \ {0} /\ History(b, G) /\ G[u] \in Seq(Entry) /\ Rooted(b, G, G[u], u)
  <2>1. i \in Nat \ {0}
    BY LenProperties
  <2>2. History(b, G) /\ LeaderLogs(b, G)
    BY DEF Core
  <2>3. G[u] \in Seq(Entry)
    BY <2>2 DEF History
  <2> QED
    BY <2>1, <2>2, <2>3 DEF LeaderLogs
<1>3. CASE t = u
  BY <1>1, <1>3 DEF Rooted
<1>4. CASE t # u
  <2>1. t < u
    BY <1>1, <1>4
  <2>2. Stamped(b, G, i, t) /\ ~Dead(b, D, M, i, t)
    BY <1>1, ChosenIsNotDead
  <2>3. Has(G[u], i, t)
    BY <1>2, <2>1, <2>2 DEF Core, Succession
  <2>4. Has(log, i, t)
    BY <1>1 DEF Has
  <2> QED
    BY <1>2, <2>3, <2>4, RootedMeet
<1> QED
  BY <1>3, <1>4

(* A sequence of entries that ends in a chosen one.                        *)
ChosenLog(b, G, M, c) ==
    c # << >> => /\ ChosenAt(b, G, M, Len(c), LastTerm(c))
                 /\ Agree(c, G[LastTerm(c)], Len(c))

(* Any two of them are prefixes of each other.                             *)
LEMMA ChosenAgree ==
    ASSUME NEW b, NEW G, NEW D, NEW M, Core(b, G, D, M),
           NEW a \in Seq(Entry), NEW c \in Seq(Entry), Len(a) <= Len(c),
           ChosenLog(b, G, M, a), ChosenLog(b, G, M, c)
    PROVE  Agree(a, c, Len(a))
<1>1. Len(a) \in Nat /\ Len(c) \in Nat /\ LastTerm(a) \in Nat /\ LastTerm(c) \in Nat
  BY LenProperties, LastTermType
<1>2. CASE a = << >>
  <2>1. Len(a) = 0
    BY <1>2
  <2> QED
    BY <1>1, <2>1 DEF Agree
<1>3. CASE a # << >>
  <2>1. Len(a) # 0
    BY <1>3, EmptySeq
  <2>2. c # << >>
    <3>1. Len(c) # 0
      BY <1>1, <2>1
    <3> QED
      BY <3>1
  <2>3. PICK i \in Nat \ {0} : i = Len(a)
    BY <1>1, <2>1
  <2>4. PICK j \in Nat \ {0} : j = Len(c) /\ i <= j
    BY <1>1, <2>1, <2>3
  <2>5. PICK t \in Nat : t = LastTerm(a)
    BY <1>1
  <2>6. PICK u \in Nat : u = LastTerm(c)
    BY <1>1
  <2>7. /\ ChosenAt(b, G, M, i, t) /\ Agree(a, G[t], i)
        /\ ChosenAt(b, G, M, j, u) /\ Agree(c, G[u], j)
    BY <1>3, <2>2, <2>3, <2>4, <2>5, <2>6 DEF ChosenLog
  <2>8. /\ Has(G[t], i, t) /\ b[t] # Nil /\ ~Dead(b, D, M, i, t)
        /\ Has(G[u], j, u) /\ b[u] # Nil /\ ~Dead(b, D, M, j, u)
    BY <2>7, ChosenIsNotDead DEF Stamped
  <2>9. /\ History(b, G) /\ G[t] \in Seq(Entry) /\ G[u] \in Seq(Entry)
        /\ Rooted(b, G, G[t], t) /\ Rooted(b, G, G[u], u)
    BY DEF Core, History, LeaderLogs
  <2>10. Agree(G[t], G[u], i)
    <3>1. CASE t = u
      BY <2>8, <2>9, <3>1, LenProperties DEF Agree, Has
    <3>2. CASE t < u
      <4>1. Has(G[u], i, t)
        BY <2>8, <3>2 DEF Core, Succession, Stamped
      <4> QED
        BY <2>8, <2>9, <4>1, RootedMeet
    <3>3. CASE u < t
      <4>1. Has(G[t], j, u)
        BY <2>8, <3>3 DEF Core, Succession, Stamped
      <4>2. Agree(G[t], G[u], j)
        BY <2>8, <2>9, <4>1, RootedMeet
      <4>3. i \in 0..j
        BY <2>4
      <4> QED
        BY <2>9, <4>2, <4>3, AgreeFacts
    <3> QED
      BY <3>1, <3>2, <3>3
  <2>11. Agree(c, G[u], i)
    <3>1. i \in 0..j
      BY <2>4
    <3> QED
      BY <2>7, <2>9, <3>1, AgreeFacts
  <2>12. Agree(a, G[u], i) /\ Agree(G[u], c, i)
    BY <2>7, <2>9, <2>10, <2>11, AgreeFacts
  <2> QED
    BY <2>3, <2>9, <2>12, AgreeFacts
<1> QED
  BY <1>2, <1>3

LEMMA ChosenLogStable ==
    ASSUME NEW n \in Server, NEW b, NEW G, NEW D, NEW M, NEW b2, NEW G2, NEW D2, NEW M2,
           Steady(n, b, G, D, M, b2, G2, D2, M2),
           NEW c \in Seq(Entry), ChosenLog(b, G, M, c)
    PROVE  ChosenLog(b2, G2, M2, c)
<1> SUFFICES ASSUME c # << >>
             PROVE  ChosenAt(b2, G2, M2, Len(c), LastTerm(c)) /\ Agree(c, G2[LastTerm(c)], Len(c))
  BY DEF ChosenLog
<1>1. PICK i \in Nat \ {0} : i = Len(c)
  BY LenProperties, EmptySeq
<1>2. PICK t \in Nat : t = LastTerm(c)
  BY LastTermType
<1>3. ChosenAt(b, G, M, i, t) /\ Agree(c, G[t], i)
  BY <1>1, <1>2 DEF ChosenLog
<1>4. ChosenAt(b2, G2, M2, i, t)
  BY <1>3, ChosenStable
<1>5. G[t] \in Seq(Entry) /\ G2[t] \in Seq(Entry) /\ Agree(G[t], G2[t], Len(G[t]))
  BY DEF Steady, Core, History
<1>6. Agree(G[t], G2[t], i)
  <2>1. Len(G[t]) \in Nat /\ i \in 0..Len(G[t])
    BY <1>3, <1>5, LenProperties DEF Agree
  <2> QED
    BY <1>5, <2>1, AgreeFacts
<1> QED
  BY <1>1, <1>2, <1>3, <1>4, <1>5, <1>6, AgreeFacts

(* What a server has applied is such a sequence.                           *)
LEMMA AppliedIsChosen ==
    ASSUME NEW b, NEW G, NEW M, NEW s \in RaftNode, NEW x, Rooted(b, G, s.log, x), NEW a,
           CommitOK(b, G, M, s, a), History(b, G)
    PROVE  a \in Seq(Entry) /\ Len(a) = s.commitIndex /\ ChosenLog(b, G, M, a)
<1>1. /\ s.log \in Seq(Entry) /\ Len(s.log) \in Nat /\ s.commitIndex \in Nat
      /\ s.commitIndex <= Len(s.log) /\ a = SubSeq(s.log, 1, s.commitIndex)
  BY LenProperties DEF RaftNode, CommitOK
<1>2. PICK c \in Nat : c = s.commitIndex
  BY <1>1
<1>3. 1 <= c + 1 /\ c <= Len(s.log) /\ c - 1 + 1 = c /\ \A k \in Nat : 1 + k - 1 = k
  BY <1>1, <1>2
<1>4. a \in Seq(Entry) /\ Len(a) = c /\ \A k \in 1..c : a[k] = s.log[k]
  BY <1>1, <1>2, <1>3, SubSeqFacts
<1>5. ASSUME a # << >> PROVE /\ ChosenAt(b, G, M, Len(a), LastTerm(a))
                             /\ Agree(a, G[LastTerm(a)], Len(a))
  <2>1. c \in 1..Len(s.log) /\ c \in 1..c /\ c > 0
    <3>1. c # 0
      BY <1>4, <1>5, EmptySeq
    <3> QED
      BY <1>3, <3>1
  <2>2. PICK t \in Nat : t = s.log[c].term
    BY <1>1, <2>1, EntryTerm
  <2>3. LastTerm(a) = t
    BY <1>4, <1>5, <2>1, <2>2 DEF LastTerm
  <2>4. ChosenAt(b, G, M, c, t)
    BY <1>2, <2>1, <2>2 DEF CommitOK
  <2>5. Agree(s.log, G[t], c) /\ G[t] \in Seq(Entry)
    BY <2>1, <2>2 DEF Rooted, History
  <2>6. Agree(a, s.log, c)
    BY <1>3, <1>4 DEF Agree
  <2>7. Agree(a, G[t], c)
    BY <1>1, <1>4, <2>5, <2>6, AgreeFacts
  <2> QED
    BY <1>4, <2>3, <2>4, <2>7
<1> QED
  BY <1>2, <1>4, <1>5 DEF ChosenLog

(* What advance_applied does, or nothing.                                  *)
Applies(s, r) ==
    \/ /\ r.node.commitIndex = s.commitIndex
       /\ r.node.lastApplied = s.lastApplied
       /\ r.applies = << >>
    \/ /\ r.node.commitIndex > s.commitIndex
       /\ r.node.lastApplied = Advanced(s.lastApplied, r.node.commitIndex)
       /\ r.applies = SubSeq(r.node.log, s.lastApplied + 1, r.node.commitIndex)

(* Applying more keeps the stream a prefix of the log, provided that what  *)
(* was applied before is not rewritten.                                    *)
LEMMA CommitNew ==
    ASSUME NEW b, NEW G, NEW M, NEW b2, NEW G2, NEW M2,
           NEW s \in RaftNode, NEW a, CommitOK(b, G, M, s, a), CommitOK(b2, G2, M2, s, a),
           NEW r, ResultTypeOK(r), Applies(s, r),
           Agree(s.log, r.node.log, s.commitIndex),
           r.node.commitIndex > s.commitIndex =>
              /\ r.node.commitIndex <= Len(r.node.log)
              /\ ChosenAt(b2, G2, M2, r.node.commitIndex, r.node.log[r.node.commitIndex].term)
    PROVE  CommitOK(b2, G2, M2, r.node, a \o r.applies)
<1>1. /\ s.log \in Seq(Entry) /\ Len(s.log) \in Nat /\ s.commitIndex \in Nat
      /\ s.lastApplied = s.commitIndex
      /\ s.commitIndex <= Len(s.log) /\ a = SubSeq(s.log, 1, s.commitIndex)
  BY LenProperties DEF RaftNode, CommitOK
<1>2. r.node.log \in Seq(Entry) /\ Len(r.node.log) \in Nat /\ r.node.commitIndex \in Nat
  BY LenProperties DEF ResultTypeOK, Result, RaftNode
<1>3. PICK log \in Seq(Entry) : log = r.node.log
  BY <1>2
<1>4. PICK k \in Nat : k = s.commitIndex
  BY <1>1
<1>5. PICK c \in Nat : c = r.node.commitIndex
  BY <1>2
<1>6. /\ k <= Len(s.log) /\ k <= Len(log) /\ Len(log) \in Nat
      /\ \A j \in 1..k : s.log[j] = log[j]
  BY <1>2, <1>3, <1>4 DEF Agree
<1>7. a = SubSeq(log, 1, k) /\ a \in Seq(Entry)
  <2>1. 1 <= k + 1 /\ k - 1 + 1 = k /\ \A j \in Nat : 1 + j - 1 = j
    OBVIOUS
  <2>2. /\ a \in Seq(Entry) /\ Len(a) = k
        /\ \A j \in 1..k : a[j] = s.log[j]
    BY <1>1, <1>4, <2>1, SubSeqFacts
  <2>3. /\ SubSeq(log, 1, k) \in Seq(Entry) /\ Len(SubSeq(log, 1, k)) = k
        /\ \A j \in 1..k : SubSeq(log, 1, k)[j] = log[j]
    BY <1>6, <2>1, SubSeqFacts
  <2>4. \A j \in 1..k : a[j] = SubSeq(log, 1, k)[j]
    BY <1>6, <2>2, <2>3
  <2> QED
    BY <2>2, <2>3, <2>4, SeqEqual
<1>8. CASE c = k
  <2>1. r.applies = << >> /\ r.node.lastApplied = c
    BY <1>1, <1>4, <1>5, <1>8 DEF Applies
  <2>2. a \o r.applies = SubSeq(log, 1, c)
    BY <1>7, <1>8, <2>1, ConcatEmptySeq
  <2>3. ASSUME c > 0 PROVE ChosenAt(b2, G2, M2, c, log[c].term)
    <3>1. s.log[c] = log[c]
      BY <1>6, <1>8, <2>3
    <3> QED
      BY <1>4, <1>8, <2>3, <3>1 DEF CommitOK
  <2> QED
    BY <1>3, <1>5, <1>6, <1>8, <2>1, <2>2, <2>3 DEF CommitOK
<1>9. CASE c # k
  <2>1. c > k /\ r.node.lastApplied = c /\ r.applies = SubSeq(log, k + 1, c)
    BY <1>1, <1>3, <1>4, <1>5, <1>9 DEF Applies, Advanced
  <2>2. c <= Len(log) /\ ChosenAt(b2, G2, M2, c, log[c].term)
    BY <1>3, <1>4, <1>5, <2>1
  <2>3. SubSeq(log, 1, k) \o SubSeq(log, k + 1, c) = SubSeq(log, 1, c)
    <3>1. 1 \in 1..Len(log) + 1 /\ k \in 1 - 1..Len(log) /\ c \in k..Len(log)
      BY <1>6, <2>1, <2>2
    <3> QED
      BY <3>1, ConcatAdjacentSubSeq
  <2> QED
    BY <1>3, <1>5, <1>7, <2>1, <2>2, <2>3 DEF CommitOK
<1> QED
  BY <1>8, <1>9

(* What try_commit advances to is held by a majority: by n itself and by   *)
(* whoever has acknowledged it.                                            *)
LEMMA CommittableIsChosen ==
    ASSUME NEW n \in Server, NEW b, NEW G, NEW M, M \subseteq Message,
           NEW s \in RaftNode, s.role = Leader, LeaderOK(b, G, M, n, s), NEW c \in Committable(n, s)
    PROVE  /\ c \in 1..Len(s.log) /\ c > s.commitIndex
           /\ ChosenAt(b, G, M, c, s.log[c].term)
<1>1. /\ s.log \in Seq(Entry) /\ Len(s.log) \in Nat /\ s.commitIndex \in Nat
      /\ s.currentTerm \in Nat /\ \A p \in Server : s.matchIndex[p] \in Nat
  BY LenProperties DEF RaftNode
<1>2. /\ b[s.currentTerm] = n /\ G[s.currentTerm] = s.log
      /\ \A p \in Server :
            s.matchIndex[p] > 0 => AckedIn(M, p, s.matchIndex[p], s.currentTerm)
  BY DEF LeaderOK
<1>3. c \in s.commitIndex + 1 .. Len(s.log) /\ TermAt(s.log, c) = s.currentTerm
      /\ Holders(n, s, c) >= Majority
  BY DEF Committable, LastIndex
<1>4. c \in 1..Len(s.log) /\ c > s.commitIndex /\ c \in Nat /\ c > 0
  BY <1>1, <1>3
<1>5. s.log[c].term = s.currentTerm
  BY <1>3, <1>4 DEF TermAt
<1>6. Stamped(b, G, c, s.currentTerm)
  BY <1>2, <1>4, <1>5, ServerAssumption DEF Stamped, Has
<1> DEFINE P == {p \in Peers(n) : s.matchIndex[p] >= c}
<1>7. P \in SUBSET Server /\ n \notin P
  BY DEF Peers
<1>8. \A p \in P : AckedIn(M, p, c, s.currentTerm)
  <2> TAKE p \in P
  <2>1. s.matchIndex[p] \in Nat /\ s.matchIndex[p] >= c /\ s.matchIndex[p] > 0
    BY <1>1, <1>4, <1>7
  <2>2. PICK m \in M : /\ m.type = "AppendEntriesResp" /\ m.success
                       /\ m.from = p /\ m.term = s.currentTerm /\ m.matchIndex >= s.matchIndex[p]
    BY <1>2, <1>7, <2>1 DEF AckedIn
  <2>3. m \in Message
    OBVIOUS
  <2>4. m.matchIndex \in Nat
    BY <2>2, <2>3, MessageKinds DEF AppendEntriesResp
  <2>5. m.matchIndex >= c
    BY <1>4, <2>1, <2>2, <2>4
  <2> QED
    BY <2>2, <2>5 DEF AckedIn
<1>9. Holders(n, s, c) = 1 + Cardinality(P)
  BY DEF Holders
<1> HIDE DEF P
<1>10. IsFiniteSet(P) /\ Cardinality(P) \in Nat
  BY <1>7, ServerAssumption, FS_Subset, FS_CardinalityType
<1>11. Cardinality(P \cup {n}) = Cardinality(P) + 1
  BY <1>7, <1>10, FS_AddElement
<1>12. Cardinality(P \cup {n}) >= Majority
  BY <1>3, <1>9, <1>10, <1>11
<1>13. \A v \in P \cup {n} : Holds(b, M, v, c, s.currentTerm)
  BY <1>2, <1>8 DEF Holds
<1>14. P \cup {n} \in SUBSET Server
  BY <1>7
<1> QED
  BY <1>4, <1>5, <1>6, <1>12, <1>13, <1>14 DEF ChosenAt

-----------------------------------------------------------------------------
(* What the handlers do, in five kinds, and that each keeps the running    *)
(* server that executes it in accord with the histories.                   *)

NodeOK(b, G, D, M, n, s, a) ==
    /\ s.log = D[n].log
    /\ LeaderOK(b, G, M, n, s)
    /\ CandidateOK(b, G, D, M, n, s)
    /\ CommitOK(b, G, M, s, a)

Kept(n, b, G, D, M, b2, G2, D2, M2, s2, a2) ==
    /\ Steady(n, b, G, D, M, b2, G2, D2, M2)
    /\ \A m \in M2 : MessageOK(b2, G2, D2, M2, m)
    /\ NewVotes(n, D, D2, M, M2)
    /\ NodeOK(b2, G2, D2, M2, n, s2, a2)

NoAcks(r) == \A m \in r.sends : ~(m.type = "AppendEntriesResp" /\ m.success)

KeepsLog(s, r) ==
    /\ WritesNothing(r)
    /\ r.node.log = s.log
    /\ r.node.commitIndex = s.commitIndex
    /\ r.node.lastApplied = s.lastApplied
    /\ r.applies = << >>

(* Neither the log nor the commitment changes and nobody is elected.       *)
QuietKind(n, s, r, M) ==
    /\ KeepsLog(s, r) /\ NoAcks(r) /\ SendsOK(n, s, r, r.node, M)
    /\ r.node.role = Leader =>
          /\ s.role = Leader /\ r.node.currentTerm = s.currentTerm
          /\ r.node.matchIndex = s.matchIndex
          /\ \A p \in Server : r.node.nextIndex[p] <= s.nextIndex[p]
    /\ r.node.role = Candidate =>
          \/ s.role = Candidate /\ r.node.currentTerm = s.currentTerm
          \/ r.node.currentTerm > s.currentTerm

(* A candidate, of an old election or of one that it starts, has won.      *)
WonKind(n, s, r, M) ==
    /\ KeepsLog(s, r) /\ NoAcks(r) /\ SendsOK(n, s, r, r.node, M)
    /\ r.node.role = Leader
    /\ \A p \in Server : r.node.nextIndex[p] = Len(s.log) + 1 /\ r.node.matchIndex[p] = 0
    /\ VotedFor(n, r.node.currentTerm, s, M)
    /\ \/ s.role = Candidate /\ r.node.currentTerm = s.currentTerm
       \/ r.node.currentTerm > s.currentTerm

LEMMA DoneFacts ==
    ASSUME NEW n \in Server, NEW s, NEW r, NEW D, NEW D2, NEW M, NEW M2,
           Done(n, s, r, D, D2, M, M2)
    PROVE  /\ DiskStep(n, D, D2) /\ M \subseteq M2
           /\ \A m \in M2 : m \in M \/ (m.from = n /\ m.term = D2[n].currentTerm)
           /\ NoAcks(r) => SameAcks(M, M2)
<1>1. /\ DiskStep(n, D, D2) /\ M \subseteq M2 /\ M2 \subseteq M \cup r.sends
      /\ \A m \in r.sends : m.from = n /\ m.term = D2[n].currentTerm
  BY DEF Done, VoteResult
<1>2. ASSUME NoAcks(r) PROVE SameAcks(M, M2)
  BY <1>1, <1>2 DEF NoAcks, SameAcks, AckedIn
<1> QED
  BY <1>1, <1>2

LEMMA CommitSame ==
    ASSUME NEW n \in Server, NEW b, NEW G, NEW D, NEW M, NEW b2, NEW G2, NEW D2, NEW M2,
           Steady(n, b, G, D, M, b2, G2, D2, M2),
           NEW s \in RaftNode, NEW a, CommitOK(b, G, M, s, a),
           NEW r, ResultTypeOK(r), KeepsLog(s, r)
    PROVE  CommitOK(b2, G2, M2, r.node, a \o r.applies)
<1>1. CommitOK(b2, G2, M2, s, a)
  BY CommitStable
<1>2. Applies(s, r)
  BY DEF Applies, KeepsLog
<1>3. Agree(s.log, r.node.log, s.commitIndex)
  BY DEF KeepsLog, Agree, CommitOK
<1>4. r.node.commitIndex = s.commitIndex /\ s.commitIndex \in Nat
  BY DEF KeepsLog, RaftNode
<1>5. ~(r.node.commitIndex > s.commitIndex)
  BY <1>4
<1> QED
  BY <1>1, <1>2, <1>3, <1>5, CommitNew

LEMMA QuietDone ==
    ASSUME NEW n \in Server, NEW s, NodeTypeOK(s), NEW r, ResultTypeOK(r),
           NEW b, NEW G, NEW D, NEW D2, NEW M, NEW M2, NEW a,
           Core(b, G, D, M), \A m \in M : MessageOK(b, G, D, M, m),
           NodeOK(b, G, D, M, n, s, a), Done(n, s, r, D, D2, M, M2),
           QuietKind(n, s, r, M)
    PROVE  Kept(n, b, G, D, M, b, G, D2, M2, r.node, a \o r.applies)
<1>1. /\ s \in RaftNode /\ r.node \in RaftNode /\ NodeTypeOK(r.node)
      /\ s.currentTerm \in Nat /\ r.node.currentTerm \in Nat
  BY DEF NodeTypeOK, ResultTypeOK, Result, RaftNode
<1>2. /\ KeepsLog(s, r) /\ NoAcks(r) /\ SendsOK(n, s, r, r.node, M)
      /\ r.node.log = s.log
  BY DEF QuietKind, KeepsLog
<1>3. /\ s.log = D[n].log /\ s.currentTerm = D[n].currentTerm /\ M2 \subseteq Message
      /\ D2[n].log = r.node.log /\ D2[n].currentTerm = r.node.currentTerm
  BY DEF Done
<1>4. /\ DiskStep(n, D, D2) /\ M \subseteq M2 /\ SameAcks(M, M2)
      /\ \A m \in M2 : m \in M \/ (m.from = n /\ m.term = D2[n].currentTerm)
  BY <1>2, DoneFacts
<1>5. Steady(n, b, G, D, M, b, G, D2, M2)
  <2>1. AckStep(n, b, G, D2, M, M2)
    BY <1>4 DEF AckStep, SameAcks
  <2>2. LogStep(n, b, G, D, D2)
    BY <1>2, <1>3 DEF LogStep
  <2> QED
    BY <1>4, <2>1, <2>2, SteadyMerge
<1>6. CommitOK(b, G, M2, r.node, a \o r.applies)
  BY <1>1, <1>2, <1>5, CommitSame DEF NodeOK
<1>7. LeaderOK(b, G, M2, n, r.node)
  <2> SUFFICES ASSUME r.node.role = Leader PROVE LeaderOK(b, G, M2, n, r.node)
    BY DEF LeaderOK
  <2>1. /\ s.role = Leader /\ r.node.currentTerm = s.currentTerm
        /\ r.node.matchIndex = s.matchIndex
        /\ \A p \in Server : r.node.nextIndex[p] <= s.nextIndex[p]
    BY DEF QuietKind
  <2>2. /\ b[s.currentTerm] = n
        /\ G[s.currentTerm] = s.log
        /\ \A p \in Server :
              /\ s.nextIndex[p] <= Len(s.log) + 1
              /\ s.matchIndex[p] <= Len(s.log)
              /\ s.matchIndex[p] > 0 => AckedIn(M, p, s.matchIndex[p], s.currentTerm)
    BY <2>1 DEF NodeOK, LeaderOK
  <2>3. \A p \in Server : /\ s.nextIndex[p] \in Nat /\ r.node.nextIndex[p] \in Nat
                           /\ Len(s.log) \in Nat
    BY <1>1, LenProperties DEF RaftNode
  <2>4. \A p \in Server : r.node.nextIndex[p] <= Len(s.log) + 1
    BY <2>1, <2>2, <2>3
  <2>5. \A p \in Server : s.matchIndex[p] > 0 => AckedIn(M2, p, s.matchIndex[p], s.currentTerm)
    BY <1>4, <2>2 DEF AckedIn
  <2> QED
    BY <1>2, <2>1, <2>2, <2>4, <2>5 DEF LeaderOK
<1>8. /\ \A m \in M2 : MessageOK(b, G, D2, M2, m)
      /\ NewVotes(n, D, D2, M, M2)
      /\ NewRequests(n, s.currentTerm, s.log, M, M2)
      /\ NewRequests(n, r.node.currentTerm, r.node.log, M, M2)
  BY <1>1, <1>2, <1>3, <1>5, <1>6, <1>7, SentOK
<1>9. CandidateOK(b, G, D2, M2, n, r.node)
  <2>1. CASE r.node.role = Candidate /\ s.role = Candidate /\ r.node.currentTerm = s.currentTerm
    <3>1. CandidateOK(b, G, D, M, n, s)
      BY DEF NodeOK
    <3>2. b[s.currentTerm] # n
      BY <2>1, <3>1 DEF CandidateOK
    <3>3. Rooted(b, G, s.log, D[n].currentTerm)
      BY <1>3 DEF Core, DiskLogs
    <3>4. CandidateOK(b, G, D2, M2, n, s)
      BY <1>1, <1>3, <1>5, <1>8, <2>1, <3>1, <3>2, <3>3, CandidateStable
    <3> QED
      BY <1>2, <2>1, <3>4 DEF CandidateOK
  <2>2. CASE r.node.role = Candidate /\ r.node.currentTerm > s.currentTerm
    BY <1>1, <1>3, <1>5, <1>8, <2>2, CandidateNew
  <2>3. CASE r.node.role # Candidate
    BY <2>3 DEF CandidateOK
  <2> QED
    BY <2>1, <2>2, <2>3 DEF QuietKind
<1> QED
  BY <1>3, <1>5, <1>6, <1>7, <1>8, <1>9 DEF Kept, NodeOK

LEMMA WonDone ==
    ASSUME NEW n \in Server, NEW s, NodeTypeOK(s), NEW r, ResultTypeOK(r),
           NEW b, NEW G, NEW D, NEW D2, NEW M, NEW M2, NEW a,
           Core(b, G, D, M), \A m \in M : MessageOK(b, G, D, M, m),
           NodeOK(b, G, D, M, n, s, a), Done(n, s, r, D, D2, M, M2),
           WonKind(n, s, r, M), b[r.node.currentTerm] \in {Nil, n}
    PROVE  \E G2 : Kept(n, b, G, D, M, [b EXCEPT ![r.node.currentTerm] = n], G2,
                        D2, M2, r.node, a \o r.applies)
<1>1. /\ s \in RaftNode /\ r.node \in RaftNode /\ NodeTypeOK(r.node)
      /\ s.currentTerm \in Nat /\ r.node.currentTerm \in Nat
  BY DEF NodeTypeOK, ResultTypeOK, Result, RaftNode
<1>2. /\ KeepsLog(s, r) /\ NoAcks(r) /\ SendsOK(n, s, r, r.node, M)
      /\ r.node.log = s.log
  BY DEF WonKind, KeepsLog
<1>3. /\ s.log = D[n].log /\ s.currentTerm = D[n].currentTerm /\ M2 \subseteq Message
      /\ D2[n].log = r.node.log /\ D2[n].currentTerm = r.node.currentTerm
  BY DEF Done
<1>4. /\ DiskStep(n, D, D2) /\ M \subseteq M2 /\ SameAcks(M, M2)
      /\ \A m \in M2 : m \in M \/ (m.from = n /\ m.term = D2[n].currentTerm)
  BY <1>2, DoneFacts
<1>5. PICK u \in Nat : u = r.node.currentTerm
  BY <1>1
<1> DEFINE b2 == [b EXCEPT ![u] = n]
           G2 == [G EXCEPT ![u] = D[n].log]
<1>6. b[u] = Nil
  <2>1. CASE s.role = Candidate /\ u = s.currentTerm
    BY <1>5, <2>1 DEF NodeOK, CandidateOK
  <2>2. CASE u > s.currentTerm
    <3>1. ~(D[n].currentTerm >= u)
      BY <1>1, <1>3, <2>2
    <3> QED
      BY <1>5, <3>1 DEF Core, Elected
  <2> QED
    BY <1>5, <2>1, <2>2 DEF WonKind
<1>7. WinStep(n, u, b, G, D, b2, G2, D2, M2)
  <2>1. VotedFor(n, u, s, M) /\ CandidateOK(b, G, D, M, n, s)
    BY <1>5 DEF WonKind, NodeOK
  <2>2. M \subseteq Message
    BY <1>3, <1>4
  <2> QED
    BY <1>1, <1>2, <1>3, <1>4, <1>5, <1>6, <2>1, <2>2, VotesWin
<1> HIDE DEF b2, G2
<1>8. /\ Steady(n, b, G, D, M, b2, G2, D2, M2)
      /\ b2[u] = n /\ G2[u] = D[n].log
  BY <1>4, <1>7, SteadyWin
<1>9. CommitOK(b2, G2, M2, r.node, a \o r.applies)
  BY <1>1, <1>2, <1>8, CommitSame DEF NodeOK
<1>10. LeaderOK(b2, G2, M2, n, r.node)
  <2>1. \A p \in Server : r.node.nextIndex[p] = Len(s.log) + 1 /\ r.node.matchIndex[p] = 0
    BY DEF WonKind
  <2>2. Len(s.log) \in Nat
    BY <1>1, LenProperties DEF RaftNode
  <2> QED
    BY <1>2, <1>3, <1>5, <1>8, <2>1, <2>2 DEF LeaderOK
<1>11. r.node.role = Leader
  BY DEF WonKind
<1>12. /\ \A m \in M2 : MessageOK(b2, G2, D2, M2, m)
       /\ NewVotes(n, D, D2, M, M2)
  BY <1>1, <1>2, <1>3, <1>8, <1>9, <1>10, <1>11, SentOK
<1>13. CandidateOK(b2, G2, D2, M2, n, r.node)
  BY <1>11 DEF CandidateOK, Candidate, Leader
<1>14. Kept(n, b, G, D, M, b2, G2, D2, M2, r.node, a \o r.applies)
  BY <1>3, <1>8, <1>9, <1>10, <1>12, <1>13 DEF Kept, NodeOK
<1> QED
  BY <1>5, <1>14 DEF b2

(* r is the result of try_commit on a leader in state l.                   *)
TryCommitted(n, l, r) ==
    /\ NodeTypeOK(l) /\ l.role = Leader
    /\ r.node.role = Leader /\ r.node.currentTerm = l.currentTerm /\ r.node.log = l.log
    /\ r.node.nextIndex = l.nextIndex /\ r.node.matchIndex = l.matchIndex
    /\ Applies(l, r)
    /\ r.node.commitIndex > l.commitIndex => r.node.commitIndex \in Committable(n, l)

LEMMA TryCommittedOK ==
    ASSUME NEW n \in Server, NEW l, NEW r, ResultTypeOK(r), TryCommitted(n, l, r),
           NEW b, NEW G, NEW M, M \subseteq Message, NEW a,
           LeaderOK(b, G, M, n, l), CommitOK(b, G, M, l, a)
    PROVE  LeaderOK(b, G, M, n, r.node) /\ CommitOK(b, G, M, r.node, a \o r.applies)
<1>1. l \in RaftNode /\ l.role = Leader /\ r.node.log = l.log
  BY DEF TryCommitted, NodeTypeOK
<1>2. LeaderOK(b, G, M, n, r.node)
  BY DEF TryCommitted, LeaderOK
<1>3. Agree(l.log, r.node.log, l.commitIndex)
  BY <1>1 DEF CommitOK, Agree
<1>4. ASSUME r.node.commitIndex > l.commitIndex
      PROVE  /\ r.node.commitIndex <= Len(r.node.log)
             /\ ChosenAt(b, G, M, r.node.commitIndex, r.node.log[r.node.commitIndex].term)
  <2>1. r.node.commitIndex \in Committable(n, l)
    BY <1>4 DEF TryCommitted
  <2>2. r.node.commitIndex \in 1..Len(l.log)
        /\ ChosenAt(b, G, M, r.node.commitIndex, l.log[r.node.commitIndex].term)
    BY <1>1, <2>1, CommittableIsChosen
  <2> QED
    BY <1>1, <2>2
<1>5. CommitOK(b, G, M, r.node, a \o r.applies)
  BY <1>1, <1>3, <1>4, CommitNew DEF TryCommitted
<1> QED
  BY <1>2, <1>5

(* A leader counts an acknowledgement of its term.                         *)
AckKind(n, s, r, M) ==
    /\ s.role = Leader
    /\ WritesNothing(r) /\ r.sends = {}
    /\ \E l, q :
          /\ TryCommitted(n, l, r)
          /\ l.currentTerm = s.currentTerm /\ l.log = s.log
          /\ l.commitIndex = s.commitIndex /\ l.lastApplied = s.lastApplied
          /\ q \in M /\ q.type = "AppendEntriesResp" /\ q.success /\ q.term = s.currentTerm
          /\ \A p \in Server :
                \/ l.matchIndex[p] = s.matchIndex[p] /\ l.nextIndex[p] = s.nextIndex[p]
                \/ /\ p = q.from
                   /\ l.matchIndex[p] \in {s.matchIndex[p], q.matchIndex}
                   /\ l.nextIndex[p] = l.matchIndex[p] + 1

LEMMA AckDone ==
    ASSUME NEW n \in Server, NEW s, NodeTypeOK(s), NEW r, ResultTypeOK(r),
           NEW b, NEW G, NEW D, NEW D2, NEW M, NEW M2, NEW a,
           Core(b, G, D, M), \A m \in M : MessageOK(b, G, D, M, m),
           NodeOK(b, G, D, M, n, s, a), Done(n, s, r, D, D2, M, M2),
           AckKind(n, s, r, M)
    PROVE  Kept(n, b, G, D, M, b, G, D2, M2, r.node, a \o r.applies)
<1>1. /\ s \in RaftNode /\ r.node \in RaftNode /\ NodeTypeOK(r.node)
      /\ s.currentTerm \in Nat /\ r.node.currentTerm \in Nat
      /\ s.log \in Seq(Entry) /\ Len(s.log) \in Nat
      /\ \A p \in Server : s.matchIndex[p] \in Nat /\ s.nextIndex[p] \in Nat
  BY LenProperties DEF NodeTypeOK, ResultTypeOK, Result, RaftNode
<1>2. PICK l, q :
        /\ TryCommitted(n, l, r)
        /\ l.currentTerm = s.currentTerm /\ l.log = s.log
        /\ l.commitIndex = s.commitIndex /\ l.lastApplied = s.lastApplied
        /\ q \in M /\ q.type = "AppendEntriesResp" /\ q.success /\ q.term = s.currentTerm
        /\ \A p \in Server :
              \/ l.matchIndex[p] = s.matchIndex[p] /\ l.nextIndex[p] = s.nextIndex[p]
              \/ /\ p = q.from
                 /\ l.matchIndex[p] \in {s.matchIndex[p], q.matchIndex}
                 /\ l.nextIndex[p] = l.matchIndex[p] + 1
  BY DEF AckKind
<1>3. s.role = Leader /\ r.sends = {} /\ NoAcks(r) /\ SendsOK(n, s, r, r.node, M)
  BY DEF AckKind, NoAcks, SendsOK
<1>4. /\ s.log = D[n].log /\ s.currentTerm = D[n].currentTerm /\ M2 = M /\ M \subseteq Message
      /\ D2[n].log = r.node.log /\ D2[n].currentTerm = r.node.currentTerm
      /\ r.node.log = s.log
  BY <1>3 DEF Done, AckKind
<1>5. /\ DiskStep(n, D, D2) /\ M \subseteq M2 /\ SameAcks(M, M2)
      /\ \A m \in M2 : m \in M \/ (m.from = n /\ m.term = D2[n].currentTerm)
  BY <1>3, DoneFacts
<1>6. Steady(n, b, G, D, M, b, G, D2, M2)
  <2>1. AckStep(n, b, G, D2, M, M2)
    BY <1>5 DEF AckStep, SameAcks
  <2>2. LogStep(n, b, G, D, D2)
    BY <1>4 DEF LogStep
  <2> QED
    BY <1>5, <2>1, <2>2, SteadyMerge
<1>7. /\ b[s.currentTerm] = n
      /\ G[s.currentTerm] = s.log
      /\ \A p \in Server :
            /\ s.nextIndex[p] <= Len(s.log) + 1
            /\ s.matchIndex[p] <= Len(s.log)
            /\ s.matchIndex[p] > 0 => AckedIn(M, p, s.matchIndex[p], s.currentTerm)
  BY <1>3 DEF NodeOK, LeaderOK
<1>8. q \in Message /\ q.matchIndex \in Nat /\ q.from \in Server
  <2>1. q \in Message
    BY <1>2, <1>4
  <2> QED
    BY <1>2, <2>1, MessageKinds DEF AppendEntriesResp
<1>9. ASSUME q.matchIndex > 0
      PROVE  AckedIn(M, q.from, q.matchIndex, s.currentTerm) /\ q.matchIndex <= Len(s.log)
  <2>1. AckedIn(M, q.from, q.matchIndex, s.currentTerm)
    BY <1>2, <1>8 DEF AckedIn
  <2>2. q.matchIndex \in Nat \ {0}
    BY <1>8, <1>9
  <2> QED
    BY <1>1, <1>7, <1>8, <2>1, <2>2 DEF Core, AcksHold
<1>10. LeaderOK(b, G, M2, n, l)
  <2>1. ASSUME NEW p \in Server
        PROVE  /\ l.nextIndex[p] <= Len(s.log) + 1
               /\ l.matchIndex[p] <= Len(s.log)
               /\ l.matchIndex[p] > 0 => AckedIn(M, p, l.matchIndex[p], s.currentTerm)
    <3>1. CASE l.matchIndex[p] = s.matchIndex[p] /\ l.nextIndex[p] = s.nextIndex[p]
      BY <1>7, <3>1
    <3>2. CASE /\ p = q.from
               /\ l.matchIndex[p] \in {s.matchIndex[p], q.matchIndex}
               /\ l.nextIndex[p] = l.matchIndex[p] + 1
      <4>1. l.matchIndex[p] \in Nat
        BY <1>1, <1>8, <3>2
      <4>2. /\ l.matchIndex[p] <= Len(s.log)
            /\ l.matchIndex[p] > 0 => AckedIn(M, p, l.matchIndex[p], s.currentTerm)
        <5>1. CASE l.matchIndex[p] = s.matchIndex[p]
          BY <1>7, <5>1
        <5>2. CASE l.matchIndex[p] = q.matchIndex
          BY <1>1, <1>8, <1>9, <3>2, <5>2
        <5> QED
          BY <3>2, <5>1, <5>2
      <4> QED
        BY <1>1, <3>2, <4>1, <4>2
    <3> QED
      BY <1>2, <3>1, <3>2
  <2> QED
    BY <1>2, <1>4, <1>7, <2>1 DEF LeaderOK
<1>11. CommitOK(b, G, M2, l, a)
  BY <1>2, <1>4 DEF NodeOK, CommitOK
<1>12. LeaderOK(b, G, M2, n, r.node) /\ CommitOK(b, G, M2, r.node, a \o r.applies)
  BY <1>2, <1>4, <1>10, <1>11, TryCommittedOK
<1>13. /\ \A m \in M2 : MessageOK(b, G, D2, M2, m)
       /\ NewVotes(n, D, D2, M, M2)
  BY <1>1, <1>3, <1>4, <1>6, <1>12, SentOK
<1>14. CandidateOK(b, G, D2, M2, n, r.node)
  BY <1>2 DEF CandidateOK, Candidate, Leader, TryCommitted
<1> QED
  BY <1>4, <1>6, <1>12, <1>13, <1>14 DEF Kept, NodeOK

(* A leader appends a proposal.                                            *)
ProposeKind(n, s, r) ==
    /\ s.role = Leader
    /\ r.truncate = 0
    /\ \E l, e :
          /\ TryCommitted(n, l, r)
          /\ e \in Entry /\ e.term = s.currentTerm /\ e.index = Len(s.log) + 1
          /\ r.entries = << e >>
          /\ l.currentTerm = s.currentTerm /\ l.log = Append(s.log, e)
          /\ l.commitIndex = s.commitIndex /\ l.lastApplied = s.lastApplied
          /\ l.matchIndex = s.matchIndex /\ l.nextIndex = s.nextIndex
          /\ \A m \in r.sends : \E p \in Peers(n) : m = AppendFor(n, l, p)

LEMMA ProposeDone ==
    ASSUME NEW n \in Server, NEW s, NodeTypeOK(s), NEW r, ResultTypeOK(r),
           NEW b, NEW G, NEW D, NEW D2, NEW M, NEW M2, NEW a,
           Core(b, G, D, M), \A m \in M : MessageOK(b, G, D, M, m),
           NodeOK(b, G, D, M, n, s, a), Done(n, s, r, D, D2, M, M2),
           ProposeKind(n, s, r)
    PROVE  \E G2 : Kept(n, b, G, D, M, b, G2, D2, M2, r.node, a \o r.applies)
<1>1. /\ s \in RaftNode /\ r.node \in RaftNode /\ NodeTypeOK(r.node)
      /\ s.log \in Seq(Entry) /\ Len(s.log) \in Nat /\ s.commitIndex \in Nat
  BY LenProperties DEF NodeTypeOK, ResultTypeOK, Result, RaftNode
<1>2. PICK l, e :
        /\ TryCommitted(n, l, r)
        /\ e \in Entry /\ e.term = s.currentTerm /\ e.index = Len(s.log) + 1
        /\ l.currentTerm = s.currentTerm /\ l.log = Append(s.log, e)
        /\ l.commitIndex = s.commitIndex /\ l.lastApplied = s.lastApplied
        /\ l.matchIndex = s.matchIndex /\ l.nextIndex = s.nextIndex
        /\ \A m \in r.sends : \E p \in Peers(n) : m = AppendFor(n, l, p)
  BY DEF ProposeKind
<1>3. s.role = Leader /\ r.node.log = l.log /\ r.node.currentTerm = s.currentTerm
      /\ NodeTypeOK(l) /\ l \in RaftNode /\ l.role = Leader /\ r.node.role = Leader
  BY <1>2 DEF ProposeKind, TryCommitted, NodeTypeOK
<1>4. /\ s.log = D[n].log /\ s.currentTerm = D[n].currentTerm /\ M2 \subseteq Message
      /\ D2[n].log = r.node.log /\ D2[n].currentTerm = r.node.currentTerm
  BY DEF Done
<1>5. NoAcks(r) /\ SendsOK(n, s, r, l, M)
  <2>1. \A m \in r.sends : m.type = "AppendEntries" /\ m.to # n
    BY <1>2, AppendForVote DEF AppendFor, Peers
  <2> QED
    BY <1>2, <2>1 DEF NoAcks, SendsOK
<1>6. /\ DiskStep(n, D, D2) /\ M \subseteq M2 /\ SameAcks(M, M2)
      /\ \A m \in M2 : m \in M \/ (m.from = n /\ m.term = D2[n].currentTerm)
  BY <1>5, DoneFacts
<1>7. PICK t \in Nat : t = s.currentTerm
  BY <1>1 DEF RaftNode
<1>8. /\ b[t] = n
      /\ G[t] = s.log
      /\ \A p \in Server :
            /\ s.nextIndex[p] <= Len(s.log) + 1
            /\ s.matchIndex[p] <= Len(s.log)
            /\ s.matchIndex[p] > 0 => AckedIn(M, p, s.matchIndex[p], t)
  BY <1>3, <1>7 DEF NodeOK, LeaderOK
<1>9. PICK G2 : G2 = [G EXCEPT ![t] = D2[n].log]
  OBVIOUS
<1>10. GrowStep(n, t, e, b, G, D, G2, D2)
  BY <1>2, <1>3, <1>4, <1>7, <1>8, <1>9 DEF GrowStep
<1>11. Steady(n, b, G, D, M, b, G2, D2, M2) /\ G2[t] = D2[n].log
  BY <1>6, <1>10, SteadyGrow
<1>12. l.log \in Seq(Entry) /\ Len(l.log) = Len(s.log) + 1
       /\ \A j \in 1..Len(s.log) : l.log[j] = s.log[j]
  BY <1>1, <1>2, AppendProperties
<1>13. LeaderOK(b, G2, M2, n, l)
  <2>1. \A p \in Server : l.nextIndex[p] \in Nat /\ l.matchIndex[p] \in Nat
    BY <1>3 DEF RaftNode
  <2>2. ASSUME NEW p \in Server
        PROVE  /\ l.nextIndex[p] <= Len(l.log) + 1
               /\ l.matchIndex[p] <= Len(l.log)
               /\ l.matchIndex[p] > 0 => AckedIn(M2, p, l.matchIndex[p], t)
    <3>1. l.nextIndex[p] <= Len(s.log) + 1 /\ l.matchIndex[p] <= Len(s.log)
      BY <1>2, <1>8
    <3>2. l.matchIndex[p] > 0 => AckedIn(M2, p, l.matchIndex[p], t)
      BY <1>2, <1>6, <1>8 DEF AckedIn
    <3> QED
      BY <1>1, <1>12, <2>1, <3>1, <3>2
  <2> QED
    BY <1>2, <1>3, <1>4, <1>7, <1>8, <1>11, <2>2 DEF LeaderOK
<1>14. CommitOK(b, G2, M2, l, a)
  <2>1. CommitOK(b, G, M, s, a) /\ CommitOK(b, G2, M2, s, a)
    BY <1>1, <1>11, CommitStable DEF NodeOK
  <2>2. s.commitIndex <= Len(s.log)
    BY <2>1 DEF CommitOK
  <2>3. Agree(s.log, l.log, s.commitIndex)
    BY <1>1, <1>12, <2>2 DEF Agree
  <2> DEFINE q == Quiet(l)
  <2>4. ResultTypeOK(q) /\ q.node = l /\ q.applies = << >>
    BY <1>3, QuietType DEF Quiet
  <2> HIDE DEF q
  <2>5. Applies(s, q)
    BY <1>2, <2>4 DEF Applies
  <2>6. ~(q.node.commitIndex > s.commitIndex)
    BY <1>1, <1>2, <2>4
  <2>7. CommitOK(b, G2, M2, q.node, a \o q.applies)
    BY <1>1, <2>1, <2>3, <2>4, <2>5, <2>6, CommitNew
  <2>8. a \in Seq(Entry)
    <3>1. a = SubSeq(s.log, 1, s.commitIndex)
      BY <2>1 DEF CommitOK
    <3> QED
      BY <1>1, <2>2, <3>1, SubSeqType
  <2> QED
    BY <2>4, <2>7, <2>8, ConcatEmptySeq
<1>15. LeaderOK(b, G2, M2, n, r.node) /\ CommitOK(b, G2, M2, r.node, a \o r.applies)
  BY <1>2, <1>4, <1>13, <1>14, TryCommittedOK
<1>16. /\ \A m \in M2 : MessageOK(b, G2, D2, M2, m)
       /\ NewVotes(n, D, D2, M, M2)
  BY <1>2, <1>3, <1>4, <1>5, <1>11, <1>13, <1>14, SentOK
<1>17. CandidateOK(b, G2, D2, M2, n, r.node)
  BY <1>3 DEF CandidateOK, Candidate, Leader
<1>18. Kept(n, b, G, D, M, b, G2, D2, M2, r.node, a \o r.applies)
  BY <1>4, <1>11, <1>15, <1>16, <1>17 DEF Kept, NodeOK
<1> QED
  BY <1>18

(* A server accepts m: it merges the entries into its log, follows the     *)
(* commit news and acknowledges.  f is the result before the merge.        *)
FollowedCommit(s, r, m) ==
    IF m.leaderCommit > s.commitIndex
    THEN /\ r.node.commitIndex = MinOf({m.leaderCommit, LastIndex(r.node.log)})
         /\ r.node.lastApplied = Advanced(s.lastApplied, r.node.commitIndex)
         /\ r.applies = SubSeq(r.node.log, s.lastApplied + 1, r.node.commitIndex)
    ELSE /\ r.node.commitIndex = s.commitIndex
         /\ r.node.lastApplied = s.lastApplied
         /\ r.applies = << >>

AcceptKind(n, s, r, m) ==
    /\ m \in AppendEntriesReq /\ m.to = n
    /\ r.node.currentTerm = m.term
    /\ HoldsPrev(s.log, m)
    /\ r.node.role # Candidate
    /\ r.node.role = Leader => s.role = Leader /\ m.term = s.currentTerm
    /\ \A x \in r.sends :
          /\ x.type = "AppendEntriesResp" /\ x.to # n
          /\ x.matchIndex = m.prevLogIndex + Len(m.entries)
    /\ \E f : /\ ResultTypeOK(f) /\ WritesNothing(f) /\ f.node.log = s.log
              /\ r.node.log = MergeEntries(f, m).node.log
              /\ r.entries  = MergeEntries(f, m).entries
              /\ r.truncate = MergeEntries(f, m).truncate
    /\ FollowedCommit(s, r, m)

(* What accepting m does to the log and asks of the disk.                  *)
LEMMA AcceptLog ==
    ASSUME NEW n \in Server, NEW s, NodeTypeOK(s), NEW r, ResultTypeOK(r), NEW m,
           NEW b, NEW G, NEW D, NEW M, Core(b, G, D, M), MessageOK(b, G, D, M, m),
           s.log = D[n].log, AcceptKind(n, s, r, m)
    PROVE  /\ Agree(r.node.log, G[m.term], m.prevLogIndex + Len(m.entries))
           /\ \/ WritesNothing(r) /\ r.node.log = s.log
              \/ \E i : /\ CutsIn(s.log, G[m.term], i, r.entries)
                        /\ WritesAt(r, s.log, i)
                        /\ r.node.log = Spliced(s.log, i, r.entries, Len(r.entries))
<1>1. PICK f : /\ ResultTypeOK(f) /\ WritesNothing(f) /\ f.node.log = s.log
               /\ r.node.log = MergeEntries(f, m).node.log
               /\ r.entries  = MergeEntries(f, m).entries
               /\ r.truncate = MergeEntries(f, m).truncate
  BY DEF AcceptKind
<1>2. m \in AppendEntriesReq /\ m.term \in Nat /\ m.type = "AppendEntries" /\ HoldsPrev(s.log, m)
  BY DEF AcceptKind, AppendEntriesReq
<1>3. PICK g : g = G[m.term]
  OBVIOUS
<1>4. History(b, G) /\ LeaderLogs(b, G) /\ DiskLogs(b, G, D)
  BY DEF Core
<1>5. g \in Seq(Entry) /\ Rooted(b, G, g, m.term) /\ Numbered(g)
  BY <1>2, <1>3, <1>4 DEF History, LeaderLogs, Numbered
<1>6. RunOf(m, g)
  BY <1>2, <1>3 DEF MessageOK
<1>7. Rooted(b, G, f.node.log, D[n].currentTerm) /\ HoldsPrev(f.node.log, m)
  BY <1>1, <1>2, <1>4 DEF DiskLogs
<1>8. LET e == MergeEntries(f, m)
          len == m.prevLogIndex + Len(m.entries)
      IN  /\ Agree(e.node.log, g, len)
          /\ \/ e = f
             \/ \E i : /\ CutsIn(f.node.log, g, i, e.entries)
                       /\ WritesAt(e, f.node.log, i)
                       /\ e.node.log = Spliced(f.node.log, i, e.entries, Len(e.entries))
  BY <1>1, <1>2, <1>4, <1>5, <1>6, <1>7, MergeEntriesLog
<1>9. PICK e : e = MergeEntries(f, m)
  OBVIOUS
<1>10. Agree(r.node.log, g, m.prevLogIndex + Len(m.entries))
  BY <1>1, <1>8
<1>11. CASE e = f
  BY <1>1, <1>3, <1>9, <1>10, <1>11 DEF WritesNothing
<1>12. ASSUME NEW i, CutsIn(f.node.log, g, i, e.entries), WritesAt(e, f.node.log, i),
              e.node.log = Spliced(f.node.log, i, e.entries, Len(e.entries))
       PROVE  /\ CutsIn(s.log, g, i, r.entries)
              /\ WritesAt(r, s.log, i)
              /\ r.node.log = Spliced(s.log, i, r.entries, Len(r.entries))
  BY <1>1, <1>9, <1>12 DEF WritesAt
<1> QED
  BY <1>3, <1>8, <1>9, <1>10, <1>11, <1>12

(* The log of the leader of a term not before its own has everything that  *)
(* a server has applied: accepting m cuts off no committed entry.          *)
LEMMA CommittedInLeader ==
    ASSUME NEW n \in Server, NEW s \in RaftNode, NEW b, NEW G, NEW D, NEW M, NEW a,
           Core(b, G, D, M), D \in [Server -> HardState], s.log = D[n].log,
           CommitOK(b, G, M, s, a), NEW u \in Nat, u >= D[n].currentTerm, b[u] # Nil
    PROVE  Agree(s.log, G[u], s.commitIndex)
<1>1. s.log \in Seq(Entry) /\ Len(s.log) \in Nat /\ s.commitIndex \in Nat
      /\ D[n].currentTerm \in Nat
  BY LenProperties DEF RaftNode, HardState
<1>2. G[u] \in Seq(Entry) /\ Len(G[u]) \in Nat
  BY LenProperties DEF Core, History
<1>3. CASE s.commitIndex = 0
  BY <1>1, <1>2, <1>3 DEF Agree
<1>4. CASE s.commitIndex # 0
  <2>1. s.commitIndex \in 1..Len(s.log) /\ s.commitIndex > 0
    BY <1>1, <1>4 DEF CommitOK
  <2>2. ChosenAt(b, G, M, s.commitIndex, s.log[s.commitIndex].term)
    BY <2>1 DEF CommitOK
  <2>3. Rooted(b, G, s.log, D[n].currentTerm)
    BY DEF Core, DiskLogs
  <2>4. s.log[s.commitIndex].term <= D[n].currentTerm /\ s.log[s.commitIndex].term \in Nat
    BY <1>1, <2>1, <2>3, EntryTerm DEF Rooted
  <2>5. s.log[s.commitIndex].term <= u
    BY <1>1, <2>4
  <2> QED
    BY <1>1, <2>1, <2>2, <2>3, <2>5, ChosenInLeader
<1> QED
  BY <1>3, <1>4

LEMMA AcceptDone ==
    ASSUME NEW n \in Server, NEW s, NodeTypeOK(s), NEW r, ResultTypeOK(r), NEW m,
           NEW b, NEW G, NEW D, NEW D2, NEW M, NEW M2, NEW a,
           Core(b, G, D, M), \A x \in M : MessageOK(b, G, D, M, x), m \in M,
           NodeOK(b, G, D, M, n, s, a), Done(n, s, r, D, D2, M, M2),
           AcceptKind(n, s, r, m)
    PROVE  Kept(n, b, G, D, M, b, G, D2, M2, r.node, a \o r.applies)
<1>1. /\ s \in RaftNode /\ r.node \in RaftNode /\ NodeTypeOK(r.node)
      /\ s.log \in Seq(Entry) /\ Len(s.log) \in Nat
      /\ r.node.log \in Seq(Entry) /\ Len(r.node.log) \in Nat
      /\ s.commitIndex \in Nat
  BY LenProperties DEF NodeTypeOK, ResultTypeOK, Result, RaftNode
<1>2. /\ s.log = D[n].log /\ s.currentTerm = D[n].currentTerm
      /\ M2 \subseteq M \cup r.sends /\ M2 \subseteq Message
      /\ D2[n].log = r.node.log /\ D2[n].currentTerm = r.node.currentTerm
      /\ r.node.currentTerm >= s.currentTerm
  BY DEF Done, VoteResult
<1>3. /\ DiskStep(n, D, D2) /\ M \subseteq M2
      /\ \A x \in M2 : x \in M \/ (x.from = n /\ x.term = D2[n].currentTerm)
  BY DoneFacts
<1>4. /\ m \in AppendEntriesReq /\ m.to = n /\ r.node.currentTerm = m.term
      /\ r.node.role # Candidate
      /\ r.node.role = Leader => s.role = Leader /\ m.term = s.currentTerm
      /\ \A x \in r.sends :
            /\ x.type = "AppendEntriesResp" /\ x.to # n
            /\ x.matchIndex = m.prevLogIndex + Len(m.entries)
      /\ FollowedCommit(s, r, m)
  BY DEF AcceptKind
<1>5. /\ m.term \in Nat /\ m.type = "AppendEntries" /\ m.from \in Server
      /\ m.leaderCommit \in Nat /\ m.prevLogIndex \in Nat /\ Len(m.entries) \in Nat
  BY <1>4, LenProperties DEF AppendEntriesReq
<1>6. PICK u \in Nat : u = m.term
  BY <1>5
<1>7. PICK len \in Nat : len = m.prevLogIndex + Len(m.entries)
  BY <1>5
<1>8. /\ b[u] = m.from /\ b[u] # n /\ b[u] # Nil
      /\ m.leaderCommit <= len
      /\ m.leaderCommit > 0 => ChosenAt(b, G, M, m.leaderCommit, G[u][m.leaderCommit].term)
  <2>1. MessageOK(b, G, D, M, m)
    OBVIOUS
  <2> QED
    BY <1>4, <1>5, <1>6, <1>7, <2>1, ServerAssumption DEF MessageOK
<1>9. /\ Agree(r.node.log, G[u], len)
      /\ \/ WritesNothing(r) /\ r.node.log = s.log
         \/ \E i : /\ CutsIn(s.log, G[u], i, r.entries)
                   /\ r.node.log = Spliced(s.log, i, r.entries, Len(r.entries))
  BY <1>2, <1>6, <1>7, AcceptLog
<1>10. G[u] \in Seq(Entry) /\ Len(G[u]) \in Nat
  BY LenProperties DEF Core, History
<1>11. r.node.log = s.log \/ Merged(s.log, G[u], r.node.log)
  <2>1. ASSUME NEW i, CutsIn(s.log, G[u], i, r.entries),
               r.node.log = Spliced(s.log, i, r.entries, Len(r.entries))
        PROVE  Merged(s.log, G[u], r.node.log)
    <3>1. Len(r.entries) \in 0..Len(r.entries)
      BY LenProperties DEF ResultTypeOK, Result
    <3> QED
      BY <1>1, <1>10, <2>1, <3>1, SplicedMerged
  <2> QED
    BY <1>9, <2>1
<1>12. Steady(n, b, G, D, M, b, G, D2, M2)
  <2>1. LogStep(n, b, G, D, D2)
    BY <1>2, <1>4, <1>6, <1>8, <1>11 DEF LogStep
  <2>2. AckStep(n, b, G, D2, M, M2)
    <3>1. ASSUME NEW v \in Server, NEW t \in Nat, NEW i \in Nat \ {0},
                 AckedIn(M2, v, i, t), ~AckedIn(M, v, i, t)
          PROVE  /\ v = n /\ t = D2[n].currentTerm
                 /\ b[t] \notin {Nil, n}
                 /\ Agree(D2[n].log, G[t], i)
      <4>1. PICK x \in M2 : x \notin M /\ x.from = v /\ x.term = t /\ x.matchIndex >= i
        BY <3>1 DEF AckedIn
      <4>2. x \in r.sends
        BY <1>2, <4>1
      <4>3. v = n /\ t = u /\ t = D2[n].currentTerm /\ len >= i
        BY <1>2, <1>3, <1>4, <1>6, <1>7, <4>1, <4>2
      <4>4. i \in 0..len
        BY <4>3
      <4>5. Agree(r.node.log, G[u], i)
        BY <1>1, <1>9, <1>10, <4>4, AgreeFacts
      <4> QED
        BY <1>2, <1>8, <4>3, <4>5
    <3>2. \A v \in Server, t \in Nat, i \in Nat \ {0} :
             AckedIn(M, v, i, t) => AckedIn(M2, v, i, t)
      BY <1>3 DEF AckedIn
    <3> QED
      BY <3>1, <3>2 DEF AckStep
  <2> QED
    BY <1>3, <2>1, <2>2, SteadyMerge
<1>13. r.node.role # Leader
  <2>1. s.role = Leader => b[s.currentTerm] = n
    BY DEF NodeOK, LeaderOK
  <2> QED
    BY <1>4, <1>6, <1>8, <2>1
<1>14. LeaderOK(b, G, M2, n, r.node) /\ CandidateOK(b, G, D2, M2, n, r.node)
  BY <1>4, <1>13 DEF LeaderOK, CandidateOK
<1>15. Agree(s.log, r.node.log, s.commitIndex)
  <2>1. CASE r.node.log = s.log
    BY <2>1 DEF NodeOK, CommitOK, Agree
  <2>2. CASE Merged(s.log, G[u], r.node.log)
    <3>1. Agree(s.log, G[u], s.commitIndex)
      <4>1. D \in [Server -> HardState] /\ u >= D[n].currentTerm
        BY <1>2, <1>3, <1>4, <1>6 DEF DiskStep
      <4> QED
        BY <1>1, <1>2, <1>8, <4>1, CommittedInLeader DEF NodeOK
    <3>2. Agree(r.node.log, G[u], s.commitIndex)
      BY <1>1, <2>2, <3>1 DEF Merged
    <3> QED
      BY <1>1, <1>10, <3>1, <3>2, AgreeFacts
  <2> QED
    BY <1>11, <2>1, <2>2
<1>16. CommitOK(b, G, M2, r.node, a \o r.applies)
  <2>1. CommitOK(b, G, M, s, a) /\ CommitOK(b, G, M2, s, a)
    BY <1>1, <1>12, CommitStable DEF NodeOK
  <2>2. CASE m.leaderCommit > s.commitIndex
    <3>1. PICK c \in Nat \ {0} : c = m.leaderCommit
      BY <1>1, <1>5, <2>2
    <3>2. len <= Len(r.node.log) /\ c <= len
      BY <1>8, <1>9, <3>1 DEF Agree
    <3>3. c <= Len(r.node.log)
      BY <1>1, <3>2
    <3>4. MinOf({c, Len(r.node.log)}) = c
      <4> DEFINE P == {c, Len(r.node.log)}
      <4>1. P \in SUBSET Nat /\ P # {}
        BY <1>1
      <4>2. MinOf(P) \in P /\ \A z \in P : MinOf(P) <= z
        BY <4>1, MinOfNat
      <4>3. MinOf(P) <= c /\ MinOf(P) \in {c, Len(r.node.log)}
        BY <4>2
      <4> HIDE DEF P
      <4>4. MinOf(P) = c
        BY <1>1, <3>3, <4>3
      <4> QED
        BY <4>4 DEF P
    <3>5. /\ r.node.commitIndex = c /\ r.node.lastApplied = Advanced(s.lastApplied, c)
          /\ r.applies = SubSeq(r.node.log, s.lastApplied + 1, c)
      BY <1>4, <2>2, <3>1, <3>4 DEF FollowedCommit, LastIndex
    <3>6. Applies(s, r)
      BY <2>2, <3>1, <3>5 DEF Applies
    <3>7. c \in 1..len /\ c > 0
      BY <3>2
    <3>8. c \in 1..Len(G[u]) /\ r.node.log[c] = G[u][c]
      BY <1>1, <1>9, <1>10, <3>7, AgreeFacts
    <3>9. G[u][c].term \in Nat
      BY <1>10, <3>8, EntryTerm
    <3>10. ChosenAt(b, G, M2, c, G[u][c].term)
      BY <1>8, <1>12, <3>1, <3>7, <3>9, ChosenStable
    <3> QED
      BY <1>1, <1>15, <2>1, <3>3, <3>5, <3>6, <3>8, <3>10, CommitNew
  <2>3. CASE ~(m.leaderCommit > s.commitIndex)
    <3>1. r.node.commitIndex = s.commitIndex /\ Applies(s, r)
      BY <1>4, <2>3 DEF FollowedCommit, Applies
    <3>2. ~(r.node.commitIndex > s.commitIndex)
      BY <1>1, <3>1
    <3> QED
      BY <1>1, <1>15, <2>1, <3>1, <3>2, CommitNew
  <2> QED
    BY <2>2, <2>3
<1>17. SendsOK(n, s, r, r.node, M)
  BY <1>4 DEF SendsOK
<1>18. /\ \A x \in M2 : MessageOK(b, G, D2, M2, x)
       /\ NewVotes(n, D, D2, M, M2)
  BY <1>1, <1>12, <1>13, <1>17, SentOK
<1> QED
  BY <1>2, <1>12, <1>14, <1>16, <1>18 DEF Kept, NodeOK

-----------------------------------------------------------------------------
(* The handlers, each of one of the five kinds.                            *)

Demoted(s, r, t) ==
    /\ KeepsLog(s, r) /\ r.sends = {}
    /\ \/ r.node = s /\ t <= s.currentTerm
       \/ r.node.role = Follower /\ r.node.currentTerm = t /\ t > s.currentTerm

LEMMA StepDownLog ==
    ASSUME NEW s, NodeTypeOK(s), NEW t \in Nat
    PROVE  Demoted(s, MaybeStepDown(s, t), t)
<1> DEFINE r == MaybeStepDown(s, t)
<1>1. s \in RaftNode /\ s.currentTerm \in Nat
  BY DEF NodeTypeOK, RaftNode
<1>2. CASE t <= s.currentTerm
  <2>1. /\ r.node = s /\ r.sends = {} /\ r.truncate = 0 /\ r.entries = << >>
        /\ r.applies = << >>
    BY <1>2 DEF MaybeStepDown, Quiet
  <2> HIDE DEF r
  <2>2. Demoted(s, r, t)
    BY <1>2, <2>1 DEF Demoted, KeepsLog, WritesNothing
  <2> QED
    BY <2>2 DEF r
<1>3. CASE t > s.currentTerm
  <2>1. ~(t <= s.currentTerm)
    BY <1>1, <1>3
  <2>2. /\ r.node.currentTerm = t /\ r.node.role = Follower /\ r.node.log = s.log
        /\ r.node.commitIndex = s.commitIndex /\ r.node.lastApplied = s.lastApplied
        /\ r.sends = {} /\ r.truncate = 0 /\ r.entries = << >> /\ r.applies = << >>
    BY <1>1, <2>1 DEF MaybeStepDown, Quiet, RaftNode
  <2> HIDE DEF r
  <2>3. Demoted(s, r, t)
    BY <1>3, <2>2 DEF Demoted, KeepsLog, WritesNothing
  <2> QED
    BY <2>3 DEF r
<1> QED
  BY <1>1, <1>2, <1>3

(* A server that has stepped down or not, and answers.                     *)
LEMMA DemotedQuiet ==
    ASSUME NEW n \in Server, NEW s, NodeTypeOK(s), NEW t \in Nat, NEW q, Demoted(s, q, t),
           NEW r, NEW M, KeepsLog(s, r), NoAcks(r), SendsOK(n, s, r, r.node, M),
           r.node.currentTerm = q.node.currentTerm,
           r.node.role \in {q.node.role, Follower},
           r.node.role = Leader =>
              r.node.nextIndex = q.node.nextIndex /\ r.node.matchIndex = q.node.matchIndex
    PROVE  QuietKind(n, s, r, M)
<1>1. s.currentTerm \in Nat /\ \A p \in Server : s.nextIndex[p] \in Nat
  BY DEF NodeTypeOK, RaftNode
<1>2. r.node.role = Leader =>
         /\ s.role = Leader /\ r.node.currentTerm = s.currentTerm
         /\ r.node.matchIndex = s.matchIndex
         /\ \A p \in Server : r.node.nextIndex[p] <= s.nextIndex[p]
  BY <1>1 DEF Demoted, Follower, Leader
<1>3. r.node.role = Candidate => s.role = Candidate /\ r.node.currentTerm = s.currentTerm
  BY DEF Demoted, Follower, Candidate
<1> QED
  BY <1>2, <1>3 DEF QuietKind

LEMMA OnRequestVoteKind ==
    ASSUME NEW n \in Server, NEW s, NodeTypeOK(s), NEW M, NEW m \in RequestVoteReq,
           m \in M, m.from # n
    PROVE  QuietKind(n, s, OnRequestVote(n, s, m), M)
<1> DEFINE r == MaybeStepDown(s, m.term)
           grant == Grants(r.node, m)
           v == IF grant THEN m.from ELSE r.node.votedFor
           p == r.persist \/ grant
           ms == {[type |-> "RequestVoteResp", from |-> n, to |-> m.from,
                   term |-> r.node.currentTerm, voteGranted |-> grant]}
           q == [r EXCEPT !.node.votedFor = v, !.persist = p, !.sends = ms]
<1>1. m.term \in Nat /\ m.type = "RequestVote"
  BY DEF RequestVoteReq
<1>2. ResultTypeOK(r) /\ Demoted(s, r, m.term)
  BY <1>1, StepDownType, StepDownLog
<1> HIDE DEF r
<1>3. grant \in BOOLEAN
  BY DEF Grants
<1>4. grant => m.term = r.node.currentTerm /\ LogUpToDate(m, r.node.log)
  BY DEF Grants
<1>5. \A x \in ms : /\ x.type = "RequestVoteResp" /\ x.to = m.from
                    /\ x.term = r.node.currentTerm
                    /\ x.voteGranted => grant
  BY <1>3
<1> HIDE DEF grant, v, p, ms
<1>6. /\ q.node.currentTerm = r.node.currentTerm /\ q.node.role = r.node.role
      /\ q.node.log = r.node.log /\ q.node.commitIndex = r.node.commitIndex
      /\ q.node.lastApplied = r.node.lastApplied
      /\ q.node.nextIndex = r.node.nextIndex /\ q.node.matchIndex = r.node.matchIndex
      /\ q.truncate = r.truncate /\ q.entries = r.entries /\ q.applies = r.applies
      /\ q.sends = ms
  BY <1>2 DEF ResultTypeOK, Result, RaftNode
<1>7. OnRequestVote(n, s, m) = q
  BY DEF OnRequestVote, r, grant, v, p, ms
<1> HIDE DEF q
<1>8. KeepsLog(s, q)
  BY <1>2, <1>6 DEF KeepsLog, WritesNothing, Demoted
<1>9. NoAcks(q)
  BY <1>5, <1>6 DEF NoAcks
<1>10. grant => LastAtLeast(m.lastLogIndex, m.lastLogTerm, s.log)
  BY <1>2, <1>4 DEF LogUpToDate, LastAtLeast, Demoted, KeepsLog
<1>11. SendsOK(n, s, q, q.node, M)
  BY <1>1, <1>4, <1>5, <1>6, <1>8, <1>10 DEF SendsOK, KeepsLog
<1> QED
  BY <1>1, <1>2, <1>6, <1>7, <1>8, <1>9, <1>11, DemotedQuiet

(* The votes a candidate counts were cast before, or are its own.          *)
CountsVotes(n, s, r, M) ==
    r.node.role = Candidate =>
        \A v \in r.node.votes :
            \/ v = n
            \/ /\ s.role = Candidate /\ s.currentTerm = r.node.currentTerm
               /\ \E m \in M : /\ m.type = "RequestVoteResp" /\ m.voteGranted
                               /\ m.from = v /\ m.to = n /\ m.term = r.node.currentTerm

LEMMA TryWinKind ==
    ASSUME NEW n \in Server, NEW s, NodeTypeOK(s), NEW r, ResultTypeOK(r),
           VoteResult(n, s, r), NEW M, QuietKind(n, s, r, M), CountsVotes(n, s, r, M)
    PROVE  QuietKind(n, s, TryWin(n, r), M) \/ WonKind(n, s, TryWin(n, r), M)
<1>1. CASE r.node.role = Candidate /\ Cardinality(r.node.votes) >= Majority
  <2> DEFINE l == BecomeLeader(n, r.node)
             b == r.sends \cup BroadcastAppend(n, l)
             q == [r EXCEPT !.node = l, !.sends = b]
  <2>1. /\ l.role = Leader /\ l.currentTerm = r.node.currentTerm /\ l.log = r.node.log
        /\ l.commitIndex = r.node.commitIndex /\ l.lastApplied = r.node.lastApplied
        /\ l.nextIndex = [p \in Server |-> LastIndex(r.node.log) + 1]
        /\ l.matchIndex = [p \in Server |-> 0]
    BY DEF BecomeLeader, ResultTypeOK, Result, RaftNode, NoIndex
  <2>2. \A x \in BroadcastAppend(n, l) :
           /\ x.type = "AppendEntries" /\ x.to # n
           /\ \E p \in Peers(n) : x = AppendFor(n, l, p)
    BY AppendForVote DEF BroadcastAppend, AppendFor, Peers
  <2>3. /\ q.node = l /\ q.sends = b /\ q.truncate = r.truncate /\ q.entries = r.entries
        /\ q.applies = r.applies
    BY DEF ResultTypeOK, Result
  <2>4. TryWin(n, r) = q
    BY <1>1 DEF TryWin
  <2>5. \A x \in r.sends : x.type # "AppendEntries"
    BY <1>1 DEF VoteResult, Candidate, Leader
  <2>6. r.node.votes \in SUBSET Server
    BY DEF ResultTypeOK, Result, RaftNode
  <2>7. VotedFor(n, r.node.currentTerm, s, M)
    BY <1>1, <2>6 DEF VotedFor, CountsVotes
  <2>8. KeepsLog(s, r) /\ NoAcks(r) /\ SendsOK(n, s, r, r.node, M)
    BY DEF QuietKind
  <2> HIDE DEF l, q
  <2>9. KeepsLog(s, q)
    BY <2>1, <2>3, <2>8 DEF KeepsLog, WritesNothing
  <2>10. NoAcks(q)
    BY <2>2, <2>3, <2>8 DEF NoAcks
  <2>11. SendsOK(n, s, q, q.node, M)
    <3>1. ASSUME NEW x \in r.sends
          PROVE  /\ x.to # n /\ x.type # "AppendEntries"
                 /\ x.type = "RequestVote" =>
                       /\ q.node.currentTerm > s.currentTerm
                       /\ x.lastLogIndex = LastIndex(s.log) /\ x.lastLogTerm = LastTerm(s.log)
                 /\ x.type = "RequestVoteResp" /\ x.voteGranted =>
                       /\ WritesNothing(q)
                       /\ \E y \in M : /\ y.type = "RequestVote" /\ y.from = x.to /\ y.term = x.term
                                       /\ LastAtLeast(y.lastLogIndex, y.lastLogTerm, s.log)
      BY <2>1, <2>3, <2>5, <2>8, <2>9, <3>1 DEF SendsOK, KeepsLog
    <3> QED
      BY <2>2, <2>3, <3>1 DEF SendsOK
  <2>12. \A p \in Server : q.node.nextIndex[p] = Len(s.log) + 1 /\ q.node.matchIndex[p] = 0
    BY <2>1, <2>3, <2>8 DEF KeepsLog, LastIndex
  <2>13. \/ s.role = Candidate /\ q.node.currentTerm = s.currentTerm
         \/ q.node.currentTerm > s.currentTerm
    BY <1>1, <2>1, <2>3 DEF QuietKind
  <2>14. q.node.role = Leader /\ VotedFor(n, q.node.currentTerm, s, M)
    BY <2>1, <2>3, <2>7
  <2> QED
    BY <2>4, <2>9, <2>10, <2>11, <2>12, <2>13, <2>14 DEF WonKind
<1>2. CASE ~(r.node.role = Candidate /\ Cardinality(r.node.votes) >= Majority)
  BY <1>2 DEF TryWin
<1> QED
  BY <1>1, <1>2

LEMMA StartElectionKind ==
    ASSUME NEW n \in Server, NEW s, NodeTypeOK(s), NEW M
    PROVE  \/ QuietKind(n, s, StartElection(n, s), M)
           \/ WonKind(n, s, StartElection(n, s), M)
<1> DEFINE t == s.currentTerm + 1
           c == [s EXCEPT !.currentTerm = t, !.votedFor = n,
                          !.role = Candidate, !.votes = {n}, !.leaderHint = Nil]
           ms == {[type |-> "RequestVote", from |-> n, to |-> p,
                   term |-> c.currentTerm, lastLogIndex |-> LastIndex(c.log),
                   lastLogTerm |-> LastTerm(c.log)] : p \in Peers(n)}
           r == [Quiet(c) EXCEPT !.persist = TRUE, !.sends = ms]
<1>1. s \in RaftNode /\ s.currentTerm \in Nat /\ t \in Nat /\ t > s.currentTerm
  BY DEF NodeTypeOK, RaftNode
<1> HIDE DEF t
<1>2. /\ c \in RaftNode /\ c.role = Candidate /\ c.currentTerm = t /\ c.votedFor = n
      /\ c.votes = {n} /\ c.log = s.log
      /\ c.commitIndex = s.commitIndex /\ c.lastApplied = s.lastApplied
  BY <1>1 DEF RaftNode, Candidate
<1> HIDE DEF c
<1>3. NodeTypeOK(c)
  BY <1>2 DEF NodeTypeOK, Candidate, Leader
<1>4. LastIndex(c.log) \in Nat /\ LastTerm(c.log) \in Nat
  BY <1>2, LenProperties, LastTermType DEF LastIndex, RaftNode
<1>5. ms \in SUBSET Message
  BY <1>1, <1>2, <1>4 DEF Message, RequestVoteReq, Peers
<1>6. \A x \in ms : /\ x.from = n /\ x.to # n /\ x.term = t /\ x.type = "RequestVote"
                    /\ x.lastLogIndex = LastIndex(s.log) /\ x.lastLogTerm = LastTerm(s.log)
  BY <1>2 DEF Peers
<1> HIDE DEF ms
<1>7. /\ r.node = c /\ r.sends = ms /\ r.persist = TRUE
      /\ r.truncate = 0 /\ r.entries = << >> /\ r.applies = << >>
  BY DEF Quiet
<1>8. ResultTypeOK(r)
  BY <1>3, <1>5, QuietType DEF ResultTypeOK, Result, Quiet
<1>9. StartElection(n, s) = TryWin(n, r)
  BY DEF StartElection, t, c, ms
<1> HIDE DEF r
<1>10. VoteResult(n, s, r)
  BY <1>1, <1>2, <1>6, <1>7 DEF VoteResult
<1>11. KeepsLog(s, r)
  BY <1>2, <1>7 DEF KeepsLog, WritesNothing
<1>12. NoAcks(r) /\ SendsOK(n, s, r, r.node, M)
  BY <1>1, <1>2, <1>6, <1>7 DEF NoAcks, SendsOK
<1>13. QuietKind(n, s, r, M)
  BY <1>1, <1>2, <1>7, <1>11, <1>12 DEF QuietKind, Candidate, Leader
<1>14. CountsVotes(n, s, r, M)
  BY <1>2, <1>7 DEF CountsVotes
<1> QED
  BY <1>8, <1>9, <1>10, <1>13, <1>14, TryWinKind

LEMMA OnRequestVoteRespKind ==
    ASSUME NEW n \in Server, NEW s, NodeTypeOK(s), NEW M, Backed(M, n, s),
           NEW m \in RequestVoteResp, m \in M, m.to = n
    PROVE  \/ QuietKind(n, s, OnRequestVoteResp(n, s, m), M)
           \/ WonKind(n, s, OnRequestVoteResp(n, s, m), M)
<1> DEFINE r == MaybeStepDown(s, m.term)
           vs == r.node.votes \cup {m.from}
           q == [r EXCEPT !.node.votes = vs]
<1>1. m.term \in Nat /\ m.from \in Server /\ m.type = "RequestVoteResp"
  BY DEF RequestVoteResp
<1>2. ResultTypeOK(r) /\ VoteResult(n, s, r) /\ Demoted(s, r, m.term)
  BY <1>1, StepDownType, StepDownVote, StepDownLog
<1> HIDE DEF r
<1>3. KeepsLog(s, r) /\ NoAcks(r) /\ SendsOK(n, s, r, r.node, M)
  BY <1>2 DEF Demoted, NoAcks, SendsOK
<1>4. CASE r.node.role = Candidate /\ m.term = r.node.currentTerm /\ m.voteGranted
  <2>1. vs \in SUBSET Server
    BY <1>1, <1>2 DEF ResultTypeOK, Result, RaftNode
  <2>2. r.node = s
    BY <1>2, <1>4 DEF Demoted, Follower, Candidate
  <2>3. \A v \in vs : \/ v = n
                      \/ \E x \in M : /\ x.type = "RequestVoteResp" /\ x.voteGranted
                                      /\ x.from = v /\ x.to = n /\ x.term = s.currentTerm
    BY <1>1, <1>4, <2>2 DEF Backed, BallotIn
  <2> HIDE DEF vs
  <2>4. /\ q.node.currentTerm = r.node.currentTerm
        /\ q.node.votedFor = r.node.votedFor
        /\ q.node.role = r.node.role /\ q.node.log = r.node.log
        /\ q.node.commitIndex = r.node.commitIndex /\ q.node.lastApplied = r.node.lastApplied
        /\ q.node.votes = vs
        /\ q.truncate = r.truncate /\ q.entries = r.entries /\ q.applies = r.applies
        /\ q.persist = r.persist
        /\ q.sends = r.sends
    BY <1>2 DEF ResultTypeOK, Result, RaftNode
  <2>5. ResultTypeOK(q)
    BY <1>2, <2>1 DEF ResultTypeOK, Result, RaftNode, NodeTypeOK
  <2>6. OnRequestVoteResp(n, s, m) = TryWin(n, q)
    BY <1>4 DEF OnRequestVoteResp, r, vs
  <2> HIDE DEF q
  <2>7. VoteResult(n, s, q)
    BY <1>2, <2>4 DEF VoteResult
  <2>8. QuietKind(n, s, q, M)
    <3>1. KeepsLog(s, q)
      BY <1>3, <2>4 DEF KeepsLog, WritesNothing
    <3>2. NoAcks(q) /\ SendsOK(n, s, q, q.node, M)
      BY <1>2, <2>4 DEF NoAcks, SendsOK, Demoted
    <3> QED
      BY <1>4, <2>2, <2>4, <3>1, <3>2 DEF QuietKind, Candidate, Leader
  <2>9. CountsVotes(n, s, q, M)
    BY <1>4, <2>2, <2>3, <2>4 DEF CountsVotes
  <2> QED
    BY <2>5, <2>6, <2>7, <2>8, <2>9, TryWinKind
<1>5. CASE ~(r.node.role = Candidate /\ m.term = r.node.currentTerm /\ m.voteGranted)
  <2>1. OnRequestVoteResp(n, s, m) = r
    BY <1>5 DEF OnRequestVoteResp, r
  <2> QED
    BY <1>1, <1>2, <1>3, <2>1, DemotedQuiet
<1> QED
  BY <1>4, <1>5

(* q differs from r at most in what has been applied.                      *)
AppliesOnly(q, r) ==
    /\ q.node.role = r.node.role /\ q.node.currentTerm = r.node.currentTerm
    /\ q.node.log = r.node.log
    /\ q.node.nextIndex = r.node.nextIndex /\ q.node.matchIndex = r.node.matchIndex
    /\ q.truncate = r.truncate /\ q.entries = r.entries /\ q.sends = r.sends

LEMMA AdvanceAppliedLog ==
    ASSUME NEW r, ResultTypeOK(r), NEW c
    PROVE  /\ AppliesOnly(AdvanceApplied(r, c), r)
           /\ AdvanceApplied(r, c).node.commitIndex = c
           /\ AdvanceApplied(r, c).node.lastApplied = Advanced(r.node.lastApplied, c)
           /\ AdvanceApplied(r, c).applies = SubSeq(r.node.log, r.node.lastApplied + 1, c)
<1>a. PICK ap, l : /\ ap = SubSeq(r.node.log, r.node.lastApplied + 1, c)
                   /\ l = Advanced(r.node.lastApplied, c)
  OBVIOUS
<1> DEFINE q == [r EXCEPT !.node.commitIndex = c, !.node.lastApplied = l, !.applies = ap]
<1>1. /\ AppliesOnly(q, r)
      /\ q.node.commitIndex = c /\ q.node.lastApplied = l /\ q.applies = ap
  BY DEF AppliesOnly, ResultTypeOK, Result, RaftNode
<1>2. AdvanceApplied(r, c) = q
  BY <1>a DEF AdvanceApplied
<1> HIDE DEF q
<1> QED
  BY <1>1, <1>2, <1>a

LEMMA TryCommitKind ==
    ASSUME NEW n \in Server, NEW r, ResultTypeOK(r), r.node.role = Leader, r.applies = << >>
    PROVE  /\ TryCommitted(n, r.node, TryCommit(n, r))
           /\ AppliesOnly(TryCommit(n, r), r)
<1>1. r.node.log \in Seq(Entry) /\ r.node.commitIndex \in Nat /\ NodeTypeOK(r.node)
  BY DEF ResultTypeOK, Result, RaftNode
<1> DEFINE S == Committable(n, r.node)
<1>2. /\ Len(r.node.log) \in Nat /\ S \in SUBSET (0..Len(r.node.log))
      /\ \A i \in S : i > r.node.commitIndex
  BY <1>1, LenProperties DEF Committable, LastIndex
<1> HIDE DEF S
<1>3. CASE S # {}
  <2>1. PICK c : c = MaxOf(S)
    OBVIOUS
  <2>2. c \in S /\ c > r.node.commitIndex
    BY <1>2, <1>3, <2>1, MaxOfBounded
  <2>3. PICK q : q = AdvanceApplied(r, c)
    OBVIOUS
  <2>4. /\ AppliesOnly(q, r) /\ q.node.commitIndex = c
        /\ q.node.lastApplied = Advanced(r.node.lastApplied, c)
        /\ q.applies = SubSeq(r.node.log, r.node.lastApplied + 1, c)
    BY <2>3, AdvanceAppliedLog
  <2>5. Applies(r.node, q)
    BY <2>2, <2>4 DEF Applies, AppliesOnly
  <2>6. TryCommitted(n, r.node, q)
    BY <1>1, <2>2, <2>4, <2>5 DEF TryCommitted, AppliesOnly, S
  <2>7. TryCommit(n, r) = q
    BY <1>3, <2>1, <2>3 DEF TryCommit, S
  <2> QED
    BY <2>4, <2>6, <2>7
<1>4. CASE S = {}
  <2>1. TryCommit(n, r) = r
    BY <1>4 DEF TryCommit, S
  <2>2. ~(r.node.commitIndex > r.node.commitIndex)
    BY <1>1
  <2>3. TryCommitted(n, r.node, r) /\ AppliesOnly(r, r)
    BY <1>1, <2>2 DEF TryCommitted, Applies, AppliesOnly
  <2> QED
    BY <2>1, <2>3
<1> QED
  BY <1>3, <1>4

LEMMA MergeEntriesOnly ==
    ASSUME NEW r, ResultTypeOK(r), NEW m
    PROVE  LET e == MergeEntries(r, m)
           IN  /\ e.node.role = r.node.role /\ e.node.currentTerm = r.node.currentTerm
               /\ e.node.commitIndex = r.node.commitIndex
               /\ e.node.lastApplied = r.node.lastApplied
               /\ e.applies = r.applies /\ e.sends = r.sends
<1> DEFINE k == MinOf(Divergence(r.node.log, m))
           i == m.prevLogIndex + k
           tail == SubSeq(m.entries, k, Len(m.entries))
           log == TruncateFrom(r.node.log, i) \o tail
           cut == IF i <= LastIndex(r.node.log) THEN i ELSE 0
           q == [r EXCEPT !.node.log = log, !.truncate = cut, !.entries = tail]
<1> HIDE DEF k, i, tail, log, cut
<1>1. /\ q.node.role = r.node.role /\ q.node.currentTerm = r.node.currentTerm
      /\ q.node.commitIndex = r.node.commitIndex /\ q.node.lastApplied = r.node.lastApplied
      /\ q.applies = r.applies /\ q.sends = r.sends
  BY DEF ResultTypeOK, Result, RaftNode
<1>2. MergeEntries(r, m) \in {r, q}
  BY DEF MergeEntries, k, i, tail, log, cut
<1> HIDE DEF q
<1> QED
  BY <1>1, <1>2

LEMMA OnAppendEntriesKind ==
    ASSUME NEW n \in Server, NEW s, NodeTypeOK(s), NEW M, NEW m \in AppendEntriesReq,
           m.to = n, m.from # n
    PROVE  \/ QuietKind(n, s, OnAppendEntries(n, s, m), M)
           \/ AcceptKind(n, s, OnAppendEntries(n, s, m), m)
<1> DEFINE r == MaybeStepDown(s, m.term)
           role == IF r.node.role = Candidate THEN Follower ELSE r.node.role
           f == [r EXCEPT !.node.role = role, !.node.votes = NoVotes,
                          !.node.leaderHint = m.from]
           e == MergeEntries(f, m)
           g == FollowCommit(e, m)
           len == m.prevLogIndex + Len(m.entries)
           Reply(q, ok, match) == {AppendReply(n, q.node, m, ok, match)}
<1>1. m.term \in Nat /\ m.from \in Server
  BY DEF AppendEntriesReq
<1>2. ResultTypeOK(r) /\ Demoted(s, r, m.term)
  BY <1>1, StepDownType, StepDownLog
<1> HIDE DEF r
<1>3. /\ role \in {Follower, Candidate, Leader} /\ role # Candidate
      /\ role \in {r.node.role, Follower}
  BY <1>2 DEF ResultTypeOK, Result, RaftNode, Follower, Leader, Candidate
<1> HIDE DEF role
<1>4. ResultTypeOK(f)
  <2>1. f \in Result
    BY <1>1, <1>2, <1>3 DEF ResultTypeOK, Result, RaftNode, NoVotes
  <2>2. NodeTypeOK(f.node)
    <3>1. f.node.role = role /\ f.node.nextIndex = r.node.nextIndex /\ f.node \in RaftNode
      BY <1>1, <1>2, <1>3 DEF ResultTypeOK, Result, RaftNode, NoVotes
    <3>2. role = Leader => r.node.role = Leader
      BY <1>3 DEF Follower, Leader
    <3> QED
      BY <1>2, <3>1, <3>2 DEF ResultTypeOK, NodeTypeOK
  <2> QED
    BY <2>1, <2>2 DEF ResultTypeOK
<1>5. /\ f.node.currentTerm = r.node.currentTerm /\ f.node.role = role
      /\ f.node.log = r.node.log /\ f.node.commitIndex = r.node.commitIndex
      /\ f.node.lastApplied = r.node.lastApplied
      /\ f.node.nextIndex = r.node.nextIndex /\ f.node.matchIndex = r.node.matchIndex
      /\ f.truncate = r.truncate /\ f.entries = r.entries /\ f.applies = r.applies
  BY <1>2 DEF ResultTypeOK, Result, RaftNode
<1>6. /\ OnAppendEntries(n, s, m) =
            IF m.term < r.node.currentTerm THEN [r EXCEPT !.sends = Reply(r, FALSE, 0)]
            ELSE IF ~HoldsPrev(f.node.log, m) THEN [f EXCEPT !.sends = Reply(f, FALSE, 0)]
            ELSE [g EXCEPT !.sends = Reply(g, TRUE, len)]
  BY DEF OnAppendEntries, r, role
<1> HIDE DEF f
<1>7. ASSUME NEW q, NEW match
      PROVE  /\ \A x \in Reply(q, TRUE, match) :
                    x.type = "AppendEntriesResp" /\ x.to # n /\ x.matchIndex = match
             /\ \A x \in Reply(q, FALSE, match) :
                    x.type = "AppendEntriesResp" /\ x.to # n /\ ~x.success
  BY DEF AppendReply
<1> HIDE DEF Reply, len
<1>8. ASSUME NEW q, ResultTypeOK(q), KeepsLog(s, q), q.node.currentTerm = r.node.currentTerm,
             q.node.role \in {r.node.role, Follower},
             q.node.nextIndex = r.node.nextIndex, q.node.matchIndex = r.node.matchIndex
      PROVE  QuietKind(n, s, [q EXCEPT !.sends = Reply(q, FALSE, 0)], M)
  <2>1. PICK x : x = [q EXCEPT !.sends = Reply(q, FALSE, 0)]
    OBVIOUS
  <2>2. /\ x.node = q.node /\ x.sends = Reply(q, FALSE, 0) /\ x.truncate = q.truncate
        /\ x.entries = q.entries /\ x.applies = q.applies
    BY <1>8, <2>1 DEF ResultTypeOK, Result
  <2>3. KeepsLog(s, x)
    BY <1>8, <2>2 DEF KeepsLog, WritesNothing
  <2>4. NoAcks(x) /\ SendsOK(n, s, x, x.node, M)
    <3>1. \A y \in Reply(q, FALSE, 0) :
             y.type = "AppendEntriesResp" /\ y.to # n /\ ~y.success
      BY <1>7
    <3>2. \A y \in x.sends : y.type = "AppendEntriesResp" /\ y.to # n /\ ~y.success
      BY <2>2, <3>1
    <3> QED
      BY <3>2 DEF NoAcks, SendsOK
  <2>5. QuietKind(n, s, x, M)
    BY <1>1, <1>2, <1>8, <2>2, <2>3, <2>4, DemotedQuiet
  <2> QED
    BY <2>1, <2>5
<1>9. KeepsLog(s, r)
  BY <1>2 DEF Demoted
<1>10. KeepsLog(s, f)
  BY <1>5, <1>9 DEF KeepsLog, WritesNothing
<1>11. CASE m.term < r.node.currentTerm
  <2>1. QuietKind(n, s, [r EXCEPT !.sends = Reply(r, FALSE, 0)], M)
    BY <1>2, <1>8, <1>9
  <2> QED
    BY <1>6, <1>11, <2>1
<1>12. CASE ~(m.term < r.node.currentTerm) /\ ~HoldsPrev(f.node.log, m)
  <2>1. QuietKind(n, s, [f EXCEPT !.sends = Reply(f, FALSE, 0)], M)
    BY <1>3, <1>4, <1>5, <1>8, <1>10
  <2> QED
    BY <1>6, <1>12, <2>1
<1>13. CASE ~(m.term < r.node.currentTerm) /\ HoldsPrev(f.node.log, m)
  <2>1. /\ ResultTypeOK(e) /\ e.node.role = role /\ e.node.currentTerm = r.node.currentTerm
        /\ e.node.commitIndex = s.commitIndex /\ e.node.lastApplied = s.lastApplied
        /\ e.applies = << >>
    BY <1>4, <1>5, <1>10, MergeEntriesOnly, MergeEntriesType DEF KeepsLog
  <2>2. PICK h : h = e
    OBVIOUS
  <2> HIDE DEF e
  <2>3. ResultTypeOK(g) /\ AppliesOnly(g, e)
    <3>1. AppliesOnly(e, e)
      BY DEF AppliesOnly
    <3> QED
      BY <2>1, <3>1, FollowCommitType, AdvanceAppliedLog DEF FollowCommit
  <2>4. FollowedCommit(s, g, m)
    <3>1. CASE m.leaderCommit > s.commitIndex
      <4>1. PICK c : c = MinOf({m.leaderCommit, LastIndex(e.node.log)})
        OBVIOUS
      <4>2. g = AdvanceApplied(e, c)
        BY <2>1, <3>1, <4>1 DEF FollowCommit
      <4>3. /\ g.node.commitIndex = c /\ g.node.lastApplied = Advanced(s.lastApplied, c)
            /\ g.applies = SubSeq(e.node.log, s.lastApplied + 1, c)
        BY <2>1, <4>2, AdvanceAppliedLog
      <4> HIDE DEF g
      <4> QED
        BY <2>3, <3>1, <4>1, <4>3 DEF FollowedCommit, AppliesOnly
    <3>2. CASE ~(m.leaderCommit > s.commitIndex)
      <4>1. g = e
        BY <2>1, <3>2 DEF FollowCommit
      <4> HIDE DEF g
      <4> QED
        BY <2>1, <3>2, <4>1 DEF FollowedCommit
    <3> QED
      BY <3>1, <3>2
  <2> HIDE DEF g
  <2>5. PICK q : q = [g EXCEPT !.sends = Reply(g, TRUE, len)]
    OBVIOUS
  <2>6. /\ q.node = g.node /\ q.sends = Reply(g, TRUE, len) /\ q.truncate = g.truncate
        /\ q.entries = g.entries /\ q.applies = g.applies
    BY <2>3, <2>5 DEF ResultTypeOK, Result
  <2>7. r.node.currentTerm = m.term
    <3>1. r.node.currentTerm \in Nat
      BY <1>2 DEF ResultTypeOK, Result, RaftNode
    <3>2. r.node.currentTerm >= m.term
      BY <1>1, <1>2 DEF Demoted
    <3> QED
      BY <1>1, <1>13, <3>1, <3>2
  <2>8. HoldsPrev(s.log, m)
    BY <1>10, <1>13 DEF KeepsLog
  <2>9. q.node.role = Leader => s.role = Leader /\ m.term = s.currentTerm
    BY <1>2, <1>3, <2>1, <2>3, <2>6, <2>7 DEF Demoted, AppliesOnly, Follower, Leader
  <2>10. /\ q.node.log = MergeEntries(f, m).node.log
         /\ q.entries = MergeEntries(f, m).entries
         /\ q.truncate = MergeEntries(f, m).truncate
    BY <2>3, <2>6 DEF AppliesOnly, e
  <2>11. WritesNothing(f) /\ f.node.log = s.log
    BY <1>10 DEF KeepsLog
  <2>12. FollowedCommit(s, q, m)
    BY <2>4, <2>6 DEF FollowedCommit
  <2>13. q.node.currentTerm = m.term /\ q.node.role # Candidate
    BY <1>3, <2>1, <2>3, <2>6, <2>7 DEF AppliesOnly
  <2>14. \A x \in q.sends :
            /\ x.type = "AppendEntriesResp" /\ x.to # n
            /\ x.matchIndex = m.prevLogIndex + Len(m.entries)
    <3>1. \A x \in q.sends : x.type = "AppendEntriesResp" /\ x.to # n /\ x.matchIndex = len
      <4>1. \A x \in Reply(g, TRUE, len) :
               x.type = "AppendEntriesResp" /\ x.to # n /\ x.matchIndex = len
        BY <1>7, Zenon
      <4> QED
        BY <2>6, <4>1, Zenon
    <3> QED
      BY <3>1 DEF len
  <2>15. AcceptKind(n, s, q, m)
    BY <1>4, <2>8, <2>9, <2>10, <2>11, <2>12, <2>13, <2>14 DEF AcceptKind
  <2> QED
    BY <1>6, <1>13, <2>5, <2>15
<1> QED
  BY <1>11, <1>12, <1>13

LEMMA OnAppendEntriesRespKind ==
    ASSUME NEW n \in Server, NEW s, NodeTypeOK(s), NEW M, NEW m \in AppendEntriesResp,
           m \in M, m.from # n
    PROVE  \/ QuietKind(n, s, OnAppendEntriesResp(n, s, m), M)
           \/ AckKind(n, s, OnAppendEntriesResp(n, s, m), M)
<1> DEFINE r == MaybeStepDown(s, m.term)
           match == MaxOf({r.node.matchIndex[m.from], m.matchIndex})
           next == match + 1
           back == WalkBack(r.node.nextIndex[m.from])
           acked == [r EXCEPT !.node.matchIndex[m.from] = match,
                              !.node.nextIndex[m.from] = next]
           probe == [r EXCEPT !.node.nextIndex[m.from] = back]
           ms == {AppendFor(n, probe.node, m.from)}
<1>1. m.term \in Nat /\ m.from \in Server /\ m.matchIndex \in Nat /\ m.type = "AppendEntriesResp"
  BY DEF AppendEntriesResp
<1>2. ResultTypeOK(r) /\ Demoted(s, r, m.term)
  BY <1>1, StepDownType, StepDownLog
<1> HIDE DEF r
<1>3. /\ r.node.matchIndex \in [Server -> Nat] /\ r.node.nextIndex \in [Server -> Nat]
      /\ r.node.currentTerm \in Nat /\ r.node \in RaftNode
  BY <1>2 DEF ResultTypeOK, Result, RaftNode
<1>4. KeepsLog(s, r) /\ r.sends = {}
  BY <1>2 DEF Demoted
<1>5. match \in {r.node.matchIndex[m.from], m.matchIndex} /\ match \in Nat /\ next \in Nat
      /\ next >= 1
  <2>1. r.node.matchIndex[m.from] \in Int /\ m.matchIndex \in Int
    BY <1>1, <1>3
  <2>2. match \in {r.node.matchIndex[m.from], m.matchIndex}
    BY <2>1, MaxOfPair
  <2>3. match \in Nat
    BY <1>1, <1>3, <2>2
  <2> HIDE DEF match
  <2> QED
    BY <2>2, <2>3
<1>6. r.node.role = Leader =>
         back \in Nat /\ back >= 1 /\ back <= r.node.nextIndex[m.from]
  <2> SUFFICES ASSUME r.node.role = Leader
               PROVE  back \in Nat /\ back >= 1 /\ back <= r.node.nextIndex[m.from]
    OBVIOUS
  <2>1. PICK i : i = r.node.nextIndex[m.from]
    OBVIOUS
  <2>2. i \in Nat /\ i >= 1
    BY <1>1, <1>2, <1>3, <2>1 DEF ResultTypeOK, NodeTypeOK
  <2>3. i - 1 \in Int /\ 1 \in Int
    BY <2>2
  <2>4. WalkBack(i) \in {i - 1, 1} /\ WalkBack(i) >= 1
    BY <2>3, MaxOfPair DEF WalkBack
  <2>5. WalkBack(i) \in Nat /\ WalkBack(i) <= i
    BY <2>2, <2>4
  <2> QED
    BY <2>1, <2>4, <2>5
<1>7. match + 1 = next
  OBVIOUS
<1> HIDE DEF match, next, back
<1>8. CASE m.term < r.node.currentTerm \/ r.node.role # Leader
  <2>1. OnAppendEntriesResp(n, s, m) = r
    BY <1>8 DEF OnAppendEntriesResp, r
  <2>2. NoAcks(r) /\ SendsOK(n, s, r, r.node, M)
    BY <1>4 DEF NoAcks, SendsOK
  <2> QED
    BY <1>1, <1>2, <1>4, <2>1, <2>2, DemotedQuiet
<1>9. CASE ~(m.term < r.node.currentTerm \/ r.node.role # Leader)
  <2>1. r.node = s /\ m.term = s.currentTerm /\ s.role = Leader
    <3>1. r.node = s /\ m.term <= s.currentTerm
      BY <1>2, <1>9 DEF Demoted, Follower, Leader
    <3>2. ~(m.term < s.currentTerm) /\ s.currentTerm \in Nat
      BY <1>3, <1>9, <3>1
    <3> QED
      BY <1>1, <1>9, <3>1, <3>2
  <2>2. CASE m.success
    <3>1. OnAppendEntriesResp(n, s, m) = TryCommit(n, acked)
      BY <1>9, <2>2 DEF OnAppendEntriesResp, r, match, next
    <3>2. /\ acked \in Result
          /\ acked.node.role = r.node.role /\ acked.node.currentTerm = r.node.currentTerm
          /\ acked.node.log = r.node.log /\ acked.node.commitIndex = r.node.commitIndex
          /\ acked.node.lastApplied = r.node.lastApplied
          /\ acked.truncate = r.truncate /\ acked.entries = r.entries
          /\ acked.applies = r.applies /\ acked.sends = r.sends
          /\ acked.node.matchIndex = [r.node.matchIndex EXCEPT ![m.from] = match]
          /\ acked.node.nextIndex = [r.node.nextIndex EXCEPT ![m.from] = next]
      BY <1>1, <1>2, <1>5 DEF ResultTypeOK, Result, RaftNode
    <3>3. ResultTypeOK(acked)
      <4>1. \A p \in Server : acked.node.nextIndex[p] >= 1
        BY <1>2, <1>3, <1>5, <1>9, <3>2 DEF ResultTypeOK, NodeTypeOK
      <4> QED
        BY <3>2, <4>1 DEF ResultTypeOK, Result, NodeTypeOK
    <3> HIDE DEF acked
    <3>4. acked.applies = << >> /\ acked.node.role = Leader
      BY <1>4, <1>9, <3>2 DEF KeepsLog
    <3>5. PICK q : q = TryCommit(n, acked)
      OBVIOUS
    <3>6. TryCommitted(n, acked.node, q) /\ AppliesOnly(q, acked)
      BY <3>3, <3>4, <3>5, TryCommitKind
    <3>7. WritesNothing(q) /\ q.sends = {}
      BY <1>4, <3>2, <3>6 DEF AppliesOnly, WritesNothing, KeepsLog
    <3>8. ASSUME NEW p \in Server
          PROVE  \/ /\ acked.node.matchIndex[p] = s.matchIndex[p]
                    /\ acked.node.nextIndex[p] = s.nextIndex[p]
                 \/ /\ p = m.from
                    /\ acked.node.matchIndex[p] \in {s.matchIndex[p], m.matchIndex}
                    /\ acked.node.nextIndex[p] = acked.node.matchIndex[p] + 1
      <4>1. CASE p = m.from
        BY <1>3, <1>5, <1>7, <2>1, <3>2, <4>1
      <4>2. CASE p # m.from
        BY <1>3, <2>1, <3>2, <4>2
      <4> QED
        BY <4>1, <4>2
    <3>9. /\ acked.node.currentTerm = s.currentTerm /\ acked.node.log = s.log
          /\ acked.node.commitIndex = s.commitIndex /\ acked.node.lastApplied = s.lastApplied
      BY <2>1, <3>2
    <3>10. AckKind(n, s, q, M)
      BY <1>1, <2>1, <2>2, <3>6, <3>7, <3>8, <3>9 DEF AckKind
    <3> QED
      BY <3>1, <3>5, <3>10
  <2>3. CASE ~m.success
    <3>1. OnAppendEntriesResp(n, s, m) = [probe EXCEPT !.sends = ms]
      BY <1>9, <2>3 DEF OnAppendEntriesResp, r, back
    <3>2. /\ DOMAIN probe = DOMAIN r
          /\ probe.node.role = r.node.role /\ probe.node.currentTerm = r.node.currentTerm
          /\ probe.node.log = r.node.log /\ probe.node.commitIndex = r.node.commitIndex
          /\ probe.node.lastApplied = r.node.lastApplied
          /\ probe.truncate = r.truncate /\ probe.entries = r.entries
          /\ probe.applies = r.applies
          /\ probe.node.matchIndex = r.node.matchIndex
          /\ probe.node.nextIndex = [r.node.nextIndex EXCEPT ![m.from] = back]
      BY <1>1, <1>2 DEF ResultTypeOK, Result, RaftNode
    <3>3. \A x \in ms : /\ x.type = "AppendEntries" /\ x.to # n
                        /\ \E p \in Peers(n) : x = AppendFor(n, probe.node, p)
      BY <1>1, AppendForVote DEF AppendFor, Peers
    <3> HIDE DEF ms
    <3>4. PICK q : q = [probe EXCEPT !.sends = ms]
      OBVIOUS
    <3>5. /\ q.node = probe.node /\ q.sends = ms /\ q.truncate = probe.truncate
          /\ q.entries = probe.entries /\ q.applies = probe.applies
      BY <1>2, <3>2, <3>4 DEF ResultTypeOK, Result
    <3> HIDE DEF probe
    <3>6. KeepsLog(s, q)
      BY <1>4, <3>2, <3>5 DEF KeepsLog, WritesNothing
    <3>7. NoAcks(q) /\ SendsOK(n, s, q, q.node, M)
      BY <3>3, <3>5 DEF NoAcks, SendsOK
    <3>8. \A p \in Server : q.node.nextIndex[p] <= s.nextIndex[p]
      BY <1>3, <1>6, <1>9, <2>1, <3>2, <3>5
    <3>9. QuietKind(n, s, q, M)
      BY <2>1, <3>2, <3>5, <3>6, <3>7, <3>8 DEF QuietKind, Leader, Candidate
    <3> QED
      BY <3>1, <3>4, <3>9
  <2> QED
    BY <2>2, <2>3
<1> QED
  BY <1>8, <1>9

LEMMA OnProposeKind ==
    ASSUME NEW n \in Server, NEW s, NodeTypeOK(s), s.role = Leader, NEW cmd \in Command
    PROVE  ProposeKind(n, s, OnPropose(n, s, cmd))
<1> DEFINE e == [term |-> s.currentTerm, index |-> Len(s.log) + 1, command |-> cmd]
           log == Append(s.log, e)
           a == [s EXCEPT !.log = log]
           es == <<a.log[Len(a.log)]>>
           ms == BroadcastAppend(n, a)
           r == [Quiet(a) EXCEPT !.entries = es, !.sends = ms]
<1>1. s.log \in Seq(Entry) /\ s.currentTerm \in Nat /\ s \in RaftNode
  BY DEF NodeTypeOK, RaftNode
<1>2. e \in Entry /\ e.term = s.currentTerm /\ e.index = Len(s.log) + 1
  BY <1>1, LenProperties DEF Entry
<1>3. OnPropose(n, s, cmd) = TryCommit(n, r)
  BY DEF OnPropose, Append1
<1> HIDE DEF e
<1>4. log \in Seq(Entry) /\ log[Len(log)] = e
  BY <1>1, <1>2, AppendProperties
<1>5. log = Append(s.log, e)
  OBVIOUS
<1> HIDE DEF log
<1>6. /\ NodeTypeOK(a) /\ a.role = Leader /\ a.log = log
      /\ a.currentTerm = s.currentTerm /\ a.commitIndex = s.commitIndex
      /\ a.lastApplied = s.lastApplied /\ a.matchIndex = s.matchIndex
      /\ a.nextIndex = s.nextIndex
  BY <1>1, <1>4 DEF NodeTypeOK, RaftNode
<1> HIDE DEF a
<1>7. ms \in SUBSET Message /\ es \in Seq(Entry) /\ es = << e >>
  <2>1. ms \in SUBSET Message
    BY <1>6, BroadcastType
  <2>2. es = << e >>
    BY <1>4, <1>6
  <2> QED
    BY <1>2, <2>1, <2>2
<1>8. \A m \in ms : \E p \in Peers(n) : m = AppendFor(n, a, p)
  BY DEF BroadcastAppend
<1> HIDE DEF es, ms
<1>9. r.node = a /\ r.sends = ms /\ r.truncate = 0 /\ r.entries = es /\ r.applies = << >>
  BY DEF Quiet
<1>10. ResultTypeOK(r)
  BY <1>6, <1>7, QuietType DEF ResultTypeOK, Result, Quiet
<1> HIDE DEF r
<1>11. PICK q : q = TryCommit(n, r)
  OBVIOUS
<1>12. TryCommitted(n, a, q) /\ AppliesOnly(q, r)
  BY <1>6, <1>9, <1>10, <1>11, TryCommitKind
<1>13. q.truncate = 0 /\ q.entries = << e >> /\ q.sends = ms
  BY <1>7, <1>9, <1>12 DEF AppliesOnly
<1>14. ProposeKind(n, s, q)
  BY <1>2, <1>5, <1>6, <1>8, <1>12, <1>13 DEF ProposeKind
<1> QED
  BY <1>3, <1>11, <1>14

(* A heartbeat, and no event at all.                                       *)
LEMMA BeatKind ==
    ASSUME NEW n \in Server, NEW s, NodeTypeOK(s), NEW M
    PROVE  /\ QuietKind(n, s, Quiet(s), M)
           /\ QuietKind(n, s, [Quiet(s) EXCEPT !.sends = BroadcastAppend(n, s)], M)
<1>1. \A p \in Server : s.nextIndex[p] \in Nat
  BY DEF NodeTypeOK, RaftNode
<1>2. ASSUME NEW q, q.node = s, q.truncate = 0, q.entries = << >>, q.applies = << >>,
             \A x \in q.sends : /\ x.type = "AppendEntries" /\ x.to # n
                                /\ \E p \in Peers(n) : x = AppendFor(n, s, p)
      PROVE  QuietKind(n, s, q, M)
  <2>1. KeepsLog(s, q)
    BY <1>2 DEF KeepsLog, WritesNothing
  <2>2. NoAcks(q) /\ SendsOK(n, s, q, q.node, M)
    BY <1>2 DEF NoAcks, SendsOK
  <2> QED
    BY <1>1, <1>2, <2>1, <2>2 DEF QuietKind
<1>3. QuietKind(n, s, Quiet(s), M)
  <2>1. PICK q : q = Quiet(s)
    OBVIOUS
  <2>2. /\ q.node = s /\ q.truncate = 0 /\ q.entries = << >> /\ q.applies = << >>
        /\ q.sends = {}
    BY <2>1 DEF Quiet
  <2> QED
    BY <1>2, <2>1, <2>2
<1>4. QuietKind(n, s, [Quiet(s) EXCEPT !.sends = BroadcastAppend(n, s)], M)
  <2>1. PICK q : q = [Quiet(s) EXCEPT !.sends = BroadcastAppend(n, s)]
    OBVIOUS
  <2>2. /\ q.node = s /\ q.truncate = 0 /\ q.entries = << >> /\ q.applies = << >>
        /\ q.sends = BroadcastAppend(n, s)
    BY <2>1 DEF Quiet
  <2>3. \A x \in q.sends : /\ x.type = "AppendEntries" /\ x.to # n
                           /\ \E p \in Peers(n) : x = AppendFor(n, s, p)
    BY <2>2, AppendForVote DEF BroadcastAppend, AppendFor, Peers
  <2> QED
    BY <1>2, <2>1, <2>2, <2>3
<1> QED
  BY <1>3, <1>4

-----------------------------------------------------------------------------
(* A step of a running server is of one of the five kinds, and what it     *)
(* leaves on disk, completely or not.                                      *)

StepKind(n, s, r, M) ==
    \/ QuietKind(n, s, r, M)
    \/ WonKind(n, s, r, M)
    \/ AckKind(n, s, r, M)
    \/ ProposeKind(n, s, r)
    \/ \E m \in M : AcceptKind(n, s, r, m)

LEMMA StepResultKind ==
    ASSUME TypeOK, NEW n \in Server, Backed(messages, n, node[n]),
           \A m \in messages : m.to # m.from, NEW r, StepResult(n, r)
    PROVE  StepKind(n, node[n], r, messages)
<1>1. NodeTypeOK(node[n])
  BY DEF TypeOK
<1>2. CASE r = StartElection(n, node[n])
  BY <1>1, <1>2, StartElectionKind DEF StepKind
<1>3. CASE node[n].role = Leader /\ r = [Quiet(node[n]) EXCEPT !.sends = BroadcastAppend(n, node[n])]
  BY <1>1, <1>3, BeatKind DEF StepKind
<1>4. ASSUME NEW m \in messages, m.to = n, HandlerResult(n, m, r)
      PROVE  StepKind(n, node[n], r, messages)
  <2>1. m.from # n
    BY <1>4
  <2>2. CASE m \in RequestVoteReq /\ r = OnRequestVote(n, node[n], m)
    BY <1>1, <2>1, <2>2, OnRequestVoteKind DEF StepKind
  <2>3. CASE m \in RequestVoteResp /\ r = OnRequestVoteResp(n, node[n], m)
    BY <1>1, <1>4, <2>3, OnRequestVoteRespKind DEF StepKind
  <2>4. CASE m \in AppendEntriesReq /\ r = OnAppendEntries(n, node[n], m)
    BY <1>1, <1>4, <2>1, <2>4, OnAppendEntriesKind DEF StepKind
  <2>5. CASE m \in AppendEntriesResp /\ r = OnAppendEntriesResp(n, node[n], m)
    BY <1>1, <2>1, <2>5, OnAppendEntriesRespKind DEF StepKind
  <2> QED
    BY <1>4, <2>2, <2>3, <2>4, <2>5 DEF HandlerResult
<1>5. CASE node[n].role = Leader /\ \E cmd \in Command : r = OnPropose(n, node[n], cmd)
  BY <1>1, <1>5, OnProposeKind DEF StepKind
<1>6. CASE r = Quiet(node[n])
  BY <1>1, <1>6, BeatKind DEF StepKind
<1> QED
  BY <1>2, <1>3, <1>4, <1>5, <1>6 DEF StepResult

LEMMA SplicedAppend ==
    ASSUME NEW log \in Seq(Entry), NEW e \in Entry
    PROVE  /\ Spliced(log, Len(log) + 1, << e >>, 1) = Append(log, e)
           /\ Spliced(log, Len(log) + 1, << e >>, 0) = log
<1>1. PICK l \in Nat : l = Len(log)
  BY LenProperties
<1>2. PICK es : es = << e >>
  OBVIOUS
<1>3. es \in Seq(Entry) /\ Len(es) = 1 /\ es[1] = e
  BY <1>2
<1>4. l + 1 \in 1..Len(log) + 1 /\ 0 \in 0..Len(es) /\ 1 \in 0..Len(es) /\ (l + 1) - 1 = l
  BY <1>1, <1>3
<1>5. PICK a : a = Spliced(log, l + 1, es, 1)
  OBVIOUS
<1>6. /\ a \in Seq(Entry) /\ Len(a) = l + 1
      /\ \A j \in 1..l : a[j] = log[j]
      /\ a[l + 1] = e
  <2>1. /\ a \in Seq(Entry) /\ Len(a) = (l + 1) - 1 + 1
        /\ \A j \in 1..(l + 1) - 1 : a[j] = log[j]
        /\ \A j \in 1..1 : a[(l + 1) - 1 + j] = es[j]
    <3>1. PICK i \in 1..Len(log) + 1 : i = l + 1
      BY <1>4
    <3>2. PICK k \in 0..Len(es) : k = 1
      BY <1>4
    <3>3. /\ Spliced(log, i, es, k) \in Seq(Entry)
          /\ Len(Spliced(log, i, es, k)) = i - 1 + k
          /\ \A j \in 1..i - 1 : Spliced(log, i, es, k)[j] = log[j]
          /\ \A j \in 1..k : Spliced(log, i, es, k)[i - 1 + j] = es[j]
      BY <1>3, SplicedFacts
    <3> QED
      BY <1>5, <3>1, <3>2, <3>3
  <2>2. (l + 1) - 1 + 1 = l + 1 /\ 1 \in 1..1
    OBVIOUS
  <2> QED
    BY <1>3, <1>4, <2>1, <2>2
<1>7. PICK d : d = Append(log, e)
  OBVIOUS
<1>8. /\ d \in Seq(Entry) /\ Len(d) = l + 1
      /\ \A j \in 1..l : d[j] = log[j]
      /\ d[l + 1] = e
  BY <1>1, <1>7, AppendProperties
<1>9. a = d
  <2>1. \A j \in 1..l + 1 : a[j] = d[j]
    <3> TAKE j \in 1..l + 1
    <3>1. j \in 1..l \/ j = l + 1
      OBVIOUS
    <3> QED
      BY <1>6, <1>8, <3>1
  <2> QED
    BY <1>6, <1>8, <2>1, SeqEqual
<1>10. PICK z : z = Spliced(log, l + 1, es, 0)
  OBVIOUS
<1>11. z \in Seq(Entry) /\ Len(z) = l /\ \A j \in 1..l : z[j] = log[j]
  <2>1. /\ z \in Seq(Entry) /\ Len(z) = (l + 1) - 1 + 0
        /\ \A j \in 1..(l + 1) - 1 : z[j] = log[j]
    BY <1>3, <1>4, <1>10, SplicedFacts
  <2>2. (l + 1) - 1 + 0 = l
    OBVIOUS
  <2> QED
    BY <1>4, <2>1, <2>2
<1>12. z = log
  BY <1>1, <1>11, SeqEqual
<1> QED
  BY <1>1, <1>2, <1>5, <1>7, <1>9, <1>10, <1>12

LEMMA ProposeWrites ==
    ASSUME NEW n, NEW s, NodeTypeOK(s), NEW r, ProposeKind(n, s, r)
    PROVE  \E e : /\ e \in Entry /\ e.term = s.currentTerm /\ e.index = Len(s.log) + 1
                  /\ r.node.log = Append(s.log, e) /\ r.node.currentTerm = s.currentTerm
                  /\ r.entries = << e >> /\ Len(r.entries) = 1
                  /\ WritesAt(r, s.log, Len(s.log) + 1)
                  /\ r.node.log = Spliced(s.log, Len(s.log) + 1, r.entries, Len(r.entries))
<1>1. s.log \in Seq(Entry) /\ Len(s.log) \in Nat
  BY LenProperties DEF NodeTypeOK, RaftNode
<1>2. PICK l, e :
        /\ TryCommitted(n, l, r)
        /\ e \in Entry /\ e.term = s.currentTerm /\ e.index = Len(s.log) + 1
        /\ r.entries = << e >> /\ r.truncate = 0
        /\ l.currentTerm = s.currentTerm /\ l.log = Append(s.log, e)
  BY DEF ProposeKind
<1>3. r.node.log = Append(s.log, e) /\ r.node.currentTerm = s.currentTerm
  BY <1>2 DEF TryCommitted
<1>4. PICK i : i = Len(s.log) + 1
  OBVIOUS
<1>5. /\ Len(r.entries) = 1 /\ r.entries[1] = e /\ r.entries # << >>
      /\ i \in 1..Len(s.log) + 1 /\ ~(i <= Len(s.log)) /\ i + 1 - 1 = i
  BY <1>1, <1>2, <1>4
<1>6. \A k \in 1..Len(r.entries) : r.entries[k].index = i + k - 1
  BY <1>2, <1>4, <1>5
<1>7. WritesAt(r, s.log, i)
  BY <1>2, <1>5, <1>6 DEF WritesAt
<1>8. r.node.log = Spliced(s.log, i, r.entries, Len(r.entries))
  BY <1>1, <1>2, <1>3, <1>4, <1>5, SplicedAppend
<1> QED
  BY <1>2, <1>3, <1>4, <1>5, <1>7, <1>8

LEMMA DiskNumbered ==
    ASSUME NEW b, NEW G, NEW D \in [Server -> HardState], NEW M, Core(b, G, D, M),
           NEW n \in Server
    PROVE  D[n].log \in Seq(Entry) /\ Numbered(D[n].log)
<1>1. D[n].log \in Seq(Entry)
  BY DEF HardState
<1>2. History(b, G) /\ LeaderLogs(b, G) /\ Rooted(b, G, D[n].log, D[n].currentTerm)
  BY DEF Core, DiskLogs
<1> QED
  BY <1>1, <1>2, RootedOrdered DEF Numbered

(* Memory and disk agree on the log after the writes r asks for.           *)
WritesItsLog(d, s, r) ==
    /\ Durable(d, r).log = r.node.log
    /\ WritesNothing(r) => r.node.log = s.log

LEMMA KindWrites ==
    ASSUME NEW n \in Server, NEW s, NodeTypeOK(s), NEW r, ResultTypeOK(r),
           NEW b, NEW G, NEW D, NEW M, NEW a, D \in [Server -> HardState],
           Core(b, G, D, M), \A m \in M : MessageOK(b, G, D, M, m),
           NodeOK(b, G, D, M, n, s, a), StepKind(n, s, r, M)
    PROVE  WritesItsLog(D[n], s, r)
<1> USE DEF WritesItsLog
<1>1. D[n] \in HardState /\ s.log = D[n].log /\ D[n].log \in Seq(Entry) /\ Numbered(D[n].log)
  BY DiskNumbered DEF NodeOK
<1>2. CASE WritesNothing(r) /\ r.node.log = s.log
  BY <1>1, <1>2, DiskWritesNothing
<1>3. ASSUME NEW i, WritesAt(r, s.log, i),
             r.node.log = Spliced(s.log, i, r.entries, Len(r.entries))
      PROVE  WritesItsLog(D[n], s, r)
  <2>1. Durable(D[n], r).log = r.node.log
    <3>1. PICK d \in HardState : d = D[n] /\ d.log = s.log /\ Numbered(d.log)
      BY <1>1
    <3>2. WritesAt(r, d.log, i)
      BY <1>3, <3>1
    <3>3. Durable(d, r).log = Spliced(d.log, i, r.entries, Len(r.entries))
      BY <3>1, <3>2, DiskWritesAt
    <3> QED
      BY <1>3, <3>1, <3>3
  <2>2. ~WritesNothing(r)
    BY <1>3 DEF WritesNothing, WritesAt
  <2> QED
    BY <2>1, <2>2
<1>4. CASE QuietKind(n, s, r, M)
  BY <1>2, <1>4 DEF QuietKind, KeepsLog
<1>5. CASE WonKind(n, s, r, M)
  BY <1>2, <1>5 DEF WonKind, KeepsLog
<1>6. CASE AckKind(n, s, r, M)
  BY <1>2, <1>6 DEF AckKind, TryCommitted
<1>7. CASE ProposeKind(n, s, r)
  BY <1>3, <1>7, ProposeWrites
<1>8. ASSUME NEW m \in M, AcceptKind(n, s, r, m)
      PROVE  WritesItsLog(D[n], s, r)
  <2>1. MessageOK(b, G, D, M, m)
    OBVIOUS
  <2>2. \/ WritesNothing(r) /\ r.node.log = s.log
        \/ \E i : WritesAt(r, s.log, i) /\ r.node.log = Spliced(s.log, i, r.entries, Len(r.entries))
    BY <1>1, <1>8, <2>1, AcceptLog
  <2> QED
    BY <1>2, <1>3, <2>2
<1> QED
  BY <1>4, <1>5, <1>6, <1>7, <1>8 DEF StepKind

(* A crash between two writes leaves the disks in accord with the          *)
(* histories.                                                              *)
LEMMA CutSteady ==
    ASSUME NEW n \in Server, NEW s, NodeTypeOK(s), NEW r, ResultTypeOK(r),
           NEW b, NEW G, NEW D, NEW D2, NEW M, NEW a,
           Core(b, G, D, M), \A m \in M : MessageOK(b, G, D, M, m),
           NodeOK(b, G, D, M, n, s, a), StepKind(n, s, r, M), VoteResult(n, s, r),
           s.currentTerm = D[n].currentTerm, DiskStep(n, D, D2), D2[n] \in CutWrites(D[n], r)
    PROVE  \E G2 : Steady(n, b, G, D, M, b, G2, D2, M)
<1>1. /\ D \in [Server -> HardState] /\ D[n] \in HardState /\ s.log = D[n].log
      /\ D[n].log \in Seq(Entry) /\ Numbered(D[n].log)
  BY DiskNumbered DEF NodeOK, DiskStep
<1>2. PICK e : e = D2[n] /\ e \in CutWrites(D[n], r)
  OBVIOUS
<1>3. /\ AckStep(n, b, G, D2, M, M) /\ SameAcks(M, M) /\ M \subseteq M
      /\ \A m \in M : m \in M \/ (m.from = n /\ m.term = D2[n].currentTerm)
  BY DEF AckStep, SameAcks
<1>4. CASE e.log = D[n].log
  <2>1. LogStep(n, b, G, D, D2)
    BY <1>2, <1>4 DEF LogStep
  <2> QED
    BY <1>3, <2>1, SteadyMerge
<1>5. CASE WritesNothing(r)
  BY <1>1, <1>2, <1>4, <1>5, DiskWritesNothing
<1>6. ASSUME NEW i, WritesAt(r, s.log, i)
      PROVE  \/ e.log = D[n].log
             \/ /\ D2[n].currentTerm = r.node.currentTerm
                /\ \E k \in 0..Len(r.entries) : e.log = Spliced(s.log, i, r.entries, k)
  <2>1. \/ e.log = D[n].log
        \/ /\ e.currentTerm = (IF r.persist THEN r.node.currentTerm ELSE D[n].currentTerm)
           /\ \E k \in 0..Len(r.entries) : e.log = Spliced(D[n].log, i, r.entries, k)
    <3>1. WritesAt(r, D[n].log, i)
      BY <1>1, <1>6
    <3>2. \A z \in CutWrites(D[n], r) :
             \/ z.log = D[n].log
             \/ /\ z.currentTerm = (IF r.persist THEN r.node.currentTerm ELSE D[n].currentTerm)
                /\ \E k \in 0..Len(r.entries) : z.log = Spliced(D[n].log, i, r.entries, k)
      BY <1>1, <3>1, DiskWritesAt
    <3> QED
      BY <1>2, <3>2
  <2>2. ~r.persist => r.node.currentTerm = D[n].currentTerm
    BY DEF VoteResult
  <2> QED
    BY <1>1, <1>2, <2>1, <2>2
<1>7. CASE QuietKind(n, s, r, M)
  BY <1>5, <1>7 DEF QuietKind, KeepsLog
<1>8. CASE WonKind(n, s, r, M)
  BY <1>5, <1>8 DEF WonKind, KeepsLog
<1>9. CASE AckKind(n, s, r, M)
  BY <1>5, <1>9 DEF AckKind
<1>10. CASE ProposeKind(n, s, r)
  <2>1. PICK x : /\ x \in Entry /\ x.term = s.currentTerm /\ x.index = Len(s.log) + 1
                 /\ r.node.log = Append(s.log, x) /\ r.node.currentTerm = s.currentTerm
                 /\ r.entries = << x >> /\ Len(r.entries) = 1
                 /\ WritesAt(r, s.log, Len(s.log) + 1)
                 /\ r.node.log = Spliced(s.log, Len(s.log) + 1, r.entries, Len(r.entries))
    BY <1>10, ProposeWrites, Zenon
  <2>2. ASSUME NEW k \in 0..Len(r.entries),
               e.log = Spliced(s.log, Len(s.log) + 1, r.entries, k),
               D2[n].currentTerm = r.node.currentTerm
        PROVE  \E G2 : Steady(n, b, G, D, M, b, G2, D2, M)
    <3>1. k = 0 \/ k = 1
      BY <2>1, <2>2
    <3>2. CASE k = 0
      <4>1. e.log = D[n].log
        BY <1>1, <2>1, <2>2, <3>2, SplicedAppend
      <4> QED
        BY <1>4, <4>1
    <3>3. CASE k = 1
      <4>1. D2[n].log = Append(D[n].log, x)
        BY <1>1, <1>2, <2>1, <2>2, <3>3, SplicedAppend
      <4>2. PICK t0 \in Nat : t0 = s.currentTerm
        BY DEF NodeTypeOK, RaftNode
      <4>3. b[t0] = n /\ G[t0] = D[n].log
        BY <1>1, <1>10, <4>2 DEF NodeOK, LeaderOK, ProposeKind
      <4>4. PICK G2 : G2 = [G EXCEPT ![t0] = D2[n].log]
        OBVIOUS
      <4>5. GrowStep(n, t0, x, b, G, D, G2, D2)
        BY <1>1, <2>1, <2>2, <4>1, <4>2, <4>3, <4>4 DEF GrowStep
      <4>6. Steady(n, b, G, D, M, b, G2, D2, M)
        BY <1>3, <4>5, SteadyGrow
      <4> QED
        BY <4>6
    <3> QED
      BY <3>1, <3>2, <3>3
  <2> QED
    BY <1>4, <1>6, <2>1, <2>2
<1>11. ASSUME NEW m \in M, AcceptKind(n, s, r, m)
       PROVE  \E G2 : Steady(n, b, G, D, M, b, G2, D2, M)
  <2>1. MessageOK(b, G, D, M, m)
    OBVIOUS
  <2>2. /\ m \in AppendEntriesReq /\ m.to = n /\ r.node.currentTerm = m.term
    BY <1>11 DEF AcceptKind
  <2>3. PICK u \in Nat : u = m.term
    BY <2>2 DEF AppendEntriesReq
  <2>4. b[u] \notin {Nil, n} /\ G[u] \in Seq(Entry)
    <3>1. m.type = "AppendEntries" /\ m.from \in Server
      BY <2>2 DEF AppendEntriesReq
    <3>2. G[u] \in Seq(Entry)
      BY DEF Core, History
    <3> QED
      BY <2>1, <2>2, <2>3, <3>1, <3>2, ServerAssumption DEF MessageOK
  <2>5. \/ WritesNothing(r)
        \/ \E i : CutsIn(s.log, G[u], i, r.entries) /\ WritesAt(r, s.log, i)
    BY <1>1, <1>11, <2>1, <2>3, AcceptLog
  <2>6. ASSUME NEW i, CutsIn(s.log, G[u], i, r.entries), WritesAt(r, s.log, i)
        PROVE  \E G2 : Steady(n, b, G, D, M, b, G2, D2, M)
    <3>1. ASSUME NEW k \in 0..Len(r.entries), e.log = Spliced(s.log, i, r.entries, k),
                 D2[n].currentTerm = r.node.currentTerm
          PROVE  Steady(n, b, G, D, M, b, G, D2, M)
      <4>1. Merged(s.log, G[u], e.log)
        BY <1>1, <2>4, <2>6, <3>1, SplicedMerged
      <4>2. LogStep(n, b, G, D, D2)
        BY <1>1, <1>2, <2>2, <2>3, <2>4, <3>1, <4>1 DEF LogStep
      <4> QED
        BY <1>3, <4>2, SteadyMerge
    <3> QED
      BY <1>4, <1>6, <2>6, <3>1
  <2> QED
    BY <1>5, <2>5, <2>6
<1> QED
  BY <1>7, <1>8, <1>9, <1>10, <1>11 DEF StepKind

-----------------------------------------------------------------------------
(* The steps, put together.                                                *)

LEMMA KindKept ==
    ASSUME NEW n \in Server, NEW s, NodeTypeOK(s), NEW r, ResultTypeOK(r),
           NEW b, NEW G, NEW D, NEW D2, NEW M, NEW M2, NEW a,
           Core(b, G, D, M), \A m \in M : MessageOK(b, G, D, M, m),
           NodeOK(b, G, D, M, n, s, a), Done(n, s, r, D, D2, M, M2),
           StepKind(n, s, r, M),
           r.node.role = Leader => b[r.node.currentTerm] \in {Nil, n}
    PROVE  \E b2, G2 :
              /\ Kept(n, b, G, D, M, b2, G2, D2, M2, r.node, a \o r.applies)
              /\ b2 # b => /\ r.node.role = Leader
                           /\ b2 = [b EXCEPT ![r.node.currentTerm] = n]
<1>1. CASE QuietKind(n, s, r, M)
  BY <1>1, QuietDone
<1>2. CASE WonKind(n, s, r, M)
  <2>1. r.node.role = Leader
    BY <1>2 DEF WonKind
  <2>2. \E G2 : Kept(n, b, G, D, M, [b EXCEPT ![r.node.currentTerm] = n], G2,
                     D2, M2, r.node, a \o r.applies)
    BY <1>2, <2>1, WonDone
  <2> QED
    BY <2>1, <2>2
<1>3. CASE AckKind(n, s, r, M)
  BY <1>3, AckDone
<1>4. CASE ProposeKind(n, s, r)
  BY <1>4, ProposeDone
<1>5. ASSUME NEW m \in M, AcceptKind(n, s, r, m)
      PROVE  Kept(n, b, G, D, M, b, G, D2, M2, r.node, a \o r.applies)
  BY <1>5, AcceptDone
<1> QED
  BY <1>1, <1>2, <1>3, <1>4, <1>5 DEF StepKind

LEMMA OthersKept ==
    ASSUME NEW n \in Server, NEW b, NEW G, NEW D, NEW M, NEW b2, NEW G2, NEW D2, NEW M2,
           Steady(n, b, G, D, M, b2, G2, D2, M2), M2 \subseteq Message,
           \A m \in M2 : MessageOK(b2, G2, D2, M2, m), NewVotes(n, D, D2, M, M2),
           NEW p \in Server, p # n, NEW s \in RaftNode, NEW a, NodeOK(b, G, D, M, p, s, a)
    PROVE  NodeOK(b2, G2, D2, M2, p, s, a)
<1>1. s.log = D2[p].log /\ Rooted(b, G, s.log, D[p].currentTerm) /\ s.currentTerm \in Nat
  BY DEF NodeOK, Steady, DiskStep, Core, DiskLogs, RaftNode
<1>2. LeaderOK(b2, G2, M2, p, s) /\ CommitOK(b2, G2, M2, s, a)
  BY LeaderStable, CommitStable DEF NodeOK
<1>3. CASE s.role = Candidate
  <2>1. CandidateOK(b, G, D, M, p, s) /\ b[s.currentTerm] # p
    BY <1>3 DEF NodeOK, CandidateOK
  <2>2. b2[s.currentTerm] # p
    BY <1>1, <2>1 DEF Steady
  <2>3. CandidateOK(b2, G2, D2, M2, p, s)
    BY <1>1, <1>3, <2>1, <2>2, CandidateStable
  <2> QED
    BY <1>1, <1>2, <2>3 DEF NodeOK
<1>4. CASE s.role # Candidate
  BY <1>1, <1>2, <1>4 DEF NodeOK, CandidateOK
<1> QED
  BY <1>3, <1>4

(* The longest apply stream stays a chosen sequence and only grows.        *)
LEMMA ChosenStep ==
    ASSUME NEW b, NEW G, NEW D, NEW M, Core(b, G, D, M),
           NEW c \in Seq(Entry), ChosenLog(b, G, M, c),
           NEW a \in Seq(Entry), ChosenLog(b, G, M, a),
           NEW c2, c2 = IF Len(a) > Len(c) THEN a ELSE c
    PROVE  /\ c2 \in Seq(Entry) /\ ChosenLog(b, G, M, c2)
           /\ Agree(c, c2, Len(c)) /\ Agree(a, c2, Len(a))
<1>1. Len(a) \in Nat /\ Len(c) \in Nat
  BY LenProperties
<1>2. ASSUME NEW x \in Seq(Entry) PROVE Agree(x, x, Len(x))
  BY LenProperties DEF Agree
<1>3. CASE Len(a) > Len(c)
  <2>1. Len(c) <= Len(a)
    BY <1>1, <1>3
  <2> QED
    BY <1>2, <1>3, <2>1, ChosenAgree
<1>4. CASE ~(Len(a) > Len(c))
  <2>1. Len(a) <= Len(c)
    BY <1>1, <1>4
  <2> QED
    BY <1>2, <1>4, <2>1, ChosenAgree
<1> QED
  BY <1>3, <1>4

LEMMA AgreeLonger ==
    ASSUME NEW a \in Seq(Entry), NEW c \in Seq(Entry), NEW c2 \in Seq(Entry),
           Agree(a, c, Len(a)), Agree(c, c2, Len(c))
    PROVE  Agree(a, c2, Len(a))
<1>1. Len(a) \in Nat /\ Len(c) \in Nat /\ Len(a) <= Len(c) /\ Len(a) \in 0..Len(c)
  BY LenProperties DEF Agree
<1>2. Agree(c, c2, Len(a))
  BY <1>1, AgreeFacts
<1> QED
  BY <1>1, <1>2, AgreeFacts

-----------------------------------------------------------------------------
(* The invariant                                                           *)

(* b and G are the histories that D, M, the memories N of the servers U    *)
(* that are up, the apply streams A and the longest stream c agree with.   *)
LogState(b, G, D, M, U, N, A, c) ==
    /\ Core(b, G, D, M)
    /\ \A m \in M : MessageOK(b, G, D, M, m)
    /\ \A n \in U : NodeOK(b, G, D, M, n, N[n], A[n])
    /\ \A t \in Nat : b[t] # Nil => WonIn(M, b[t], t)
    /\ ChosenLog(b, G, M, c)
    /\ \A n \in Server : Agree(A[n], c, Len(A[n]))
    /\ \A n \in Server \ U : A[n] = << >>

LogInv == \E b, G : LogState(b, G, disk, messages, up, node, applied, chosen)

(* A term is won by one server.                                            *)
LEMMA WonOnce ==
    TypeOK /\ VoteInv =>
        \A c, d \in Server : \A t \in Terms : Won(c, t) /\ Won(d, t) => c = d
<1> SUFFICES ASSUME TypeOK, VoteInv, NEW c \in Server, NEW d \in Server, NEW t \in Terms,
                    Won(c, t), Won(d, t)
             PROVE  c = d
  OBVIOUS
<1>1. PICK P \in SUBSET Server :
        Cardinality(P) >= Majority /\ \A v \in P : Ballot(v, c, t)
  BY DEF Won, WonIn, Ballot
<1>2. PICK Q \in SUBSET Server :
        Cardinality(Q) >= Majority /\ \A v \in Q : Ballot(v, d, t)
  BY DEF Won, WonIn, Ballot
<1>3. PICK v \in Server : Ballot(v, c, t) /\ Ballot(v, d, t)
  BY <1>1, <1>2, MajoritiesMeet
<1> QED
  BY <1>3 DEF VoteInv, BallotsAreUnique

(* Neither torn truncations nor failing writes: what the code assumes of   *)
(* sled.                                                                   *)
ReliableDisk == StorageFaults = {}

(* Server n carries out the effects r of a step.                           *)
LEMMA ExecuteLogInv ==
    ASSUME TypeOK, TypeOK', VoteInv, VoteInv', NEW n \in up, NEW r, ResultTypeOK(r),
           VoteResult(n, node[n], r), Execute(n, r),
           disk'[n].currentTerm = r.node.currentTerm,
           disk'[n].currentTerm >= disk[n].currentTerm,
           StepKind(n, node[n], r, messages), LogInv
    PROVE  LogInv' /\ Agree(chosen, chosen', Len(chosen))
<1>1. PICK b, G : LogState(b, G, disk, messages, up, node, applied, chosen)
  BY DEF LogInv
<1>2. /\ n \in Server /\ NodeTypeOK(node[n]) /\ DOMAIN node = Server
      /\ disk \in [Server -> HardState] /\ disk' \in [Server -> HardState]
      /\ messages' \subseteq Message /\ chosen \in Seq(Entry)
      /\ applied \in [Server -> Seq(Entry)] /\ applied' \in [Server -> Seq(Entry)]
      /\ \A p \in Server : node[p] \in RaftNode
  BY DEF TypeOK, NodeTypeOK
<1>3. /\ node'[n] = r.node /\ up' = up /\ applied'[n] = applied[n] \o r.applies
      /\ disk'[n] = Durable(disk[n], r)
      /\ \A p \in Server \ {n} :
            node'[p] = node[p] /\ disk'[p] = disk[p] /\ applied'[p] = applied[p]
      /\ chosen' = IF Len(applied'[n]) > Len(chosen) THEN applied'[n] ELSE chosen
  BY <1>2 DEF Execute, Deliver
<1>4. messages \subseteq messages' /\ messages' \subseteq messages \cup r.sends
  BY InertIsNoBallot DEF Execute
<1>5. /\ Core(b, G, disk, messages) /\ \A m \in messages : MessageOK(b, G, disk, messages, m)
      /\ NodeOK(b, G, disk, messages, n, node[n], applied[n])
  BY <1>1 DEF LogState
<1>6. Done(n, node[n], r, disk, disk', messages, messages')
  <2>1. Durable(disk[n], r).log = r.node.log /\ (WritesNothing(r) => r.node.log = node[n].log)
    <3>1. PICK s : s = node[n]
      OBVIOUS
    <3>2. PICK a : a = applied[n]
      OBVIOUS
    <3>3. PICK D : D = disk /\ D \in [Server -> HardState]
      BY <1>2
    <3>4. PICK M : M = messages
      OBVIOUS
    <3>5. /\ NodeTypeOK(s) /\ StepKind(n, s, r, M) /\ NodeOK(b, G, D, M, n, s, a)
          /\ Core(b, G, D, M) /\ \A m \in M : MessageOK(b, G, D, M, m)
      BY <1>2, <1>5, <3>1, <3>2, <3>3, <3>4
    <3>6. WritesItsLog(D[n], s, r)
      BY <1>2, <3>3, <3>5, KindWrites
    <3> QED
      BY <3>1, <3>3, <3>6 DEF WritesItsLog
  <2>2. node[n].log = disk[n].log /\ node[n].currentTerm = disk[n].currentTerm
    BY <1>5 DEF NodeOK, VoteInv, HardStateMirrored
  <2>3. DiskStep(n, disk, disk')
    BY <1>2, <1>3 DEF DiskStep
  <2> QED
    BY <1>2, <1>3, <1>4, <2>1, <2>2, <2>3 DEF Done
<1>7. r.node.role = Leader =>
         /\ r.node.currentTerm \in Nat
         /\ WonIn(messages', n, r.node.currentTerm)
         /\ b[r.node.currentTerm] \in {Nil, n}
  <2> SUFFICES ASSUME r.node.role = Leader
               PROVE  /\ r.node.currentTerm \in Nat
                      /\ WonIn(messages', n, r.node.currentTerm)
                      /\ b[r.node.currentTerm] \in {Nil, n}
    OBVIOUS
  <2>1. PICK u \in Nat : u = r.node.currentTerm
    BY DEF ResultTypeOK, Result, RaftNode
  <2>2. Won(n, u)'
    BY <1>3, <2>1 DEF VoteInv, LeadersHaveWon
  <2>3. u \in Terms'
    BY <1>2, <1>3, <2>1 DEF Terms
  <2>4. ASSUME b[u] # Nil PROVE b[u] = n
    <3>1. b[u] \in Server
      BY <1>5, <2>4 DEF Core, History
    <3>2. WonIn(messages, b[u], u)
      BY <1>1, <2>4 DEF LogState
    <3>3. Won(b[u], u)'
      BY <1>4, <3>2, WonMonotone DEF Won
    <3>4. (TypeOK /\ VoteInv =>
             \A c, d \in Server : \A t \in Terms : Won(c, t) /\ Won(d, t) => c = d)'
      BY WonOnce, PTL
    <3>5. \A c, d \in Server : \A t \in Terms' : Won(c, t)' /\ Won(d, t)' => c = d
      BY <3>4
    <3> QED
      BY <1>2, <2>2, <2>3, <3>1, <3>3, <3>5
  <2> QED
    BY <2>1, <2>2, <2>4 DEF Won
<1>8. PICK b2, G2 :
        /\ Kept(n, b, G, disk, messages, b2, G2, disk', messages', r.node, applied[n] \o r.applies)
        /\ b2 # b => r.node.role = Leader /\ b2 = [b EXCEPT ![r.node.currentTerm] = n]
  <2>1. PICK s : s = node[n]
    OBVIOUS
  <2>2. PICK a : a = applied[n]
    OBVIOUS
  <2>3. PICK D, D2 : D = disk /\ D2 = disk'
    OBVIOUS
  <2>4. PICK M, M2 : M = messages /\ M2 = messages'
    OBVIOUS
  <2>5. /\ NodeTypeOK(s) /\ StepKind(n, s, r, M) /\ NodeOK(b, G, D, M, n, s, a)
        /\ Core(b, G, D, M) /\ \A m \in M : MessageOK(b, G, D, M, m)
        /\ Done(n, s, r, D, D2, M, M2)
    BY <1>2, <1>5, <1>6, <2>1, <2>2, <2>3, <2>4
  <2>6. r.node.role = Leader => b[r.node.currentTerm] \in {Nil, n}
    BY <1>7
  <2>7. \E b2, G2 :
          /\ Kept(n, b, G, D, M, b2, G2, D2, M2, r.node, a \o r.applies)
          /\ b2 # b => /\ r.node.role = Leader
                       /\ b2 = [b EXCEPT ![r.node.currentTerm] = n]
    BY <1>2, <2>5, <2>6, KindKept
  <2> QED
    BY <2>2, <2>3, <2>4, <2>7
<1>9. /\ Steady(n, b, G, disk, messages, b2, G2, disk', messages')
      /\ Core(b2, G2, disk', messages')
      /\ \A m \in messages' : MessageOK(b2, G2, disk', messages', m)
      /\ NewVotes(n, disk, disk', messages, messages')
      /\ NodeOK(b2, G2, disk', messages', n, node'[n], applied'[n])
  BY <1>3, <1>8 DEF Kept, Steady
<1>10. \A p \in up' : NodeOK(b2, G2, disk', messages', p, node'[p], applied'[p])
  <2> SUFFICES ASSUME NEW p \in up, p # n
               PROVE  NodeOK(b2, G2, disk', messages', p, node'[p], applied'[p])
    BY <1>3, <1>9
  <2>1. p \in Server /\ node'[p] = node[p] /\ applied'[p] = applied[p] /\ node[p] \in RaftNode
    BY <1>2, <1>3 DEF TypeOK
  <2>2. NodeOK(b, G, disk, messages, p, node[p], applied[p])
    BY <1>1 DEF LogState
  <2> QED
    BY <1>2, <1>9, <2>1, <2>2, OthersKept
<1>11. \A t \in Nat : b2[t] # Nil => WonIn(messages', b2[t], t)
  <2> SUFFICES ASSUME NEW t \in Nat, b2[t] # Nil PROVE WonIn(messages', b2[t], t)
    OBVIOUS
  <2>1. CASE b2[t] = b[t]
    <3>1. WonIn(messages, b[t], t)
      BY <1>1, <2>1 DEF LogState
    <3> QED
      BY <1>4, <2>1, <3>1, WonMonotone
  <2>2. CASE b2[t] # b[t]
    <3>1. r.node.role = Leader /\ b2 = [b EXCEPT ![r.node.currentTerm] = n]
      BY <1>8, <2>2
    <3>2. t = r.node.currentTerm /\ b2[t] = n
      BY <1>5, <1>7, <2>2, <3>1 DEF Core, History
    <3> QED
      BY <1>7, <3>1, <3>2
  <2> QED
    BY <2>1, <2>2
<1>12. /\ ChosenLog(b2, G2, messages', chosen')
       /\ Agree(chosen, chosen', Len(chosen)) /\ Agree(applied'[n], chosen', Len(applied'[n]))
       /\ chosen' \in Seq(Entry)
  <2>1. ChosenLog(b2, G2, messages', chosen)
    BY <1>1, <1>2, <1>9, ChosenLogStable DEF LogState
  <2>2. /\ Rooted(b2, G2, node'[n].log, disk'[n].currentTerm) /\ History(b2, G2)
        /\ node'[n] \in RaftNode
    BY <1>2, <1>3, <1>9 DEF Core, DiskLogs, NodeOK, ResultTypeOK, Result
  <2>3. applied'[n] \in Seq(Entry) /\ ChosenLog(b2, G2, messages', applied'[n])
    BY <1>9, <2>2, AppliedIsChosen DEF NodeOK
  <2> QED
    BY <1>2, <1>3, <1>9, <2>1, <2>3, ChosenStep
<1>13. \A p \in Server : Agree(applied'[p], chosen', Len(applied'[p]))
  <2> SUFFICES ASSUME NEW p \in Server, p # n
               PROVE  Agree(applied'[p], chosen', Len(applied'[p]))
    BY <1>12
  <2>1. applied'[p] = applied[p] /\ applied[p] \in Seq(Entry)
    BY <1>2, <1>3
  <2>2. Agree(applied[p], chosen, Len(applied[p]))
    BY <1>1 DEF LogState
  <2> QED
    BY <1>2, <1>12, <2>1, <2>2, AgreeLonger
<1>14. \A p \in Server \ up' : applied'[p] = << >>
  BY <1>1, <1>3 DEF LogState
<1>15. LogState(b2, G2, disk', messages', up', node', applied', chosen')
  BY <1>9, <1>10, <1>11, <1>12, <1>13, <1>14 DEF LogState
<1> QED
  BY <1>12, <1>15 DEF LogInv

(* Server n crashes before, between or after the writes of r.              *)
LEMMA CrashLogInv ==
    ASSUME ReliableDisk, TypeOK, TypeOK', VoteInv, NEW n \in up, NEW r, ResultTypeOK(r),
           VoteResult(n, node[n], r), CrashDuring(n, r),
           disk'[n].currentTerm >= disk[n].currentTerm,
           StepKind(n, node[n], r, messages), LogInv
    PROVE  LogInv'
<1>1. PICK b, G : LogState(b, G, disk, messages, up, node, applied, chosen)
  BY DEF LogInv
<1>2. /\ n \in Server /\ NodeTypeOK(node[n]) /\ DOMAIN node = Server
      /\ disk \in [Server -> HardState] /\ disk' \in [Server -> HardState]
      /\ messages \subseteq Message /\ chosen \in Seq(Entry)
      /\ applied \in [Server -> Seq(Entry)]
      /\ \A p \in Server : node[p] \in RaftNode
  BY DEF TypeOK, NodeTypeOK
<1>3. /\ up' = up \ {n} /\ applied'[n] = << >> /\ messages' = messages /\ chosen' = chosen
      /\ \A p \in Server \ {n} :
            node'[p] = node[p] /\ disk'[p] = disk[p] /\ applied'[p] = applied[p]
  BY <1>2 DEF CrashDuring
<1>4. disk'[n] \in CutWrites(disk[n], r)
  <2>1. TornTruncations(disk[n], r) = {}
    BY DEF TornTruncations, ReliableDisk
  <2>2. PICK d \in CutWrites(disk[n], r) : disk' = [disk EXCEPT ![n] = d]
    BY <2>1 DEF CrashDuring
  <2> QED
    BY <1>2, <2>2
<1>5. PICK G2 : Steady(n, b, G, disk, messages, b, G2, disk', messages')
  <2>1. PICK s : s = node[n]
    OBVIOUS
  <2>2. PICK a : a = applied[n]
    OBVIOUS
  <2>3. PICK D, D2 : D = disk /\ D2 = disk'
    OBVIOUS
  <2>4. PICK M : M = messages
    OBVIOUS
  <2>5. /\ NodeTypeOK(s) /\ StepKind(n, s, r, M) /\ NodeOK(b, G, D, M, n, s, a)
        /\ Core(b, G, D, M) /\ \A m \in M : MessageOK(b, G, D, M, m)
    BY <1>1, <1>2, <2>1, <2>2, <2>3, <2>4 DEF LogState
  <2>6. VoteResult(n, s, r) /\ s.currentTerm = D[n].currentTerm
    BY <2>1, <2>3 DEF VoteInv, HardStateMirrored
  <2>7. DiskStep(n, D, D2) /\ D2[n] \in CutWrites(D[n], r)
    BY <1>2, <1>3, <1>4, <2>3 DEF DiskStep
  <2>8. \E G2 : Steady(n, b, G, D, M, b, G2, D2, M)
    BY <1>2, <2>5, <2>6, <2>7, CutSteady
  <2> QED
    BY <1>3, <2>3, <2>4, <2>8
<1>6. \A m \in messages' : MessageOK(b, G2, disk', messages', m)
  <2> SUFFICES ASSUME NEW m \in messages
               PROVE  MessageOK(b, G2, disk', messages', m)
    BY <1>3
  <2>1. m \in Message /\ MessageOK(b, G, disk, messages, m)
    BY <1>1, <1>2 DEF LogState
  <2> QED
    BY <1>2, <1>5, <2>1, MessageStable
<1>7. NewVotes(n, disk, disk', messages, messages')
  BY <1>3 DEF NewVotes
<1>8. \A p \in up' : NodeOK(b, G2, disk', messages', p, node'[p], applied'[p])
  <2> SUFFICES ASSUME NEW p \in up, p # n
               PROVE  NodeOK(b, G2, disk', messages', p, node'[p], applied'[p])
    BY <1>3
  <2>1. p \in Server /\ node'[p] = node[p] /\ applied'[p] = applied[p] /\ node[p] \in RaftNode
    BY <1>2, <1>3 DEF TypeOK
  <2>2. NodeOK(b, G, disk, messages, p, node[p], applied[p])
    BY <1>1 DEF LogState
  <2>3. messages' \subseteq Message
    BY <1>2, <1>3
  <2> QED
    BY <1>2, <1>5, <1>6, <1>7, <2>1, <2>2, <2>3, OthersKept
<1>9. ChosenLog(b, G2, messages', chosen')
  <2>1. ChosenLog(b, G, messages, chosen)
    BY <1>1 DEF LogState
  <2>2. ChosenLog(b, G2, messages', chosen)
    BY <1>2, <1>5, <2>1, ChosenLogStable
  <2> QED
    BY <1>3, <2>2
<1>10. \A p \in Server : Agree(applied'[p], chosen', Len(applied'[p]))
  <2>1. ASSUME NEW p \in Server, p # n PROVE Agree(applied'[p], chosen', Len(applied'[p]))
    BY <1>1, <1>3, <2>1 DEF LogState
  <2>2. Agree(applied'[n], chosen', Len(applied'[n]))
    <3>1. Len(applied'[n]) = 0 /\ Len(chosen') \in Nat
      BY <1>2, <1>3, LenProperties
    <3> QED
      BY <3>1 DEF Agree
  <2> QED
    BY <2>1, <2>2
<1>11. \A p \in Server \ up' : applied'[p] = << >>
  BY <1>1, <1>3 DEF LogState
<1>12. \A t \in Nat : b[t] # Nil => WonIn(messages', b[t], t)
  BY <1>1, <1>3 DEF LogState
<1>13. Core(b, G2, disk', messages')
  BY <1>5 DEF Steady
<1>14. LogState(b, G2, disk', messages', up', node', applied', chosen')
  BY <1>6, <1>8, <1>9, <1>10, <1>11, <1>12, <1>13 DEF LogState
<1> QED
  BY <1>14 DEF LogInv

LEMMA RestartLogInv ==
    ASSUME TypeOK, NEW n \in Server, Restart(n), LogInv
    PROVE  LogInv'
<1>1. PICK b, G : LogState(b, G, disk, messages, up, node, applied, chosen)
  BY DEF LogInv
<1>2. /\ n \notin up /\ up' = up \cup {n} /\ node'[n] = Recover(disk[n])
      /\ disk' = disk /\ messages' = messages /\ applied' = applied /\ chosen' = chosen
      /\ \A p \in up : node'[p] = node[p]
      /\ disk[n].log \in Seq(Entry)
  BY DEF Restart, TypeOK, HardState
<1>3. PICK s : s = Recover(disk[n])
  OBVIOUS
<1>4. /\ s.role = Follower /\ s.log = disk[n].log
      /\ s.commitIndex = 0 /\ s.lastApplied = 0
  BY <1>3 DEF Recover, NewNode
<1>5. NodeOK(b, G, disk, messages, n, s, applied[n])
  <2>1. applied[n] = << >>
    BY <1>1, <1>2 DEF LogState
  <2>2. SubSeq(s.log, 1, 0) = << >> /\ Len(s.log) \in Nat
    BY <1>2, <1>4, LenProperties
  <2>3. CommitOK(b, G, messages, s, applied[n])
    BY <1>4, <2>1, <2>2 DEF CommitOK
  <2>4. LeaderOK(b, G, messages, n, s) /\ CandidateOK(b, G, disk, messages, n, s)
    BY <1>4 DEF LeaderOK, CandidateOK, Follower, Candidate, Leader
  <2> QED
    BY <1>4, <2>3, <2>4 DEF NodeOK
<1>6. \A p \in up' : NodeOK(b, G, disk, messages, p, node'[p], applied[p])
  BY <1>1, <1>2, <1>3, <1>5 DEF LogState
<1>7. LogState(b, G, disk', messages', up', node', applied', chosen')
  BY <1>1, <1>2, <1>6 DEF LogState
<1> QED
  BY <1>7 DEF LogInv

LEMMA InitLogInv == Init => LogInv
<1> SUFFICES ASSUME Init PROVE LogInv
  OBVIOUS
<1>1. PICK b : b = [t \in Nat |-> Nil]
  OBVIOUS
<1>2. PICK G : G = [t \in Nat |-> << >>]
  OBVIOUS
<1>3. /\ \A n \in Server : /\ disk[n] = EmptyDisk /\ node[n] = NewNode /\ applied[n] = << >>
                           /\ disk[n].log = << >> /\ disk[n].currentTerm = 0
      /\ messages = {} /\ up = Server /\ chosen = << >>
  BY DEF Init, EmptyDisk
<1>4. /\ << >> \in Seq(Entry) /\ Len(<< >>) = 0
      /\ \A t \in Nat : b[t] = Nil /\ G[t] = << >>
      /\ History(b, G)
  BY <1>1, <1>2 DEF History
<1>5. \A t : Rooted(b, G, << >>, t)
  BY <1>4 DEF Rooted
<1>6. Core(b, G, disk, messages)
  <2>1. LeaderLogs(b, G)
    BY <1>4, <1>5 DEF LeaderLogs
  <2>2. Elected(b, disk)
    BY <1>4 DEF Elected
  <2>3. DiskLogs(b, G, disk)
    BY <1>3, <1>5 DEF DiskLogs
  <2>4. AcksHold(b, G, disk, messages)
    BY <1>3 DEF AcksHold, AckedIn
  <2>5. Succession(b, G, disk, messages) /\ HoldersHold(b, G, disk, messages)
    BY <1>4 DEF Succession, HoldersHold, Stamped
  <2> QED
    BY <1>4, <2>1, <2>2, <2>3, <2>4, <2>5 DEF Core
<1>7. ASSUME NEW n \in Server PROVE NodeOK(b, G, disk, messages, n, node[n], applied[n])
  <2>1. /\ NewNode.role = Follower /\ NewNode.log = << >>
        /\ NewNode.commitIndex = 0 /\ NewNode.lastApplied = 0
    BY DEF NewNode
  <2>2. SubSeq(<< >>, 1, 0) = << >>
    OBVIOUS
  <2>3. CommitOK(b, G, messages, NewNode, << >>)
    BY <1>4, <2>1, <2>2 DEF CommitOK
  <2>4. LeaderOK(b, G, messages, n, NewNode) /\ CandidateOK(b, G, disk, messages, n, NewNode)
    BY <2>1 DEF LeaderOK, CandidateOK, Follower, Candidate, Leader
  <2> QED
    BY <1>3, <2>1, <2>3, <2>4 DEF NodeOK
<1>8. LogState(b, G, disk, messages, up, node, applied, chosen)
  <2>1. \A n \in Server : Agree(applied[n], chosen, Len(applied[n]))
    BY <1>3, <1>4 DEF Agree
  <2> QED
    BY <1>3, <1>4, <1>6, <1>7, <2>1 DEF LogState, ChosenLog
<1> QED
  BY <1>8 DEF LogInv

LEMMA StepLogInv ==
    ReliableDisk /\ TypeOK /\ VoteInv /\ LogInv /\ [Next]_vars
    => LogInv' /\ Agree(chosen, chosen', Len(chosen))
<1> SUFFICES ASSUME ReliableDisk, TypeOK, VoteInv, LogInv, [Next]_vars
             PROVE  LogInv' /\ Agree(chosen, chosen', Len(chosen))
  OBVIOUS
<1>1. ReliableWrites
  BY DEF ReliableDisk, ReliableWrites
<1>2. TypeOK' /\ VoteInv'
  BY <1>1, StepType, StepVoteInv
<1>3. Agree(chosen, chosen, Len(chosen))
  BY LenProperties DEF TypeOK, Agree
<1>4. ASSUME NEW n \in up, NEW r, StepResult(n, r), Run(n, r)
      PROVE  LogInv' /\ Agree(chosen, chosen', Len(chosen))
  <2>1. Backed(messages, n, node[n]) /\ n \in Server
    BY DEF VoteInv, CandidatesCountBallots, LeadersHaveWon, Backed, Ballot, Won, TypeOK
  <2>2. \A m \in messages : m.to # m.from
    BY DEF LogInv, LogState, MessageOK
  <2>3. ResultTypeOK(r) /\ VoteResult(n, node[n], r)
    BY <1>4, <2>1, StepResultType, StepResultVote
  <2>4. StepKind(n, node[n], r, messages)
    BY <1>4, <2>1, <2>2, StepResultKind
  <2>5. /\ \A v \in Server : VoteStep(disk[v], disk'[v])
        /\ n \in up' => /\ Execute(n, r)
                        /\ disk'[n].currentTerm = r.node.currentTerm
                        /\ disk'[n].votedFor = r.node.votedFor
    BY <1>1, <1>4, <2>3, RunDisk DEF VoteInv
  <2>6. disk'[n].currentTerm >= disk[n].currentTerm
    BY <2>1, <2>5 DEF VoteStep
  <2>7. CASE Execute(n, r)
    <3>1. n \in up'
      BY <2>7 DEF Execute, Deliver
    <3> QED
      BY <1>2, <2>3, <2>4, <2>5, <2>6, <2>7, <3>1, ExecuteLogInv
  <2>8. CASE CrashDuring(n, r)
    <3>1. chosen' = chosen
      BY <2>8 DEF CrashDuring
    <3> QED
      BY <1>2, <1>3, <2>3, <2>4, <2>6, <2>8, <3>1, CrashLogInv
  <2> QED
    BY <1>1, <1>4, <2>7, <2>8 DEF Run, PersistFails, ReliableWrites
<1>5. CASE Next
  <2>1. PICK n \in Server :
          \/ Restart(n)
          \/ n \in up /\ elections' \in Nat /\ \E r : StepResult(n, r) /\ Run(n, r)
    BY <1>5, NextCases
  <2>2. CASE Restart(n)
    <3>1. chosen' = chosen
      BY <2>2 DEF Restart
    <3> QED
      BY <1>3, <2>2, <3>1, RestartLogInv
  <2> QED
    BY <1>4, <2>1, <2>2
<1>6. CASE UNCHANGED vars
  BY <1>3, <1>6 DEF vars, LogInv
<1> QED
  BY <1>5, <1>6

-----------------------------------------------------------------------------
(* What follows from the invariant *)

LEMMA AgreeSubSeq ==
    ASSUME NEW p \in Seq(Entry), NEW q \in Seq(Entry), NEW i \in Nat, Agree(p, q, i)
    PROVE  /\ SubSeq(p, 1, i) = SubSeq(q, 1, i)
           /\ Prefix(SubSeq(p, 1, i), q)
<1>1. 1 <= i + 1 /\ i - 1 + 1 = i /\ \A j \in Nat : 1 + j - 1 = j
  OBVIOUS
<1>2. i <= Len(p) /\ i <= Len(q) /\ \A k \in 1..i : p[k] = q[k]
  BY DEF Agree
<1>3. /\ SubSeq(p, 1, i) \in Seq(Entry) /\ Len(SubSeq(p, 1, i)) = i
      /\ \A j \in 1..i : SubSeq(p, 1, i)[j] = p[j]
  BY <1>1, <1>2, SubSeqFacts
<1>4. /\ SubSeq(q, 1, i) \in Seq(Entry) /\ Len(SubSeq(q, 1, i)) = i
      /\ \A j \in 1..i : SubSeq(q, 1, i)[j] = q[j]
  BY <1>1, <1>2, SubSeqFacts
<1>5. \A j \in 1..i : SubSeq(p, 1, i)[j] = SubSeq(q, 1, i)[j]
  BY <1>2, <1>3, <1>4
<1>6. SubSeq(p, 1, i) = SubSeq(q, 1, i)
  BY <1>3, <1>4, <1>5, SeqEqual
<1>7. Prefix(SubSeq(p, 1, i), q)
  BY <1>2, <1>3 DEF Prefix
<1> QED
  BY <1>6, <1>7

(* The log of a running server is rooted.                                  *)
LEMMA RunningLog ==
    ASSUME NEW b, NEW G, LogState(b, G, disk, messages, up, node, applied, chosen),
           TypeOK, VoteInv, NEW n \in up
    PROVE  /\ n \in Server /\ History(b, G)
           /\ node[n].log \in Seq(Entry) /\ node[n].currentTerm \in Nat
           /\ node[n].log = disk[n].log /\ node[n].currentTerm = disk[n].currentTerm
           /\ Rooted(b, G, node[n].log, node[n].currentTerm)
           /\ LeaderOK(b, G, messages, n, node[n])
<1>1. n \in Server /\ node[n] \in RaftNode
  BY DEF TypeOK, NodeTypeOK
<1>2. node[n].log \in Seq(Entry) /\ node[n].currentTerm \in Nat
  BY <1>1 DEF RaftNode
<1>3. History(b, G) /\ DiskLogs(b, G, disk) /\ NodeOK(b, G, disk, messages, n, node[n], applied[n])
  BY DEF LogState, Core
<1>4. node[n].currentTerm = disk[n].currentTerm
  BY DEF VoteInv, HardStateMirrored
<1> QED
  BY <1>1, <1>2, <1>3, <1>4 DEF NodeOK, DiskLogs

LEMMA LogInvImpliesMatching == TypeOK /\ VoteInv /\ LogInv => LogMatching
<1> SUFFICES ASSUME TypeOK, VoteInv, LogInv, NEW n \in up, NEW p \in up,
                    NEW i \in 1..Len(node[n].log) \cap 1..Len(node[p].log),
                    node[n].log[i].term = node[p].log[i].term
             PROVE  SubSeq(node[n].log, 1, i) = SubSeq(node[p].log, 1, i)
  BY DEF LogMatching
<1>1. PICK b, G : LogState(b, G, disk, messages, up, node, applied, chosen)
  BY DEF LogInv
<1>2. PICK x \in Seq(Entry) : x = node[n].log /\ Rooted(b, G, x, node[n].currentTerm)
  BY <1>1, RunningLog
<1>3. PICK y \in Seq(Entry) : y = node[p].log /\ Rooted(b, G, y, node[p].currentTerm)
  BY <1>1, RunningLog
<1>4. PICK t : t = x[i].term
  OBVIOUS
<1>5. Has(x, i, t) /\ Has(y, i, t) /\ i \in Nat
  BY <1>2, <1>3, <1>4 DEF Has
<1>6. History(b, G)
  BY <1>1, RunningLog
<1>7. Agree(x, y, i)
  BY <1>2, <1>3, <1>5, <1>6, RootedMeet
<1> QED
  BY <1>2, <1>3, <1>5, <1>7, AgreeSubSeq

LEMMA LogInvImpliesMatchIndex == TypeOK /\ VoteInv /\ LogInv => MatchIndexSound
<1> SUFFICES ASSUME TypeOK, VoteInv, LogInv, NEW n \in up, NEW p \in up \cap Peers(n),
                    node[n].role = Leader, node[p].currentTerm = node[n].currentTerm
             PROVE  /\ node[n].matchIndex[p] <= Len(node[n].log)
                    /\ Prefix(SubSeq(node[n].log, 1, node[n].matchIndex[p]), node[p].log)
  BY DEF MatchIndexSound
<1>1. PICK b, G : LogState(b, G, disk, messages, up, node, applied, chosen)
  BY DEF LogInv
<1>2. PICK x \in Seq(Entry) : x = node[n].log
  BY <1>1, RunningLog
<1>3. PICK y \in Seq(Entry) : y = node[p].log /\ y = disk[p].log
  BY <1>1, RunningLog
<1>4. PICK t \in Nat : t = node[n].currentTerm /\ t = disk[p].currentTerm
  BY <1>1, RunningLog
<1>5. PICK k \in Nat : k = node[n].matchIndex[p]
  BY DEF TypeOK, NodeTypeOK, RaftNode, Peers
<1>6. p \in Server /\ Len(x) \in Nat /\ Len(y) \in Nat
  BY <1>2, <1>3, LenProperties DEF Peers
<1>7. G[t] = x /\ k <= Len(x) /\ (k > 0 => AckedIn(messages, p, k, t))
  <2>1. PICK s : s = node[n]
    OBVIOUS
  <2>2. LeaderOK(b, G, messages, n, s)
    BY <1>1, <2>1, RunningLog
  <2>3. /\ G[s.currentTerm] = s.log
        /\ s.matchIndex[p] <= Len(s.log)
        /\ s.matchIndex[p] > 0 => AckedIn(messages, p, s.matchIndex[p], s.currentTerm)
    BY <1>6, <2>1, <2>2 DEF LeaderOK
  <2> QED
    BY <1>2, <1>4, <1>5, <2>1, <2>3
<1>8. Agree(y, x, k)
  <2>1. CASE k = 0
    BY <1>6, <2>1 DEF Agree
  <2>2. CASE k > 0
    <3>1. AcksHold(b, G, disk, messages)
      BY <1>1 DEF LogState, Core
    <3> QED
      BY <1>3, <1>4, <1>6, <1>7, <2>2, <3>1 DEF AcksHold
  <2> QED
    BY <2>1, <2>2
<1>9. Agree(x, y, k)
  BY <1>8, AgreeFacts
<1>10. Prefix(SubSeq(x, 1, k), y)
  BY <1>9, AgreeSubSeq
<1> QED
  BY <1>2, <1>3, <1>5, <1>7, <1>10

LEMMA LogInvImpliesCompleteness == TypeOK /\ VoteInv /\ LogInv => LeaderCompleteness
<1> SUFFICES ASSUME TypeOK, VoteInv, LogInv, chosen # << >>, NEW n \in up,
                    node[n].role = Leader, node[n].currentTerm >= LastTerm(chosen)
             PROVE  Prefix(chosen, node[n].log)
  BY DEF LeaderCompleteness
<1>1. PICK b, G : LogState(b, G, disk, messages, up, node, applied, chosen)
  BY DEF LogInv
<1>2. PICK c \in Seq(Entry) : c = chosen
  BY DEF TypeOK
<1>3. PICK i \in Nat \ {0} : i = Len(c)
  BY <1>2, LenProperties, EmptySeq
<1>4. PICK t \in Nat : t = LastTerm(c)
  BY LastTermType
<1>5. PICK u \in Nat : u = node[n].currentTerm
  BY <1>1, RunningLog
<1>6. n \in Server /\ b[u] = n /\ G[u] = node[n].log
  BY <1>1, <1>5, RunningLog DEF LeaderOK
<1>7. /\ Core(b, G, disk, messages) /\ History(b, G) /\ LeaderLogs(b, G)
      /\ ChosenLog(b, G, messages, c)
  BY <1>1, <1>2 DEF LogState, Core
<1>8. ChosenAt(b, G, messages, i, t) /\ Agree(c, G[t], i)
  BY <1>2, <1>3, <1>4, <1>7 DEF ChosenLog
<1>9. PICK g \in Seq(Entry) : g = G[t] /\ Rooted(b, G, g, t)
  BY <1>7 DEF History, LeaderLogs
<1>10. i \in 1..Len(g) /\ g[i].term = t
  BY <1>8, <1>9 DEF ChosenAt, Stamped, Has
<1>11. b[u] # Nil /\ t <= u
  BY <1>2, <1>4, <1>5, <1>6, ServerAssumption
<1>12. Agree(g, G[u], i)
  <2>1. PICK D, M : D = disk /\ M = messages
    OBVIOUS
  <2>2. Core(b, G, D, M) /\ ChosenAt(b, G, M, i, g[i].term) /\ g[i].term <= u
    BY <1>7, <1>8, <1>10, <1>11, <2>1
  <2> QED
    BY <1>9, <1>10, <1>11, <2>2, ChosenInLeader
<1>13. G[u] \in Seq(Entry)
  BY <1>7 DEF History
<1>14. Agree(c, G[u], i)
  BY <1>8, <1>9, <1>12, <1>13, AgreeFacts
<1> QED
  BY <1>2, <1>3, <1>6, <1>14 DEF Agree, Prefix

LEMMA LogInvImpliesDurable == TypeOK /\ VoteInv /\ LogInv => ChosenIsDurable
<1> SUFFICES ASSUME TypeOK, VoteInv, LogInv, NEW j \in 1..Len(chosen)
             PROVE  Cardinality({n \in Server : /\ j <= Len(disk[n].log)
                                                /\ disk[n].log[j] = chosen[j]}) >= Majority
  BY DEF ChosenIsDurable
<1>1. PICK b, G : LogState(b, G, disk, messages, up, node, applied, chosen)
  BY DEF LogInv
<1>2. PICK c \in Seq(Entry) : c = chosen
  BY DEF TypeOK
<1>3. PICK i \in Nat \ {0} : i = Len(c) /\ j \in 1..i /\ c # << >>
  BY <1>2, LenProperties, EmptySeq
<1>4. PICK t \in Nat : t = LastTerm(c)
  BY LastTermType
<1>5. /\ Core(b, G, disk, messages) /\ History(b, G) /\ LeaderLogs(b, G)
      /\ HoldersHold(b, G, disk, messages) /\ DiskLogs(b, G, disk)
      /\ ChosenLog(b, G, messages, c)
  BY <1>1, <1>2 DEF LogState, Core
<1>6. ChosenAt(b, G, messages, i, t) /\ Agree(c, G[t], i)
  BY <1>3, <1>4, <1>5 DEF ChosenLog
<1>7. PICK g \in Seq(Entry) : g = G[t] /\ Rooted(b, G, g, t)
  BY <1>5 DEF History, LeaderLogs
<1>8. PICK Q \in SUBSET Server :
        Cardinality(Q) >= Majority /\ \A v \in Q : Holds(b, messages, v, i, t)
  BY <1>6 DEF ChosenAt
<1>9. Stamped(b, G, i, t) /\ ~Dead(b, disk, messages, i, t) /\ Has(g, i, t)
  BY <1>6, <1>7, ChosenIsNotDead DEF Stamped
<1>10. ASSUME NEW v \in Q PROVE j <= Len(disk[v].log) /\ disk[v].log[j] = chosen[j]
  <2>1. PICK y \in Seq(Entry) : y = disk[v].log
    BY DEF TypeOK, HardState
  <2>2. Has(y, i, t) /\ Rooted(b, G, y, disk[v].currentTerm)
    BY <1>5, <1>8, <1>9, <2>1 DEF HoldersHold, DiskLogs
  <2>3. Agree(g, y, i)
    BY <1>5, <1>7, <1>9, <2>2, RootedMeet
  <2>4. Agree(c, y, i)
    BY <1>6, <1>7, <2>3, AgreeFacts
  <2>5. j <= Len(y) /\ c[j] = y[j]
    BY <1>3, <2>4, AgreeFacts
  <2> QED
    BY <1>2, <2>1, <2>5
<1> DEFINE S == {n \in Server : j <= Len(disk[n].log) /\ disk[n].log[j] = chosen[j]}
<1>11. Q \subseteq S /\ S \subseteq Server
  BY <1>10
<1>12. IsFiniteSet(S) /\ IsFiniteSet(Q)
  BY <1>11, ServerAssumption, FS_Subset
<1>13. Cardinality(Q) <= Cardinality(S)
  BY <1>11, <1>12, FS_Subset
<1>14. Cardinality(Q) \in Nat /\ Cardinality(S) \in Nat /\ Majority \in Int
  BY <1>12, ServerAssumption, FS_CardinalityType DEF Majority
<1> QED
  BY <1>8, <1>13, <1>14

(* A step of the protocol is a step of the abstract log or leaves it as it *)
(* is: executing effects delivers, a crash resets.                         *)
LEMMA StepRefines ==
    ASSUME ReliableDisk, TypeOK, TypeOK', LogInv', Agree(chosen, chosen', Len(chosen)),
           [Next]_vars
    PROVE  [Abstract!Next]_<<chosen, applied>>
<1>1. ASSUME NEW n \in Server, NEW r, ResultTypeOK(r), Execute(n, r)
      PROVE  Abstract!Deliver(n)
  <2>1. /\ applied' = [applied EXCEPT ![n] = applied[n] \o r.applies]
        /\ chosen' = IF Len(applied'[n]) > Len(chosen) THEN applied'[n] ELSE chosen
    BY <1>1 DEF Execute, Deliver
  <2>2. /\ applied[n] \in Seq(Entry) /\ r.applies \in Seq(Entry)
        /\ applied \in [Server -> Seq(Entry)]
        /\ applied' \in [Server -> Seq(Entry)] /\ chosen \in Seq(Entry)
    BY <1>1 DEF TypeOK, ResultTypeOK, Result
  <2>3. applied'[n] = applied[n] \o r.applies /\ applied'[n] \in Seq(Entry)
    BY <2>1, <2>2
  <2>4. Abstract!Prefix(applied[n], applied'[n])
    <3>1. PICK x \in Seq(Entry) : x = applied[n]
      BY <2>2
    <3>2. PICK y \in Seq(Entry) : y = r.applies
      BY <2>2
    <3>3. /\ Len(x) \in Nat /\ Len(y) \in Nat /\ Len(x \o y) = Len(x) + Len(y)
          /\ \A k \in 1..Len(x) : (x \o y)[k] = x[k]
      <4>1. Len(x) \in Nat /\ Len(y) \in Nat
        BY LenProperties
      <4>2. Len(x \o y) = Len(x) + Len(y)
        BY ConcatProperties
      <4>3. ASSUME NEW k \in 1..Len(x) PROVE (x \o y)[k] = x[k]
        <5>1. k \in 1..Len(x) + Len(y) /\ k <= Len(x)
          BY <4>1
        <5> QED
          BY <5>1, ConcatProperties
      <4> QED
        BY <4>1, <4>2, <4>3
    <3>4. Abstract!Prefix(x, x \o y)
      BY <3>3 DEF Abstract!Prefix
    <3> QED
      BY <2>3, <3>1, <3>2, <3>4
  <2>5. Abstract!Prefix(chosen, chosen')
    BY DEF Agree, Abstract!Prefix
  <2>6. Agree(applied'[n], chosen', Len(applied'[n]))
    BY <1>1 DEF LogInv, LogState
  <2>7. Abstract!Prefix(applied'[n], chosen')
    BY <2>6 DEF Agree, Abstract!Prefix
  <2>8. applied' = [applied EXCEPT ![n] = applied'[n]]
    BY <2>1, <2>2
  <2>9. chosen' \in {chosen, applied'[n]}
    BY <2>1
  <2> QED
    BY <2>3, <2>4, <2>5, <2>7, <2>8, <2>9 DEF Abstract!Deliver
<1>2. ASSUME NEW n \in Server, NEW r, CrashDuring(n, r) PROVE Abstract!Reset(n)
  BY <1>2 DEF CrashDuring, Abstract!Reset
<1>3. CASE Next
  <2>1. PICK n \in Server :
          \/ Restart(n)
          \/ n \in up /\ elections' \in Nat /\ \E r : StepResult(n, r) /\ Run(n, r)
    BY <1>3, NextCases
  <2>2. CASE Restart(n)
    BY <2>2 DEF Restart
  <2>3. ASSUME NEW r, StepResult(n, r), Run(n, r) PROVE Abstract!Next
    <3>1. ResultTypeOK(r)
      BY <2>3, StepResultType
    <3>2. Execute(n, r) \/ CrashDuring(n, r)
      BY <2>3 DEF Run, PersistFails, ReliableDisk
    <3> QED
      BY <1>1, <1>2, <3>1, <3>2 DEF Abstract!Next
  <2> QED
    BY <2>1, <2>2, <2>3
<1>4. CASE UNCHANGED vars
  BY <1>4 DEF vars
<1> QED
  BY <1>3, <1>4

-----------------------------------------------------------------------------
(* Theorems *)

(* Throughout every behaviour there are histories of leaders and of their  *)
(* logs that the disks, the messages, the running servers and the apply    *)
(* streams of src/raft agree with, and the chosen sequence only grows.     *)
THEOREM LogInvariant ==
    ReliableDisk => (Spec => [](TypeOK /\ VoteInv /\ LogInv))
<1> SUFFICES ASSUME ReliableDisk PROVE Spec => [](TypeOK /\ VoteInv /\ LogInv)
  OBVIOUS
<1>1. ReliableWrites
  BY DEF ReliableDisk, ReliableWrites
<1>2. Spec => []VoteInv
  BY <1>1, VotesInvariant
<1>3. TypeOK /\ VoteInv /\ LogInv /\ [Next]_vars => LogInv'
  BY StepLogInv
<1> QED
  BY <1>2, <1>3, InitLogInv, TypeCorrect, PTL DEF Spec

(* Log Matching, whatever conflicts on_append_entries had to truncate.     *)
THEOREM LogsMatch == ReliableDisk => (Spec => []LogMatching)
  BY LogInvariant, LogInvImpliesMatching, PTL

(* What try_commit reads in match_index is what the peers really hold,     *)
(* over replies that arrive late, twice or out of order.                   *)
THEOREM MatchIndexIsSound == ReliableDisk => (Spec => []MatchIndexSound)
  BY LogInvariant, LogInvImpliesMatchIndex, PTL

(* Leader Completeness: the vote check of on_request_vote elects nobody    *)
(* who lacks an entry that was applied.                                    *)
THEOREM LeadersAreComplete == ReliableDisk => (Spec => []LeaderCompleteness)
  BY LogInvariant, LogInvImpliesCompleteness, PTL

(* An applied entry stays on the disks of a majority for ever.             *)
THEOREM ChosenEntriesAreDurable == ReliableDisk => (Spec => []ChosenIsDurable)
  BY LogInvariant, LogInvImpliesDurable, PTL

(* State Machine Safety, as a refinement: the protocol of src/raft         *)
(* implements the abstract replicated log of which every replica consumes  *)
(* a prefix.                                                               *)
THEOREM RaftIsAReplicatedLog == ReliableDisk => (Spec => ImplementsReplicatedLog)
<1> SUFFICES ASSUME ReliableDisk PROVE Spec => ImplementsReplicatedLog
  OBVIOUS
<1>1. Init => Abstract!Init
  BY DEF Init, Abstract!Init
<1>2. /\ TypeOK /\ VoteInv /\ LogInv /\ (TypeOK /\ VoteInv /\ LogInv)'
      /\ [Next]_vars
      => [Abstract!Next]_<<chosen, applied>>
  BY StepLogInv, StepRefines
<1>3. Spec => [](TypeOK /\ VoteInv /\ LogInv)
  BY LogInvariant
<1> QED
  BY <1>1, <1>2, <1>3, PTL DEF Spec, ImplementsReplicatedLog, Abstract!Spec
=============================================================================
