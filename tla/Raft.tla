-------------------------------- MODULE Raft --------------------------------
(***************************************************************************)
(* The consensus layer under the API server: src/raft.                     *)
(*                                                                         *)
(* core.rs is a pure state machine: step(event) changes a RaftNode and     *)
(* returns a list of effects.  node.rs is the shell that feeds it ticks,   *)
(* messages and proposals and executes the effects in order: writes to     *)
(* storage.rs first, then applies and sends.  The module keeps that split: *)
(* an operator per handler maps a node to a result [node, effects], and    *)
(* Execute, CrashDuring and PersistFails are the ways a result becomes     *)
(* real.                                                                   *)
(*                                                                         *)
(* Next to some operators stands a variant of it with a plausible mistake; *)
(* nothing uses the variants, they are there to try the properties on.     *)
(*                                                                         *)
(* The transport is fire and forget.  A message once sent stays in         *)
(* `messages` for ever: it may be received late, out of order, again, or   *)
(* never.  Election and heartbeat timers are free: a tick counter may      *)
(* reach its limit at any moment.                                          *)
(***************************************************************************)
EXTENDS Integers, Sequences, FiniteSets

CONSTANTS
    Server,          \* NodeIds of the cluster
    Command,         \* proposed payloads
    Nil,             \* Option::None for node ids
    StorageFaults,   \* which of the faults below the disk may show
    MaxElections,    \* bound: elections started in one behaviour
    MaxLog,          \* bound: a leader accepts proposals up to this length
    MaxCrashes       \* bound: crashes in one behaviour

(* TornTruncate: truncate_from removes keys one at a time and flushes at   *)
(* the end, so a crash can leave the higher ones behind.  PersistError: a  *)
(* storage call returns Err, which the shell only logs.                    *)
PossibleFaults == {"TornTruncate", "PersistError"}

ASSUME ServerAssumption == IsFiniteSet(Server) /\ Nil \notin Server
ASSUME FaultAssumption  == StorageFaults \subseteq PossibleFaults
ASSUME BoundAssumption  == {MaxElections, MaxLog, MaxCrashes} \subseteq Nat

VARIABLES
    node,        \* [Server -> RaftNode], the memory of each process
    disk,        \* [Server -> HardState and log], the sled tree "raft"
    up,          \* the servers whose process is running
    messages,    \* every message ever sent
    applied,     \* [Server -> entries handed to apply_tx since it booted]
    chosen,      \* history: the longest apply stream seen so far
    elections,   \* elections started so far
    crashes      \* crashes so far

vars == <<node, disk, up, messages, applied, chosen, elections, crashes>>

-----------------------------------------------------------------------------
(* Values *)

Entry == [term : Nat, index : Nat, command : Command]

Follower  == "Follower"
Candidate == "Candidate"
Leader    == "Leader"

(* votes belongs to the Candidate variant of Role, next_index and          *)
(* match_index to Leader: outside it they hold the values of NoVotes and   *)
(* NoIndex.                                                                *)
RaftNode ==
    [role        : {Follower, Candidate, Leader},
     currentTerm : Nat,
     votedFor    : Server \cup {Nil},
     log         : Seq(Entry),
     commitIndex : Nat,
     lastApplied : Nat,
     votes       : SUBSET Server,
     nextIndex   : [Server -> Nat],
     matchIndex  : [Server -> Nat],
     leaderHint  : Server \cup {Nil}]

HardState == [currentTerm : Nat, votedFor : Server \cup {Nil}, log : Seq(Entry)]

RequestVoteReq ==
    [type : {"RequestVote"}, from : Server, to : Server, term : Nat,
     lastLogIndex : Nat, lastLogTerm : Nat]
RequestVoteResp ==
    [type : {"RequestVoteResp"}, from : Server, to : Server, term : Nat,
     voteGranted : BOOLEAN]
AppendEntriesReq ==
    [type : {"AppendEntries"}, from : Server, to : Server, term : Nat,
     prevLogIndex : Nat, prevLogTerm : Nat, entries : Seq(Entry),
     leaderCommit : Nat]
AppendEntriesResp ==
    [type : {"AppendEntriesResp"}, from : Server, to : Server, term : Nat,
     success : BOOLEAN, matchIndex : Nat]
Message ==
    RequestVoteReq \cup RequestVoteResp \cup AppendEntriesReq \cup AppendEntriesResp

NoVotes == {}
NoIndex == [p \in Server |-> 0]

(* RaftNode::new *)
NewNode ==
    [role |-> Follower, currentTerm |-> 0, votedFor |-> Nil, log |-> << >>,
     commitIndex |-> 0, lastApplied |-> 0, votes |-> NoVotes,
     nextIndex |-> NoIndex, matchIndex |-> NoIndex, leaderHint |-> Nil]

EmptyDisk == [currentTerm |-> 0, votedFor |-> Nil, log |-> << >>]

-----------------------------------------------------------------------------
(* RaftLog *)

LastIndex(log) == Len(log)
LastTerm(log)  == IF log = << >> THEN 0 ELSE log[Len(log)].term

(* Option::None of term_at; no term is negative.                           *)
NoTerm == -1

(* Index 0 is the empty-log sentinel of term 0.                            *)
TermAt(log, i) ==
    IF i = 0 THEN 0 ELSE IF i \in 1..Len(log) THEN log[i].term ELSE NoTerm

EntriesFrom(log, from) ==
    IF from \in 1..Len(log) THEN SubSeq(log, from, Len(log)) ELSE << >>

(* Vec::truncate: nothing happens to a log that is shorter.  (It would be  *)
(* emptied from index 0, which no entry has.)                              *)
TruncateFrom(log, from) ==
    IF from \in 1..Len(log) THEN SubSeq(log, 1, from - 1) ELSE log

Append1(log, term, cmd) ==
    Append(log, [term |-> term, index |-> Len(log) + 1, command |-> cmd])

-----------------------------------------------------------------------------
(* Results of a step: the node afterwards and the effects.  Effects are    *)
(* always emitted in the order hard state, truncation, entries, and then   *)
(* applies and sends, so a record holds them as well as a list.            *)

Peers(n) == Server \ {n}

(* peers.len().div_ceil(2) + 1 *)
Majority == ((Cardinality(Server) - 1) + 1) \div 2 + 1

MinOf(S) == CHOOSE x \in S : \A y \in S : x <= y
MaxOf(S) == CHOOSE x \in S : \A y \in S : y <= x

Quiet(s) ==
    [node |-> s, persist |-> FALSE, truncate |-> 0, entries |-> << >>,
     applies |-> << >>, sends |-> {}]

(* maybe_step_down.  leader_hint survives.                                 *)
MaybeStepDown(s, term) ==
    IF term <= s.currentTerm
    THEN Quiet(s)
    ELSE [Quiet([s EXCEPT !.currentTerm = term, !.votedFor = Nil,
                          !.role = Follower, !.votes = NoVotes,
                          !.nextIndex = NoIndex, !.matchIndex = NoIndex])
          EXCEPT !.persist = TRUE]

(* append_for: everything from next_index to the end of the log.           *)
AppendFor(n, s, p) ==
    [type |-> "AppendEntries", from |-> n, to |-> p, term |-> s.currentTerm,
     prevLogIndex |-> s.nextIndex[p] - 1,
     prevLogTerm  |-> IF TermAt(s.log, s.nextIndex[p] - 1) = NoTerm
                      THEN 0 ELSE TermAt(s.log, s.nextIndex[p] - 1),
     entries      |-> EntriesFrom(s.log, s.nextIndex[p]),
     leaderCommit |-> s.commitIndex]

BroadcastAppend(n, s) == {AppendFor(n, s, p) : p \in Peers(n)}

(* advance_applied never goes back.                                        *)
Advanced(lastApplied, commit) == IF lastApplied < commit THEN commit ELSE lastApplied
AdvanceApplied(r, commit) ==
    [r EXCEPT !.node.commitIndex = commit,
              !.node.lastApplied = Advanced(@, commit),
              !.applies = SubSeq(r.node.log, r.node.lastApplied + 1, commit)]

(* try_commit: the highest index above commit_index that holds an entry of *)
(* the current term and that a majority has acknowledged.                  *)
HoldersOneTooMany(n, s, i) == 2 + Cardinality({p \in Peers(n) : s.matchIndex[p] >= i})
Holders(n, s, i) == 1 + Cardinality({p \in Peers(n) : s.matchIndex[p] >= i})

CommittableAnyTerm(n, s) ==
    {i \in s.commitIndex + 1 .. LastIndex(s.log) : Holders(n, s, i) >= Majority}
Committable(n, s) ==
    {i \in s.commitIndex + 1 .. LastIndex(s.log) :
        TermAt(s.log, i) = s.currentTerm /\ Holders(n, s, i) >= Majority}

TryCommit(n, r) ==
    IF r.node.role = Leader /\ Committable(n, r.node) # {}
    THEN AdvanceApplied(r, MaxOf(Committable(n, r.node)))
    ELSE r

(* try_win: a candidate with a majority of votes becomes the leader and    *)
(* announces itself at once.                                               *)
BecomeLeaderFullMatch(n, s) ==
    [s EXCEPT !.role = Leader, !.votes = NoVotes,
              !.nextIndex = [p \in Server |-> LastIndex(s.log) + 1],
              !.matchIndex = [p \in Server |-> LastIndex(s.log)], !.leaderHint = n]
BecomeLeader(n, s) ==
    [s EXCEPT !.role = Leader, !.votes = NoVotes,
              !.nextIndex = [p \in Server |-> LastIndex(s.log) + 1],
              !.matchIndex = NoIndex, !.leaderHint = n]

TryWin(n, r) ==
    IF r.node.role = Candidate /\ Cardinality(r.node.votes) >= Majority
    THEN [r EXCEPT !.node = BecomeLeader(n, r.node),
                   !.sends = r.sends \cup BroadcastAppend(n, BecomeLeader(n, r.node))]
    ELSE r

-----------------------------------------------------------------------------
(* Handlers: one operator per function that step() dispatches to.          *)

(* start_election *)
StartElection(n, s) ==
    LET c == [s EXCEPT !.currentTerm = s.currentTerm + 1, !.votedFor = n,
                       !.role = Candidate, !.votes = {n}, !.leaderHint = Nil]
    IN  TryWin(n, [Quiet(c) EXCEPT
            !.persist = TRUE,
            !.sends = {[type |-> "RequestVote", from |-> n, to |-> p,
                        term |-> c.currentTerm,
                        lastLogIndex |-> LastIndex(c.log),
                        lastLogTerm  |-> LastTerm(c.log)] : p \in Peers(n)}])

(* The up-to-date check: lexicographic on (last term, last index).         *)
LogUpToDateAny(m, log) == TRUE
LogUpToDate(m, log) ==
    \/ m.lastLogTerm > LastTerm(log)
    \/ m.lastLogTerm = LastTerm(log) /\ m.lastLogIndex >= LastIndex(log)

(* on_request_vote: `s` is the node after maybe_step_down.                 *)
GrantsTwice(s, m) == m.term = s.currentTerm /\ LogUpToDate(m, s.log)
Grants(s, m) ==
    /\ m.term = s.currentTerm
    /\ LogUpToDate(m, s.log)
    /\ s.votedFor \in {Nil, m.from}

OnRequestVote(n, s, m) ==
    LET r     == MaybeStepDown(s, m.term)
        grant == Grants(r.node, m)
    IN  [r EXCEPT
            !.node.votedFor = IF grant THEN m.from ELSE r.node.votedFor,
            !.persist = r.persist \/ grant,
            !.sends = {[type |-> "RequestVoteResp", from |-> n, to |-> m.from,
                        term |-> r.node.currentTerm, voteGranted |-> grant]}]

(* on_request_vote_resp *)
OnRequestVoteResp(n, s, m) ==
    LET r == MaybeStepDown(s, m.term)
    IN  IF r.node.role = Candidate /\ m.term = r.node.currentTerm /\ m.voteGranted
        THEN TryWin(n, [r EXCEPT !.node.votes = r.node.votes \cup {m.from}])
        ELSE r

(* on_append_entries, the loop over req.entries.  Divergence is the set of *)
(* positions whose entry the log does not already hold; entry.index is     *)
(* prev + position because a leader sends a contiguous run of its log.     *)
(* The first divergent entry truncates the log if it conflicts, and from   *)
(* there on everything is appended.                                        *)
Divergence(log, m) ==
    {k \in 1..Len(m.entries) :
        TermAt(log, m.prevLogIndex + k) # m.entries[k].term}

MergeEntries(r, m) ==
    LET k == MinOf(Divergence(r.node.log, m))
        i == m.prevLogIndex + k
        tail == SubSeq(m.entries, k, Len(m.entries))
    IN  IF Divergence(r.node.log, m) = {}
        THEN r
        ELSE [r EXCEPT
                !.node.log = TruncateFrom(r.node.log, i) \o tail,
                !.truncate = IF i <= LastIndex(r.node.log) THEN i ELSE 0,
                !.entries  = tail]

(* Commit news is capped at what the follower holds.                       *)
FollowCommit(r, m) ==
    IF m.leaderCommit > r.node.commitIndex
    THEN AdvanceApplied(r, MinOf({m.leaderCommit, LastIndex(r.node.log)}))
    ELSE r

(* The prev_log check.                                                     *)
HoldsPrevUnchecked(log, m) == TRUE
HoldsPrev(log, m) == TermAt(log, m.prevLogIndex) = m.prevLogTerm

AppendReply(n, s, m, ok, match) ==
    [type |-> "AppendEntriesResp", from |-> n, to |-> m.from,
     term |-> s.currentTerm, success |-> ok, matchIndex |-> match]

OnAppendEntries(n, s, m) ==
    LET r == MaybeStepDown(s, m.term)
        f == [r EXCEPT
                !.node.role = IF @ = Candidate THEN Follower ELSE @,
                !.node.votes = NoVotes,
                !.node.leaderHint = m.from]
        g == FollowCommit(MergeEntries(f, m), m)
    IN  IF m.term < r.node.currentTerm
        THEN [r EXCEPT !.sends = {AppendReply(n, r.node, m, FALSE, 0)}]
        ELSE IF ~HoldsPrev(f.node.log, m)
        THEN [f EXCEPT !.sends = {AppendReply(n, f.node, m, FALSE, 0)}]
        ELSE [g EXCEPT !.sends = {AppendReply(n, g.node, m, TRUE,
                                     m.prevLogIndex + Len(m.entries))}]

(* Consistency reject: walk back one, not below 1, where prev is the       *)
(* sentinel that every log holds.                                          *)
WalkBackUnfloored(i) == i - 1
WalkBack(i) == MaxOf({i - 1, 1})

(* on_append_entries_resp *)
OnAppendEntriesResp(n, s, m) ==
    LET r     == MaybeStepDown(s, m.term)
        match == MaxOf({r.node.matchIndex[m.from], m.matchIndex})
        acked == [r EXCEPT !.node.matchIndex[m.from] = match,
                           !.node.nextIndex[m.from] = match + 1]
        probe == [r EXCEPT !.node.nextIndex[m.from] = WalkBack(@)]
    IN  IF m.term < r.node.currentTerm \/ r.node.role # Leader
        THEN r
        ELSE IF m.success
        THEN TryCommit(n, acked)
        ELSE [probe EXCEPT !.sends = {AppendFor(n, probe.node, m.from)}]

(* on_propose, on a leader.  Elsewhere it only reports ProposeRejected.    *)
OnPropose(n, s, cmd) ==
    LET a == [s EXCEPT !.log = Append1(s.log, s.currentTerm, cmd)]
    IN  TryCommit(n, [Quiet(a) EXCEPT
            !.entries = << a.log[Len(a.log)] >>,
            !.sends = BroadcastAppend(n, a)])

-----------------------------------------------------------------------------
(* The shell: RaftShell::execute, and what can go wrong in it.             *)

(* The tree holds entries under their index, and disk.log lists them by    *)
(* key.  Below and AtOrAbove split it at a key.                            *)
KeysBelow(log, i) == Cardinality({k \in 1..Len(log) : log[k].index < i})
Below(log, i)     == SubSeq(log, 1, KeysBelow(log, i))
AtOrAbove(log, i) == SubSeq(log, KeysBelow(log, i) + 1, Len(log))

(* save_hard_state, truncate_from and append_entries, in that order.       *)
WithHardState(d, r) ==
    IF r.persist
    THEN [d EXCEPT !.currentTerm = r.node.currentTerm,
                   !.votedFor = r.node.votedFor]
    ELSE d

WithTruncate(d, r) ==
    IF r.truncate > 0
    THEN [d EXCEPT !.log = Below(d.log, r.truncate)]
    ELSE d

(* The first k entries, which are contiguous.                              *)
WithEntries(d, r, k) ==
    IF k = 0 THEN d
    ELSE [d EXCEPT !.log = Below(d.log, r.entries[1].index) \o SubSeq(r.entries, 1, k)
                           \o AtOrAbove(d.log, r.entries[k].index + 1)]

Durable(d, r) ==
    WithEntries(WithTruncate(WithHardState(d, r), r), r, Len(r.entries))

(* What a crash in the middle of the writes can leave on disk: a prefix of *)
(* them, an append being cut between two entries.                          *)
CutWrites(d, r) ==
    LET h == WithHardState(d, r)
        t == WithTruncate(h, r)
    IN  {d, h, t} \cup {WithEntries(t, r, k) : k \in 1..Len(r.entries)}

(* truncate_from cut after it has removed the j lowest of the doomed keys. *)
TornTruncations(d, r) ==
    LET h      == WithHardState(d, r)
        doomed == AtOrAbove(h.log, r.truncate)
    IN  IF r.truncate > 0 /\ "TornTruncate" \in StorageFaults
        THEN {[h EXCEPT !.log = Below(h.log, r.truncate) \o SubSeq(doomed, j + 1, Len(doomed))] :
                 j \in 1 .. Len(doomed)}
        ELSE {}

(* r asking for only some of its writes.                                   *)
SomeWrites(r, p, t, k) ==
    [r EXCEPT !.persist = p, !.truncate = t, !.entries = SubSeq(r.entries, 1, k)]

(* A refusal that tells a candidate no newer term than it already has on   *)
(* disk: on_request_vote_resp does nothing with it, now or ever, so it is  *)
(* not worth a place in the network.                                       *)
Inert(m) ==
    /\ m.type = "RequestVoteResp"
    /\ ~m.voteGranted
    /\ m.term <= disk[m.to].currentTerm

Deliver(n, r) ==
    /\ node' = [node EXCEPT ![n] = r.node]
    /\ messages' = messages \cup {m \in r.sends : ~Inert(m)}
    /\ applied' = [applied EXCEPT ![n] = applied[n] \o r.applies]
    /\ chosen' = IF Len(applied'[n]) > Len(chosen) THEN applied'[n] ELSE chosen
    /\ UNCHANGED <<up, crashes>>

(* Every effect is carried out.                                            *)
Execute(n, r) ==
    /\ Deliver(n, r)
    /\ disk' = [disk EXCEPT ![n] = Durable(disk[n], r)]

(* Some writes fail, the shell warns and goes on to the applies and sends. *)
(* An append may stop between two entries; a truncation succeeds or fails  *)
(* at its first key.                                                       *)
PersistFails(n, r) ==
    /\ "PersistError" \in StorageFaults
    /\ Deliver(n, r)
    /\ \E p \in {FALSE, r.persist}, t \in {0, r.truncate}, k \in 0..Len(r.entries) :
          LET d == Durable(disk[n], SomeWrites(r, p, t, k))
          IN  d # Durable(disk[n], r) /\ disk' = [disk EXCEPT ![n] = d]

(* The process dies before it has sent anything of this batch.  (Dying     *)
(* between two sends is dying after the last, with messages lost.)         *)
CrashDuring(n, r) ==
    /\ crashes < MaxCrashes
    /\ crashes' = crashes + 1
    /\ up' = up \ {n}
    /\ node' = [node EXCEPT ![n] = NewNode]
    /\ applied' = [applied EXCEPT ![n] = << >>]
    /\ \E d \in CutWrites(disk[n], r) \cup TornTruncations(disk[n], r) :
          disk' = [disk EXCEPT ![n] = d]
    /\ UNCHANGED <<messages, chosen>>

Run(n, r) == Execute(n, r) \/ CrashDuring(n, r) \/ PersistFails(n, r)

-----------------------------------------------------------------------------
(* The events of RaftShell::run *)

(* on_tick, when the election timer of a follower or candidate runs out.   *)
Timeout(n) ==
    /\ n \in up
    /\ node[n].role # Leader
    /\ elections < MaxElections
    /\ elections' = elections + 1
    /\ Run(n, StartElection(n, node[n]))

(* on_tick, when the heartbeat of a leader is due.                         *)
Heartbeat(n) ==
    /\ n \in up
    /\ node[n].role = Leader
    /\ Execute(n, [Quiet(node[n]) EXCEPT !.sends = BroadcastAppend(n, node[n])])
    /\ UNCHANGED elections

HandleRequestVote(n, m) ==
    m.type = "RequestVote" /\ Run(n, OnRequestVote(n, node[n], m))

HandleRequestVoteResp(n, m) ==
    m.type = "RequestVoteResp" /\ Run(n, OnRequestVoteResp(n, node[n], m))

HandleAppendEntries(n, m) ==
    m.type = "AppendEntries" /\ Run(n, OnAppendEntries(n, node[n], m))

HandleAppendEntriesResp(n, m) ==
    m.type = "AppendEntriesResp" /\ Run(n, OnAppendEntriesResp(n, node[n], m))

Receive(n) ==
    /\ n \in up
    /\ \E m \in messages :
          /\ m.to = n
          /\ \/ HandleRequestVote(n, m)
             \/ HandleRequestVoteResp(n, m)
             \/ HandleAppendEntries(n, m)
             \/ HandleAppendEntriesResp(n, m)
    /\ UNCHANGED elections

Propose(n) ==
    /\ n \in up
    /\ node[n].role = Leader
    /\ Len(node[n].log) < MaxLog
    /\ \E cmd \in Command : Run(n, OnPropose(n, node[n], cmd))
    /\ UNCHANGED elections

(* The process dies between two events.                                    *)
Crash(n) ==
    /\ n \in up
    /\ CrashDuring(n, Quiet(node[n]))
    /\ UNCHANGED elections

(* RaftShell::new: term, vote and log come back from disk, the rest does   *)
(* not.                                                                    *)
RecoverNoVote(d) == [NewNode EXCEPT !.currentTerm = d.currentTerm, !.log = d.log]
Recover(d) ==
    [NewNode EXCEPT !.currentTerm = d.currentTerm, !.votedFor = d.votedFor,
                    !.log = d.log]

Restart(n) ==
    /\ n \notin up
    /\ up' = up \cup {n}
    /\ node' = [node EXCEPT ![n] = Recover(disk[n])]
    /\ UNCHANGED <<disk, messages, applied, chosen, elections, crashes>>

Init ==
    /\ node = [n \in Server |-> NewNode]
    /\ disk = [n \in Server |-> EmptyDisk]
    /\ up = Server
    /\ messages = {}
    /\ applied = [n \in Server |-> << >>]
    /\ chosen = << >>
    /\ elections = 0
    /\ crashes = 0

Next ==
    \E n \in Server :
        \/ Timeout(n)
        \/ Heartbeat(n)
        \/ Receive(n)
        \/ Propose(n)
        \/ Crash(n)
        \/ Restart(n)

Spec == Init /\ [][Next]_vars

-----------------------------------------------------------------------------
(* Properties *)

NodeTypeOK(s) ==
    /\ s \in RaftNode
    /\ s.role = Leader => \A p \in Server : s.nextIndex[p] >= 1

(* Type invariant: node memory, disk contents and messages are the values  *)
(* the structs of src/raft can hold, and a leader's next_index, from which *)
(* append_for subtracts 1 in unsigned arithmetic, is at least 1.           *)
TypeOK ==
    /\ DOMAIN node = Server
    /\ \A n \in Server : NodeTypeOK(node[n])
    /\ disk \in [Server -> HardState]
    /\ up \subseteq Server
    /\ messages \subseteq Message
    /\ applied \in [Server -> Seq(Entry)]
    /\ chosen \in Seq(Entry)
    /\ {elections, crashes} \subseteq Nat

(* Who has ever acted as the leader of a term: try_win announces itself    *)
(* with an AppendEntries to every peer, and messages are kept.             *)
LeadersOf(t) ==
    {n \in up : node[n].role = Leader /\ node[n].currentTerm = t}
    \cup {m.from : m \in {x \in messages : x.type = "AppendEntries" /\ x.term = t}}

Terms == {node[n].currentTerm : n \in Server} \cup {m.term : m \in messages}

(* Election Safety (sim_tests.rs): at most one leader per term, ever, over *)
(* crashes in the middle of a vote and votes delivered late or twice.      *)
ElectionSafety ==
    \A t \in Terms : \A a, b \in LeadersOf(t) : a = b

(* A vote that has left its voter: a grant, or the requests a candidate    *)
(* sends out once it has voted for itself.                                 *)
BallotIn(M, v, c, t) ==
    \/ v = c /\ Server = {c}
    \/ \E m \in M :
          /\ m.from = v /\ m.term = t
          /\ \/ m.type = "RequestVoteResp" /\ m.voteGranted /\ m.to = c
             \/ m.type = "RequestVote" /\ v = c

WonIn(M, c, t) ==
    \E Q \in SUBSET Server :
        Cardinality(Q) >= Majority /\ \A v \in Q : BallotIn(M, v, c, t)

Ballot(v, c, t) == BallotIn(messages, v, c, t)
Won(c, t) == WonIn(messages, c, t)

HardStateMirrored ==
    \A n \in up : /\ disk[n].currentTerm = node[n].currentTerm
                  /\ disk[n].votedFor = node[n].votedFor

BallotsAreDurable ==
    \A v, c \in Server : \A t \in Terms :
        Ballot(v, c, t) /\ Server # {c} =>
            \/ disk[v].currentTerm > t
            \/ disk[v].currentTerm = t /\ disk[v].votedFor = c

BallotsAreUnique ==
    \A v, c, d \in Server : \A t \in Terms :
        Ballot(v, c, t) /\ Ballot(v, d, t) => c = d

CandidatesCountBallots ==
    \A n \in up : node[n].role = Candidate =>
        \A v \in node[n].votes : Ballot(v, n, node[n].currentTerm)

LeadersHaveWon ==
    /\ \A n \in up : node[n].role = Leader => Won(n, node[n].currentTerm)
    /\ \A m \in messages : m.type = "AppendEntries" => Won(m.from, m.term)

(* Why elections are safe: every vote that left its voter is durable, no   *)
(* voter has voted twice in a term, candidates count only such votes, and  *)
(* whoever acts as leader has a majority of them.  Each part needs the     *)
(* ones before it, across crashes between a vote's write and its reply.    *)
VoteInv ==
    /\ HardStateMirrored
    /\ BallotsAreDurable
    /\ BallotsAreUnique
    /\ CandidatesCountBallots
    /\ LeadersHaveWon

(* Log Matching (sim_tests.rs): if two logs hold an entry of the same term *)
(* at the same index they are equal up to it.  This is what the prev_log   *)
(* check of on_append_entries and the truncate-on-conflict loop are for.   *)
LogMatching ==
    \A a, b \in up :
        \A i \in 1..Len(node[a].log) \cap 1..Len(node[b].log) :
            node[a].log[i].term = node[b].log[i].term =>
                SubSeq(node[a].log, 1, i) = SubSeq(node[b].log, 1, i)

Prefix(s, t) == Len(s) <= Len(t) /\ \A i \in 1..Len(s) : s[i] = t[i]

(* Leader Completeness: a leader whose term is not older than the last     *)
(* applied entry holds every entry anyone ever applied.  This rests on the *)
(* up-to-date check of on_request_vote and the own-term rule of try_commit.*)
LeaderCompleteness ==
    chosen # << >> =>
        \A n \in up :
            node[n].role = Leader /\ node[n].currentTerm >= LastTerm(chosen)
                => Prefix(chosen, node[n].log)

(* Every applied entry is on the disks of a majority, whatever crashed and *)
(* whatever was truncated since: no later crash or election can lose it.   *)
ChosenIsDurable ==
    \A i \in 1..Len(chosen) :
        Cardinality({n \in Server : /\ i <= Len(disk[n].log)
                                    /\ disk[n].log[i] = chosen[i]}) >= Majority

(* match_index is sound: while a peer is still in the leader's term, its   *)
(* log holds what the leader thinks it holds, so that counting it as a     *)
(* holder in try_commit is justified.                                      *)
MatchIndexSound ==
    \A n \in up : \A p \in up \cap Peers(n) :
        node[n].role = Leader /\ node[p].currentTerm = node[n].currentTerm =>
            /\ node[n].matchIndex[p] <= Len(node[n].log)
            /\ Prefix(SubSeq(node[n].log, 1, node[n].matchIndex[p]), node[p].log)

(* A durable vote is final: the term on disk never goes back, and within a *)
(* term a vote once cast is never changed or forgotten.                    *)
VotesAreFinal ==
    [][\A n \in Server :
          /\ disk'[n].currentTerm >= disk[n].currentTerm
          /\ disk'[n].currentTerm = disk[n].currentTerm =>
                disk[n].votedFor \in {Nil, disk'[n].votedFor}]_disk

(* The detailed protocol implements the abstract replicated log: apply     *)
(* streams, restarts included, are all prefixes of one growing sequence    *)
(* (State Machine Safety of sim_tests.rs).                                 *)
Abstract == INSTANCE ReplicatedLog
              WITH Replica <- Server, Item <- Entry, stream <- applied

ImplementsReplicatedLog == Abstract!Spec
=============================================================================
