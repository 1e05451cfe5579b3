# A formal model of my-k8s

TLA+ modules, TLC configurations and TLAPS proofs for the parts of my-k8s whose
correctness depends on concurrency and failure: the Raft layer, the replicated
resource store, watch streams, the controllers and their work queue, the
scheduler, the kubelet with its address allocator, and kube-proxy. Paths are
relative to the repository root.

## 1. The system

| Component | State | Operations | Interacts with |
|---|---|---|---|
| Raft core (`src/raft/core.rs`, `log.rs`, `message.rs`) | role, term, vote, log, commit and apply index, per-peer indices | `step(event)`: tick, message, proposal; returns effects | the shell |
| Raft shell (`src/raft/node.rs`, `storage.rs`, `transport.rs`) | the sled tree `raft`: hard state and log | feeds events, executes effects in order: persist, apply, send | peers over HTTP (fire and forget), the apply loop through a channel |
| Replicated writes (`src/apiserver/raft_glue.rs`, `applier.rs`, `command.rs`) | mailboxes of waiting requests | `submit`: register, propose, wait with timeout; `apply_loop`: apply, resolve | handlers, the shell, the stores |
| Resource store (`src/apiserver/storage.rs`, `meta.rs`) | objects by name, one resourceVersion counter for all kinds, a broadcast channel per kind | create, replace spec, replace status, delete, list, subscribe | handlers or the apply loop; watchers |
| Watch (`src/apiserver/watch.rs`) | position in the channel, snapshot version | subscribe, list, catch up, forward | clients |
| Handlers (`src/apiserver/handlers.rs`) | none | one per request; binding and CIDR/ClusterIP allocation read before they write | the store, or `submit` in Raft mode |
| Work queue (`src/controller/workqueue.rs`) | queue, dirty set, processing set; failure counters | add, get, done, add_after | informers, resync loops, worker loops |
| ReplicaSet controller (`src/controller/manager.rs`, `replicaset.rs`) | none besides its queue | reconcile: adopt, scale, cascade-delete, status | the API |
| Endpoints controller (`src/controller/endpoints*.rs`) | none besides its queue | reconcile: recompute a service's addresses | the API |
| Scheduler (`src/scheduler.rs`) | none besides its queue | filter, score, bind | the API |
| Kubelet (`src/reconciler.rs`, `store.rs`) | cache (desired), store (actual), restart trackers, last pushed status | startup, watch event, resync, liveness tick, status push, heartbeat | the API, the runtime, the allocator |
| IP allocator (`src/ipam.rs`) | cursor, released, allocated | allocate, reserve, release | the kubelet |
| Kube-proxy (`src/kube_proxy.rs`) | iptables chains | base chains once; sync: list, plan rules, run the commands | the API, the kernel |
| HTTP client, `mykubectl` (`src/client.rs`, `src/bin/mykubectl.rs`) | none | one request; apply and delete: GET, then write with the version read | the API |
| Sandbox and runtime (`src/runtime*`) | containers, network devices | create, add, remove, destroy, recover | the kernel, libcontainer |

What is hard in it:

* **Crashes and the disk.** A raft node dies between two writes of a batch, or
  between a write and the message that announces it; a storage call fails and is
  only logged; the log is applied again from the start after a restart.
* **The network.** Messages are lost, late, repeated and reordered.
* **Interleaving.** Handlers commit and emit in separate steps, `list` is not
  atomic, `notify_one` comes after the unlock, a timeout races a commit.
* **Two sources of truth.** The kubelet learns the same pods from a stream of
  events and from lists, which are newer than events still on their way; after a
  restart it meets containers its predecessor built.
* **Controllers.** Every reconcile acts on what it listed while people, kubelets and
  other controllers go on writing; most of its failures are only logged; events
  are lost and requests that were given up happen later.
* **Reads that lag.** In Raft mode every GET, LIST and watch is answered from the local
  store (`handlers.rs:28`), which may lack what has been committed; that of a leader
  elected a moment ago too.
* **Check, then act.** `create_node`, `create_service` and `bind_pod` read, decide
  and write in separate steps.
* **Limits.** A broadcast channel drops events for slow receivers;
  `next_index - 1` is computed in unsigned arithmetic.

`PROJECT.json` lists these hazards at their lines with the properties that
cover them.

## 2. The modules

| Module | Models |
|---|---|
| `ReplicatedLog` | abstract: one growing sequence of which every replica consumes prefixes |
| `Raft` | raft core, shell, disk, network; implements `ReplicatedLog` |
| `Store` | the transactions of `ResourceStore` as operators on a store |
| `Watch` | handlers and watch streams on one `Store` |
| `ReplicatedStore` | submit, mailboxes and apply loops: a `Store` per replica over the replicated log |
| `WorkQueue` | the queue, its wake-ups, rate limiter and worker loops |
| `Ipam` | the address allocator, as operators on its pool |
| `Kubelet` | the reconciler of one node with its store, allocator and sandboxes; API server and runtime as far as it sees them |
| `Api` | the answer to a request: from the store's result to the client's |
| `Placement` | registration and heartbeat of kubelets, `create_node`, `bind_pod`, the scheduler |
| `ReplicaSetController` | reconcile of ReplicaSets against a changing API server |
| `ServiceApi` | services, pods and Endpoints, who writes them, `create_service` |
| `EndpointsController`, `KubeProxy` | the two workers that act on these objects |
| `ServiceRouting` | the composition of the last three |
| `RaftProofs`, `WatchProofs`, `ReplicatedStoreProofs`, `WorkQueueProofs`, `KubeletProofs`, `PlacementProofs`, `ReplicaSetControllerProofs`, `ServiceRoutingProofs` | the proofs |
| `MCRaft`, `MCWatch`, `MCReplicatedStore`, `MCWorkQueue`, `MCKubelet`, `MCPlacement`, `MCReplicaSetController`, `MCServiceRouting` | symmetry sets and starting states for TLC |

Next to some operators stands a variant with a plausible mistake
(`GrantsTwice` beside `Grants`). The specifications do not use them; they serve
to show, one at a time, that the properties notice such a mistake.

### Raft

`step` is pure in the code and so are the operators: `OnRequestVote(n, s, m)`
and its siblings take a node and return the node afterwards with its effects,
a record `[node, persist, truncate, entries, applies, sends]`. The record can
replace the code's list because every handler emits its effects in that order.
`Execute`, `CrashDuring` and `PersistFails` are the ways a batch of effects
becomes real: completely; up to some point in the writes, after which the
process is down and nothing was sent; or with some writes failing, which the
shell logs and ignores. The disk keeps entries under their index, as the sled
tree does: a write that follows a failed one can leave a hole or overwrite what a
failed truncation left behind.

| Code | Model |
|---|---|
| `on_tick` | `Timeout`, `Heartbeat` (tick counters are abstracted: a timer may run out at any time) |
| `step(Message)` | `Receive` with `HandleRequestVote` ... `HandleAppendEntriesResp` |
| `step(Propose)` | `Propose` (on a leader; elsewhere it only reports a rejection) |
| `RaftShell::execute` | `Execute`, `CrashDuring`, `PersistFails` |
| `RaftShell::new` | `Restart`, `Recover` |
| the sled tree | `disk`; a crash leaves one of `CutWrites` or `TornTruncations` |
| `HttpTransport` | `messages`, from which nothing is ever removed: a message may arrive late, again or never |

`StorageFaults` says which disk faults may happen. The history variable `chosen`
is the longest apply stream seen so far.

### Store, Watch

A store operation is one sled transaction, hence one operator. In `Watch` a
handler's write is two steps, transaction and emit. `stream_events` is
`Subscribe`, one `ScanKey` per name, `ListDone` (which reads the counter last, as
`list` does), then `Recv` or `Lagged`. `OtherKind` is a write to another kind: it
raises the shared counter and emits elsewhere. One writer stands for the
apply loop of Raft mode, several for the handlers of direct mode.

### ReplicatedStore

The raft layer appears as `ReplicatedLog` promises it. `Register`, `Propose` and
`Timeout` are the three parts of `submit`; `Follow` and `Lead` are a turn of the
apply loop, with a command that another replica has applied before or with a new
one. `Restart` forgets mailboxes and the apply position and keeps the store,
which is in the same database as the log.

### WorkQueue

`add`, `try_get` and `done` are one step each for their critical section and
another for `notify_one`. `Notify` is external: it wakes one waiting worker or
leaves one permit. The code runs one worker per queue; the queue promises more
and is checked with two. The worker loops of the endpoints controller, of the
scheduler and of kube-proxy are the same loop. In the modules of these components
the queue appears as what `WorkQueue` shows it to be: a set of keys each of which
some later `get` returns.

### Ipam, Kubelet

An address is its last octet. A pod has one container besides the pause
container; `host` is what the runtime has of it, `kubelet` what the reconciler
remembers. `create_pod`, `remove_pod` and `reconcile_liveness` are operators on a
*world* of these two. Each creation is a step of its own, and so is each call of
the API server, since clients write in between and the process may be killed;
a liveness pass and the removals of a diff are one step.

| Code | Model |
|---|---|
| `startup` | `Start` (recover and list), `Startup` per pod, `EndStartup` (orphans, watch) |
| the biased `select!` of `run` | `WatchEvent`, `Resync`, `Tick`; `Starved` once the stream has ended |
| `apply_diff` | `DiffCreate` per pod, `EndDiff` |
| `tick_liveness`, `compute_pod_status` | `Tick`, `Dirty` |
| `push_status` | `Push`, `PushFails`, `Conflict`, `Refetch`, `RetryPush` |
| `RestartTracker` | its count, and whether `next_retry_at` has come (`BackoffElapses`) |
| a failing `sandbox.create`, `add_container` | the outcomes `pause`, `network`, `app`, `start` of `CreatePod` and `Restart` |

`MaxMishaps` bounds everything that goes wrong, taken together. A failed restart
is not counted; only the first after an exit fails.

### Api

`Store` has the resourceVersions. The modules below need of them only whether the
copy a writer holds is still the stored one, which `UpdatesHitWhatWasRead` of
`Watch` justifies: a version is never used twice. They keep that as a flag of the
copy (`current`, `fresh`), which every write of the object clears.
In Raft mode the copy may already be old when it is read; then the flag is false from
the start.
`ClientResult` carries an error of the store through the status and the reason of
the HTTP answer to the `ClientError` a caller matches on.

### Placement

| Code | Model |
|---|---|
| `register_node`, `startup` | `RegisterNode`, `Answered`, `LearnSlice` |
| `create_node` | `CheckNode`, `ListNodes`, `CreateNode`: get, list, create |
| `heartbeat_loop`, `Node::is_ready` | `Heartbeat`, `HeartbeatAges`, `IsReady` |
| `pod_informer`, `resync_loop`, `worker_loop` of the scheduler | `PodInformer`, `Resync`, `TakeKey`, `Scheduled`, `NotScheduled` |
| `schedule` | `GetPod`, `Candidates`, `SendBinding`, one step per request |
| `bind_pod` | `BindRead`, `BindWrite` |

A request is a record of its own, so that it can outlive its caller:
`RegistrationAbandoned`, `BindingAbandoned` and the restarts leave it in the handler
or lose it. Every read is from one of `Views`: the store as it is, or a state in
`behind`, which a lagging replica still shows (`FallsBehind`, `CatchesUp`). Which
replica answers is left open in every single read, so the lagging one may be the
follower that the scheduler talks to, or a new leader in `create_node` or `bind_pod`.
`seen`, `doubtful` and `ghosts` are history: which nodes a registration's list
had shown as they were; which pods' bindings the scheduler has given up, or
which pods it was shown without their node; which nodes were deleted while a
replica still showed them.

### ReplicaSetController

`ctl` is the one worker with what `reconcile` has in its local variables. Each of
`reconcile`'s requests is an action; between any two of them people apply and delete
sets and pods and kubelets report readiness. `local` is what the controller's replica
shows while it lags; it stands still, with the events that it has not sent, until it has
caught up. `newer` are the objects written since, of which it therefore shows outdated
versions. `late` holds the requests whose answer did not come and that may still happen
(`GiveUp`, `Happens`): creations, and adoptions, deletions and status updates while the
object is as it was read. An adoption that happens like that is one reconcile has not
counted; `ctl.unseen` is the history that remembers it, as it does pods that the list
did not have. `missed` remembers the sets of whose deletion the controller did not hear,
or one of whose cascading deletions failed: for these `CascadeCompletes` promises
nothing, because nothing in the code repeats either. All pods match the selectors.

### ServiceApi, EndpointsController, KubeProxy, ServiceRouting

The three components share the API objects, and `ServiceRouting` interleaves them.
`create_service` is `CheckService` (get and list) and `CreateService`. Events about
services that exist do not show: resync repeats them, so a worker may take such a
key at any time; only the event of a deletion does. Both controllers read from one
store, which may lag (`local`, `Shown`) and then stands still until it has caught up;
`create_service` reads from a leader that may lack the latest services (`Without`).
The reconcile of a deleted service is a step per request: `TakeKey` (`get_service`),
`GetGone` (`get_endpoints`), `DeleteEndpoints`. `PlanRules` is `plan_rules`
down to the order of commands: a plan is the set of the commands that are left, each
of which says where it stands (`Before`). `RunCommand` runs the first of them, so
that a failure or a kill can come between any two. `EnsureBaseChains` is the start of the
process; it may fail, which the code only logs, and then nothing is routed until
the next start.

## 3. What is checked

| Run | Starting point and bounds | Shows |
|---|---|---|
| `raft` | boot, 2 elections, 2 crashes, no log; and an elected leader, 1 entry, 1 more election, 1 crash; 3 servers | `ElectionSafety`, `VotesAreFinal`, `ChosenIsDurable`, `ImplementsReplicatedLog` |
| `raft_fork` | the logs of Figure 8 of the Raft paper; 2 entries, 1 more election by the server with the other log, failing writes on the third server | `TypeOK`, `LogMatching`, `LeaderCompleteness`, `MatchIndexSound` |
| `watch` | 2 handlers, 1 watcher, 2 names, 3 commits, channel of 1 | `NoDuplicateDelivery`, `LiveStreamIsComplete`, `ViewIsCurrent`, `UpdatesHitWhatWasRead`, `EventsArrive` |
| `replicated_store` | 2 replicas, 3 requests on one name, 1 restart | `StoresFollowTheLog`, `AnswersAreTrue`, `NoMissedOutcome`, `MailboxesMatchRequests` |
| `workqueue` | 2 keys, 2 workers, 2 adders inside `add`, 1 failure and 1 timer per key | `QueueIsDirtyIdle`, `OneWorkerPerKey`, `NoLostWakeup`, `EveryAddIsReconciled` |
| `kubelet` | 2 pods, 3 addresses, each name used once, clients at most 3 events ahead, 1 mishap of any kind at any point | `AllocatorSound`, `ShownAddressIsReal`, `TrackersBelongToPods`, `LivePodsAreKept`, `Converges` |
| `placement` | 2 nodes, 2 slices, 1 pod, 1 restart of a kubelet, 1 mishap, such as a replica that lags | `TypeOK`, `SeenSlicesDiffer`, `SlicesSurviveRestarts`, `PlacedPodsStayPut`, `NodesBecomeReady`, `EveryPodIsPlaced` |
| `replicaset` | 1 set of up to 2 replicas, 3 pod names, 2 edits, 1 mishap, such as a lagging replica or a lost answer | `LeavesOthersAlone`, `NoOvershoot`, `SetsSettle`, `GoesQuiet`, `CascadeCompletes` |
| `services` | no or 1 service with 1 pod and 2 edits, or 1 service with 2 backends or 2 services with 1 pod, and 1 edit; 1 mishap, such as a store that lags | `RoutesAreWhole`, `RoutesConverge`, `EndpointsGo` |

Why the bounds are enough: a double vote takes two candidates and one voter that
crashes; losing a committed entry takes one entry and one later election, or two entries
and the divergent logs from which `raft_fork` starts; the second start keeps a run from
spending its states on the way there. In that run only the third server's disk fails: it
is the one whose vote and copy decide. A channel of capacity one already lags. Two
requests can overtake each other, the third meets the effects of both. With two workers
and two keys, one key can be queued while the other is processed, and either can be
added again in any of its states. Two pods on three addresses can collide, and exhaust
the slice once one address has leaked; every property of the kubelet is about one mishap
and what the reconciler makes of it. In `placement` two slices are exhausted when the
node with the lower one is deleted and registers again; a binding that is given up (the
mishap) lets a second one of the same pod follow, and so does a replica that lags. One
set suffices in `replicaset`, where a pod that something else controls stands for other
controllers; with three names a creation more than wanted has room, and a pod that the
list did not show or an adoption that was not counted makes the set too large. In
`services` two backends give a chain with a conditional and a final rule, and two
services can get the same ClusterIP.

What the properties except is what the code does not do. `SeenSlicesDiffer` is about
nodes of which one registered after a list that showed the other: two registrations that
overlap may get the same slice, and so may two in a row, if a new leader that has not
applied the first answers the second. `PlacedPodsStayPut` leaves out pods of whose
binding the scheduler has given up, since a binding that was answered with a timeout may
be applied after the second one, and pods that `get_pod` showed without their node:
asked of a lagging follower, it lets the scheduler decide again, and `bind_pod` on the
leader overwrites. It is about `bind_pod`; `mykubectl apply` takes a placed pod off its
node in a step of its own, and the pod may go elsewhere after that.
`SlicesSurviveRestarts` leaves out a Node that was deleted while a replica still showed
it. `NoOvershoot` leaves out pods that `reconcile` cannot know: those its list did not
show because its replica lagged, and those of a creation or an adoption of which no
answer came. The last needs no Raft: the PUT of an adoption takes effect, its answer is
lost, `replicaset.rs:61` does not count the pod, and another one is created; the next
reconcile deletes the surplus (`SetsSettle`). `NodesBecomeReady` and `EveryPodIsPlaced`
leave out `Hopeless` nodes: a running kubelet does not register again after its Node was
deleted; a Node that is deleted between the check and the create of a second
registration is stored without a slice; and the highest index plus one passes the end
although lower ones are free. `RoutesConverge` promises nothing while two services share
a ClusterIP, which concurrent `create_service` calls or a leader that has not caught up
can make happen, and, since every sync flushes `KUBE-SERVICES` first, allows every
ClusterIP to lead nowhere while a sync runs. `EndpointsGo` and `CascadeCompletes` leave
out what depends on a Deleted event that was missed or on a deletion whose failure is
ignored. For Endpoints one such case needs no failing request: the service is deleted
while the controller works on it, its last write of the Endpoints goes to the leader,
and `get_endpoints` of the next turn is answered by a follower that has the deletion and
not yet that write. It returns `None`, or a version with which the delete conflicts,
`endpoints.rs:48` ignores that, and the Endpoints stay.

`Converges` is as strong as the code allows, and its exceptions say where the
kubelet does not recover by itself: the watch stream has ended (`Starved`: it is
not reopened, `next()` returns `None` at once, and the biased `select!` never
reaches the timers); a failed start left a pause container or a container that
was created and never started (`Wedged`); failed creations have leaked the last
address (`Drained`); a reply to a status push was lost and the pod has returned
to the status that was recorded before. A pod that was recovered after a crash and
whose address had never been reported counts as settled although its status says
that it has none: `from_recovered` takes the address from the status, and nothing
asks the container for it.

`ViewIsCurrent` is about names whose events went out in the order of the
writes. In Raft mode the apply loop is the only writer and that is always so;
concurrent handlers of direct mode may emit in the other order, and a client that
applies events as they come then ends with the older version.

**Fairness.** Six runs check liveness. In `WorkQueue` tasks that can go on do
(the tokio scheduler is fair), reconcile returns, and sleeping timers fire; no
add is assumed, and no success before the bound on failures is reached. Timers
are strongly fair only because the bound on concurrent adders, which the code
does not have, can disable them for a moment. In `Watch` a handler that has
committed goes on to emit, and open streams are polled; no client has to stay
connected. In `Placement`, `ReplicaSetController` and `ServiceRouting` the workers and
handlers go on, resync timers fire, stopped processes are started again, and a key that
is in a queue again and again is taken (strong fairness: the queue is first in,
first out, and `EveryAddIsReconciled` shows it for `WorkQueue`); edits and mishaps
are bounded, not fair. In `Kubelet` the process is started again after it stopped, handlers
run to their end, backoff times pass, and the loop gets to events and to both
timers again and again as long as the stream is open (strong fairness, because
each of them is disabled while another is handled); clients, crashes and faults
are bounded, not fair.

### Where the code does not do what is said of it

Each of these runs ends with a counterexample.

| Run | Said | Done |
|---|---|---|
| `raft_forgotten_vote` | `core.rs:38`: the shell must fsync before any send of the batch | `node.rs:128`: a failed write is logged and the vote is sent; after a crash the server votes again in that term and there are two leaders |
| `watch_gap` | `watch.rs:49`: nothing slips through the gap | `storage.rs:137`: `list` reads the counter after the scan; a write in between is in neither phase |
| `replicated_store_replay` | `command.rs:2`: same commands in the same order, identical stores | after a restart the log is applied again to the store that has its effects |

Five more disagreements show in the models without a run of their own:

* `raft/storage.rs:62` says that truncation kills the suffix that would resurrect
  on restart. Keys are removed one by one, lowest first, and flushed at the end; a
  crash in between (`TornTruncations`, with `StorageFaults = {"TornTruncate"}`) leaves a
  log with a hole, which `load_log` reads as contiguous.
* `reconciler.rs:226` says that every assigned address is reserved before any fresh
  `allocate`. `startup` does both in one loop over the pods (`Startup`): a new pod early
  in the list gets the address that a later one has.
* `handlers.rs:589` says that gaps from deleted nodes are reused.
  `next_free_node_cidr_index` takes the maximum plus one, so only a gap at the top is;
  registration fails for ever once index 255 is in use (`Hopeless`).
* `raft_glue.rs:68` says that handlers which read before they write do so "on the leader
  (whose store is current)". A new leader appends no entry of its own and passes
  `ensure_leader` before it has applied what its predecessor committed, so
  `create_node`, `create_service` and `bind_pod` may decide from a store that lacks
  committed writes (`Views` in `Placement`, `Without` in `ServiceApi`).
* After a failure of `ensure_base_chains` kube-proxy goes on (`kube_proxy.rs:29`) and its
  syncs fail, or succeed without effect, until it is started again.

## 4. What is proved

TLAPS checks these for every value of the constants: clusters of any size, any
number of elections, crashes, keys, workers.

* **`RaftProofs`, types**: `Spec => []TypeOK`, with every disk fault allowed. The part
  that is more than types is that a leader's `next_index` never falls below 1.
  One lemma per handler says what it returns; `RunType` lifts that to the three
  ways of executing a result, and `NextCases` reduces `Next` to them.
* **`RaftProofs`, elections**: at most one leader per term (`ElectionSafe`), votes on
  disk are final (`DurableVotesAreFinal`), if storage calls do not fail
  (`ReliableWrites`; without it the statement is false, see
  `raft_forgotten_vote`). `ElectionSafety` is not inductive. `VoteInv` is, together with
  `TypeOK`: memory and disk agree on term and vote; a *ballot*, that is a grant or a
  candidate's own request that has left its sender, is on the voter's disk until a
  later term replaces it; nobody casts two ballots in a term; candidates count
  ballots only; leaders and their AppendEntries have a majority of them. Two
  majorities of a finite cluster meet (`MajoritiesMeet`), which gives safety.
  For each handler a lemma says which votes it may cast and count; `BallotStep`
  turns these into what a step does to the set of ballots. A crash in the middle
  of the writes sends nothing, so it adds no ballot, and its disk is between the
  old and the new one.
* **`RaftProofs`, the log**: the log half of Raft, if no storage call fails and no
  truncation is torn (`ReliableDisk`, that is `StorageFaults = {}`; a server that
  forgets its vote, as in `raft_forgotten_vote`, takes away what they rest on, and the
  logs of `raft_fork` only bound the damage of failing writes on a small instance).
  Servers may still crash between any two writes. Logs that agree on an entry's term
  agree up to it (`LogsMatch`), a leader's `match_index` says what is on its follower's
  disk (`MatchIndexIsSound`), the leader of the highest term has everything chosen
  (`LeadersAreComplete`), a majority has it on disk (`ChosenEntriesAreDurable`), and
  `Raft` implements `ReplicatedLog` (`RaftIsAReplicatedLog`). The invariant `LogInv`
  asserts the existence of two histories, `b`, the leader of each term, and `G`, the log
  that leader had when it was last seen. Relative to them: a log with an entry of term
  `t` agrees with `G[t]` up to that entry (`Rooted`, for the logs of leaders and those
  on disk); a server that has acknowledged a prefix of its leader's log has it on disk
  while it stays in that term (`AcksHold`); whoever led a term, and a majority, are in
  it or later (`Elected`); later leaders and everybody who holds an entry have it,
  unless it is `Dead`, which means that in every majority somebody has left the entry's
  term without holding it (`Succession`, `HoldersHold`). A chosen entry cannot be dead.
  A handler's result is of one of five kinds, quiet, won, acknowledging, proposing or
  accepting (`QuietKind` ... `AcceptKind`), for each of which one lemma extends the
  histories; a crash in the middle of the writes leaves an accepted batch half done,
  which `CutSteady` shows to be harmless because a batch truncates before it appends and
  sends nothing until it is finished.
* **`WatchProofs`**: a watcher receives no event twice (`EventsArriveOnce`), a live
  stream has every event of its kind between its list and the last one it received
  (`NothingIsSkipped`), a client that has read everything shows the current version
  if the events were emitted in the order of the writes (`ViewsAreCurrent`), and a
  write with a precondition hits the version that its client has read
  (`NoUpdateIsLost`). `WriteInv` is
  about the writers: a resourceVersion identifies a change, it is emitted once, and
  the store holds the last change of each key. `WatchInv` is about the streams:
  what is queued is what was emitted since the subscription and not yet received,
  what was forwarded was received, and a view is the list overwritten by what was
  forwarded.
* **`ReplicatedStoreProofs`**: mailboxes belong to requests that are waited for
  (`NoMailboxLeaks`), an outcome finds its waiter or the waiter has given up
  (`OutcomesAreNotMissed`), a store is the replay of the entries its replica has
  applied (`StoresAreReplays`), clients are answered with what their command did
  (`ClientsAreToldTheTruth`), two replicas which have applied equally much hold the
  same until one of them restarts (`StoresAreIdenticalUntilARestart`). The
  invariant has a part about mailboxes, `MailInv`, and one about the log,
  `LogInv`. The replay of a log is a function on its prefixes; that it exists is
  carried along the behaviour, and that two replays agree is shown with the
  smallest index at which they do not, since recursion cannot be unfolded here.
* **`WorkQueueProofs`**: the conjunction of the four safety properties is
  inductive. `NoLostWakeup` needs `OneWorkerPerKey` (whoever
  holds the processing mark is at work) and the fact that a stored permit
  excludes a waiting worker.

* **`KubeletProofs`**: for slices of any size, `allocate` hands out a usable address
  that nobody has and fails only when all are in use (`AllocateIsFresh`);
  `reserve` and `release` keep the pool sound. `Sound` is what makes this
  inductive: every address the cursor has passed is in use or released. That a
  set of octets has a smallest element comes from the well-foundedness of `<`.
  On top of it, for the kubelet with any number of pods, crashes and
  failures: the pool stays sound under all its operations (`PoolStaysSound`), the
  address that the API shows is the one the pod has (`AddressesAreReal`), trackers
  go with their pods (`TrackersGoWithPods`), and only a shutdown takes a live pod's
  sandbox or address (`PodsAreKept`). One lemma per operation on the
  reconciler and the containers (`CreateEffect`, `RemoveEffect`, `LivenessEffect`)
  says what it may do to a pod. The invariant is one statement per pod
  (`PodOK`): while a name is in its first use, the addresses in its object, its
  sandbox and the status about to be pushed are those of its containers, if these have one;
  during startup and a diff the cache shows the address that the server has, which
  is why a pod is rebuilt with its address; and a live pod that is not in the cache has
  no containers yet, which is why neither the clean-up of orphans nor a diff can
  meet one. `EventsOK` says that a Deleted event is about a pod that is gone,
  `ControlOK` that a handler's work list stays inside the cache.

* **`PlacementProofs`**: all safety properties of `placement`, for any number of nodes,
  pods, restarts and mishaps. For slices (`SlicesDiffer`, `RestartsKeepSlices`) the
  invariant `NodeInv` says of every request in `create_node` that its index is above
  those of all nodes it has listed and that have not been deleted since
  (`RegsAreAbove`), of every node the same towards the nodes its registration saw
  (`NodesAreAbove`), that the slice a kubelet runs with is the one of its Node
  (`KubeletsAgree`), and that a lagging replica shows no other slice than that, unless
  the Node was deleted since (`ViewsAgree`). A list counts as having seen a node only if
  it showed the slice that the node has. Deleting a node takes it out of all those sets,
  which is why `seen` forgets it. For pods (`PodsStayPut`) `PodInv` says that at most
  one binding is waited for, that it is the one of the worker's key, that all others
  were given up, and that the key has no node from the moment that the worker looked
  until the binding arrives, unless an earlier binding of it was given up or the worker
  was shown it without its node. `Typed` follows from both and contains that no index
  beyond the last is stored.

* **`ReplicaSetControllerProofs`**: the safety properties of `replicaset`, for any
  number of sets and pods. `reconcile` decides from a list that others outdate while it
  works. `OthersLeftAlone` says that it changes or deletes only pods of its set, or
  adopts one of nobody's, now or late. It needs `TrueCopies`: a copy that the store
  would still accept shows the owner that the pod has now, because every write to a pod
  takes it out of `fresh` (`FreshCopies`); what a lagging replica shows and nobody has
  written since is as it is (`ShownAsItIs`); and a request that was given up and may
  still happen finds the pod as reconcile read it (`GivenUp`). `NeverOvershoots` says
  that a creation does not bring a set above the replicas that were read, unless the set
  has pods that reconcile cannot know. `Missing` counts the pods in memory, so the
  invariant must bound those which are not there: `NotYetOwned` says that, as long as
  pods are missing, the list showed all pods of the set, and no creation or adoption
  given up earlier has happened since, the set has at most as many uncounted pods as
  reconcile has had turns. Edits by people and kubelets never give a pod to a set,
  deletions only help, and a creation that fails leaves a turn without a pod.

* **`ServiceRoutingProofs`**: a ClusterIP in the nat table leads to a whole service
  (`RoutesWhole`), for any number of services, pods and ClusterIPs and any place at
  which a sync is cut off; `TypeCorrect` contains that `create_service` stays in its
  range. `RoutesAreWhole` is about the table, but what makes it true is the order of
  the commands, so the invariant `PlanInv` relates the commands that are left to the
  table as it stands. KUBE-SERVICES is flushed before all, hence no command is left
  for a service that is linked (`LinkedIsDone`); a DNAT rule is removed only to come
  back and while no jump leads to it, or before the jumps are flushed (`SepComesBack`,
  `SepIsUnused`); a jump is appended when its DNAT rule is there (`JumpsLead`); the
  unconditional jump is still to come or ends the chain, and no jump comes after it
  (`RestIsThere`, `RestIsLast`); the jumps already in the chain of a service that is
  still to be linked lead to DNAT rules (`ChainIsSound`). One lemma per command shows
  that it keeps this; `ListEndpointsPlans` shows that a new plan has it, whatever
  an earlier sync left behind, and `PlanIsDropped` that any sync may end. That a plan has
  an unconditional jump at all comes from the largest of a service's addresses,
  which exists by the well-foundedness of `<`. The two lists of a sync need not fit
  together, and nothing in the proof says that they do.

The assumptions are those of the modules: `Server` is finite, `Nil` is not a server,
`NoKey` is not a key, `Absent` is neither a number nor an object, event, sandbox or
status, bounds are natural numbers, and `ServiceApi` has at least one label. TLC
evaluates them on every run. `ReliableWrites` and `ReliableDisk` are hypotheses of the
theorems that need them.

Only model-checked: liveness (`EveryAddIsReconciled`, `EventsArrive`, `Converges`,
`NodesBecomeReady`, `EveryPodIsPlaced`, `SetsSettle`, `GoesQuiet`, `CascadeCompletes`,
`RoutesConverge`, `EndpointsGo`), which needs fairness and is outside what this version
of the proof system can do. Every safety property of a passing run is proved, those of
Raft's log and elections from the hypotheses above. `VoteInv`, and `LogInv` of
`RaftProofs`, which quantifies over histories, are only proved.

## 5. What is not modelled

* Timing in Raft: tick counters and jitter, hence that a leader is elected
  eventually.
* Crashes in `raft_fork`: its failing writes are never read back, so `LogMatching` and
  `MatchIndexSound` see of them only what they leave on disk until a restart. What a
  server forgets in a crash shows in `raft_forgotten_vote`.
* Some of what lagging replicas can show. In `Placement` they show any earlier state,
  but not one after another; in `ReplicaSetController` and `ServiceRouting` there is one
  that lags, standing still and then catching up with everything at once, and both
  controllers of `ServiceRouting` read from it. `Kubelet` assumes reads that are
  current: they are without Raft, and with Raft if the replica that answers has applied
  everything. A kubelet that asks one that lags may take a pod of its own for deleted
  and tear it down (`apply_diff`), which `LivePodsAreKept` does not cover.
* I/O errors of the resource stores; the index tree of `storage.rs`, which is never
  read; the node filter of pod watches.
* Redirects to the leader, which keep method and body and which the HTTP library
  follows. That a write answered "write timed out (not committed)"
  (`raft_glue.rs:107`) may still commit is part of `ReplicatedStore`, where `Timeout`
  leaves the proposal alone, and of the requests given up in the other modules.
* The kubelet's debug dump; deletions of containers that fail; pods with several
  containers; a name that is used for a second pod on the same node while the
  Deleted event of the first is still in the stream (`reconciler.rs:329`), which tears
  the second one down.
* Selectors and labels beyond what they decide; ports; the age of pods when a set
  is scaled down.
* Old `KUBE-SVC` and `KUBE-SEP` chains are never removed, and each start of kube-proxy
  appends another MARK rule: neither changes where packets go.
* Containers, network devices, OCI bundles, YAML and JSON, tables of `mykubectl`.

## 6. Plan

1. Done: `ReplicatedLog`, `Raft`, `Store`, `Watch`, `ReplicatedStore`,
   `WorkQueue`, `Ipam`, `Kubelet`, `Api`, `Placement`, `ReplicaSetController`,
   `ServiceRouting` and its parts, their runs, and the proofs of section 4.
2. Names that are used again in `Kubelet`: which of its properties survive an old
   "Deleted" that meets a new pod.
3. A liveness run for Raft from an established leader.
