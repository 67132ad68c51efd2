# A TLA+ verification of sbx-swarm-node

sbx-swarm-node joins machines that run the `sbx` sandbox daemon into a
leaderless swarm. A client talks to any node. That node places the sandbox on
some node of the swarm, and the node that got it owns it. There is no consensus
and no shared database. What the nodes agree on, they agree on through gossip,
retries and periodic repair.

The specifications here model the parts of a node in which goroutines, nodes,
restarts and failures meet. TLC checks them on small instances. For instances of
any size, TLAPS proves every safety property the runs check but two, which are
about what a sort and a walk over a list compute, and two implementation
relations.

## The system

| part | state | operations | meets |
|---|---|---|---|
| sandbox manager (`internal/sandbox/manager.go`) | records in bbolt, the sandboxes in the daemon, a mutex | create, start, stop, keep-alive, exec, delete, reconcile (boot and every 10 s) | capacity, cluster, reaper |
| capacity (`internal/sandbox/capacity.go`) | absolute base, reservations, limits | reserve, commit, replace base, release | manager |
| idle reaper (`SandboxService.ReapIdle`) | none of its own | list idle records, publish, stop | manager, agent runs |
| operations (`internal/ops`) | ops and key mappings in bbolt, a mutex | start, run, clear key, recover at boot | service handlers |
| node control (`internal/apiserver/nodeservice.go`) | cordon and drain flags: atomic, gossiped and stored | cordon, uncordon, drain and its sweep | placement, manager |
| node life (`internal/node/node.go`, `cmd`) | key, certificate and store files, listeners, tickers | boot, serve, stop, be killed | node control |
| request path (`internal/apiserver`, `internal/peer`, `internal/auth`) | peer pools, routing tables, who listens where | authenticate, authorize, forward, proxy | membership |
| admission (`internal/config`, `kits.go`, `imageref`, `sandboxservice.go`) | what a node offers, and what others know of it | boot, refresh, gossip, complete, judge | scheduler, manager |
| placement (`internal/coordinator`, `internal/node`, `provision.go`) | candidates left; the dedup cache of each target | schedule, attempt, call, retry once | scheduler, peers |
| scheduler (`internal/scheduler`) | none; ranks a gossiped view | filter, score, sort | membership |
| membership (`internal/membership`, `internal/routing`) | swarm id in memory and on disk, peer states, routing table, denylist | merge, join, leave, adopt, revoke | memberlist |
| daemon calls (`policyservice.go`, `sdkbackend.go`, `internal/audit`) | the daemon's secrets, policies, ports, templates, processes; the audit log | set, rotate, publish, save, run an agent, delete | reaper, streams |
| streams (`observe_sse.go`, `terminal.go`, `internal/obsd`) | sessions, channels and goroutines per client | follow a log, attach, sample | daemon calls |
| events (`internal/events`, `sse.go`, `watchevents.go`) | ring and subscriptions per node, a merger per client | publish, replay, subscribe, merge, resume | peers |
| git workspaces (`internal/git`, `provision_git.go`, `publish_work.go`) | a base repository and a mutex per workspace; clones in sandboxes; branches, requests and changes upstream | make the base, fetch and clone, bundle, push, open a request or change | manager, forge, agents |
| reviews (`review.go`, `internal/gitprovider`) | the forge's comments | read, reply and resolve | people on the forge |
| file transfer (`filescopy.go`) | a temporary file and a destination in the sandbox | upload and download over execs, with retries | daemon |

What makes it hard:

* A goroutine reads state, calls the daemon or a peer, and writes afterwards.
  Everything between the read and the write is another goroutine's time.
* A change often takes two stores: daemon and record, op and key, flag and disk.
  A crash or an error may come between the two.
* A call whose answer is lost is repeated, perhaps while the first is served.
* Views are stale: gossiped load and offers, the capacity base, cursors, caches,
  routes and listings of a forge.

`PROJECT.json` lists each of these hazards at the line where it bites.

## Modules

Each component has a module, and an `MC` module has the constants of its TLC
instances where a configuration alone cannot give them. A step is one access to
shared state: a store transaction, a daemon call, a request to a forge, a lock
or an atomic. What was read stays in the goroutine's local variables until the
step that uses it. A definition has the name of the function it models, or of
the part of the function it models. Definitions whose comment begins with
"Mutant" are wrong variants of the one that follows. No specification uses them;
replacing the right definition by one of them has to break a property.

**Capacity** and **SandboxManager.** `records` is the bucket, `daemon` the sbx
daemon, and `mu` is `Manager.mu`. `pc`, `op`, `arg`, `copy`, `snap`, `todo` are
the locals of API callers, of the reconcile ticker and of the reaper. `create`
runs from reservation over daemon, record and gossip to the absolute commit, and
every step of it may fail. `mutate` is lock, read, write. `Crash` keeps the store
and the daemon and boots through `Reconcile`. `removed` and `leaked` are history.

**Operations.** `opstore` and `idem` are the two buckets. A handler calls
`Start` (get, put, map), looks at an op that existed, may clear the key and start
again, and runs. `Run`'s goroutine reads, marks, works and finishes without a
lock. A sandbox is a place, a fate and a key. Only CreateSandbox looks at an op
that existed; AgentRun and PublishSandbox run it once more, whichever handler
started it. History: `unput` holds the ops a failed put left behind, `stolen` the
keys that lost a mapping newer than the one a retry had judged, `rerun` the keys
whose op was run once more.

**NodeControl.** Three copies of a flag are written one after the other under a
mutex, while placements read the first. `Sweep` starts `DrainAll` in a goroutine,
which lists, stops one sandbox after the other, and gives up when the node is
uncordoned or its context is cancelled; users start and stop sandboxes meanwhile.
History: `order` (told to stay out of service), `unsaved`, `missed`.

**NodeLife** extends NodeControl with the process around its RPCs. `phase` is
the next step of `New`, `Start` or `Stop`, `held` what the process has to give
back, `key`, `swarmfile` and `cert` are the files. Several processes may be
launched over one data directory; the store's file lock admits one, but the
identity is read before it. NodeControl's `Spec` is what NodeLife has to
implement. History: `born` (the identity the store was first used under),
`raced`.

Modules that are used together have no name in common. So the specification of
Membership is `SwarmSpec`, of EventStream `FirehoseSpec`, of Admission
`AdmissionSpec`, of Review `ReviewSpec`, of NodeLife `LifeSpec` and of Streams
`StreamSpec`, with their initial and next-state predicates named alike; elsewhere
it is `Spec`.

**Requests.** A call is a record that walks through gateway, interceptors, owner
proxy and peer pool. A sandbox id is its owner, because the prefix is all the path
reads; the pin of a node is the node. `at` says who listens at an address, `tbl`
and `pool` what a node believes of it. `ran` is the set of handlers that ran.

**Admission.** One create is judged three times on different knowledge: by the
entry node's sizes, by its copy of a peer's advertisement, and by the peer. Sizes
are counted in halves of a core so that a default below one core exists. An image
reference is host, path and tag, and `Canonical` is what the node makes of it.
`DaemonHas` is what a daemon holds and what it can pull, which no node knows of
another. `SetupOK` says what a deployment is.
History: `unchecked`, `snap`, `declined`.

**Placement.** One coordinator process per request and one handler per call. The
order of candidates is left open. A call may end in an error at the client at any
moment. History: `excused`.

**Scheduler.** The pure functions `Fits`, `Score`, `Before`, `Schedule`, over a
view that changes with every merge. A float ratio is a fraction. The hash of the
tie-break is a constant, injective for each request.

**Membership.** Connection handlers merge states that were taken earlier. The
swarm id is checked, peers merged, table updated and the id adopted in separate
steps. memberlist is external: it may deliver any state at any time. History:
`unput`, and `crossed`, the nodes in which merges of two swarms overlapped while
they were pending.

**DaemonCalls** and **Streams.** A handler reads the record, makes its daemon
calls one after the other and appends to the audit log. The daemon's tables are
external, modelled from how the backend uses them. Time passes in ticks of half
the idle timeout. Streams adds the goroutines of a log stream (handler, pump,
closer), of a terminal (handler, pump) and of a statistics stream, and the
collector. An agent run bumps the record, by a put that may fail and whose error
the code drops. History: `disturbed` (a set or an unpublish whose scope or port
others wrote), `orphaned`, `late` (runs whose last bump came after the reaper's
listing, failed, or was the first of a run that took a tick to start).

**EventStream.** Buses with a ring, the stream from every node to one client, and
the cursor the client resumes with. An event carries the run of its node, which
its wire id does not. History: `gap`, `dropped`.

**FileTransfer** has uploads that truncate, append, verify and rename, the loop of
`WriteFiles` over them, and downloads that read block by block. Execs fail, fall
short, or work and report an error. **AtomicFile** is what they promise: a file
changes from one whole version to another in one step. The refinement mapping
keeps the file, maps the control state to the answer, and takes `torn` (a rename
came between) for `changed`.

**GitWorkspace.** `base`, `up` and a sandbox's clone map branches to sequences of
commits; a push is a fast-forward when the old sequence is a prefix. `mu` is
`Workspace.mu`, held from `PreLock` to the end of `Create`, and from
`FetchFromBundle` to the end of the strategy. `pc` and `call` are the goroutines
in `ProvisionLocal`, `doPublish` and `PublishWork`, with one step for a git
command, an exec or a request to the forge, which may fail before or after it
took effect. git, the forge, the daemon's clone and the agents are external. A
clone has the branches of the base and a detached HEAD: the node does not pass the
recorded branch to the daemon. History: `cut`, `overlaid` (branches of the base
that a bundle or a patchset was written to and that were not pushed since), and in
a call `stolen`.

**Review.** The forge's comments in order of arrival. A Gerrit call lists, posts
all replies at once, lists again and takes the difference; a GitHub call replies
and resolves thread by thread. A GitHub query returns a page of threads and a page
of comments of each. People comment in between. A request may fail
before its effect or lose its answer after it. History: `crowded`, `unlisted`,
`doubtful`.

Components are composed where they share state: SandboxManager with Capacity,
NodeLife with NodeControl, Streams with DaemonCalls. Elsewhere a component sees
another through the few steps the code makes: `Placement` sees a node's manager as
`HasRoom`, `Operations` sees placement as where a sandbox ended up, and
`Admission` leaves ranking and retries open. `MCPlacement` and `MCRequests` put
several specifications into one run; a behaviour is of one `kind`, and the
variables of the other kinds stand still.

## Runs

`tlc -config <cfg> <module>`; the configuration of a run is `<module>_<run>.cfg`.

| run | module | shows | instance and why it is enough |
|---|---|---|---|
| `manager` | MCSandboxManager | `NoLostUpdate`, `NoResurrection`, `OrphanOnlyFromCreate`, `NoReservationLeak` | Two callers, ticker and reaper on one id, every call may fail, one crash; 1.5 M states. That gives three writers and a delete on one record. Proved for any size. |
| `recovers` | MCSandboxManager | `AccountingHeals`, `VanishedBecomesLost` | One caller and the ticker, two ids, a crash, a lost sandbox; 143 k states. Two writers of the base are needed for a stale one. |
| `overadmit` | MCSandboxManager | `NeverOverAdmits` **fails** | see Deviations |
| `operations` | MCOperations | `PendingIsWorkedOn`, `KeysAreSound`, `TerminalIsFinal` | Two callers, two goroutines of `Run`, two ops, two keys, two sandboxes, here or on a peer; creates and agent runs, also under one key; failing puts, vanishing sandboxes, one crash; 1.56 M states. A mapping can be stolen only with a third op, which `MCOperations_tworebinds` has. Proved for any size. |
| `control` | MCNodeLife | `FlagsAgree`, `SweepIsComplete`, `NodeIdIsStable`, `ComesBack` | One sandbox, which users start and stop, two operators, two sweeps, a placement, failing writes, listings and stops, one failed step, kill or signal; 253 k states. Either one process serves three RPCs, so that drain, uncordon, drain happens and a restart in the middle of it, or two processes compete for one directory and serve one RPC. A node adopts its swarm id before the first RPC. The safety properties are proved for any size. |
| `join` | MCMembership | `PeersAreSound`, `SwarmIdIsKept`, `RevocationsLast` | Three deployments: two swarms that share a secret and a pending node with two callbacks at once, with failing writes; a member with two callbacks at once and a pending node, with a leave and a revocation; the same with failing disks. One restart each; 100 k states. The safety properties are proved for any size. |
| `placement` | MCPlacement | `OneUnlessExcused`, `CoordinatorsAgree` | Two requests, two nodes of one slot and one cache entry each, a restart, cordons, expiry: one slot and one entry make refusal and eviction happen. `OneUnlessExcused` is proved for any size. Beside it all views of four nodes over six kinds of candidates, six requests, four strategies; 1.02 M states in all. |
| `firehose` | EventStream | `StreamIsFaithful`, `CatchesUp` | Two nodes, two events per run, ring and channel of one, two connections, one restart; 151 k states. `StreamIsFaithful` is proved for any size. |
| `transfer` | MCFileTransfer | `IsAtomic`, `TransferEnds` | Three uploads, of which two are one `WriteFiles` call with a chmod, and a download of a file that one of them replaces; files of one to three pieces, two tries; 302 k states. `IsAtomic` is proved for any size. |
| `git` | MCGitWorkspace | `OneDeliverable`, `BaseIsReady`, `CloneIsUpstream`, `DeliversOwn` | Two goroutines, two sandboxes of which one is there from the start, three requests, two commits of agents or others, a feature branch, GitHub or Gerrit, an upstream that may be empty, and failing commands; a crash takes the place of the third request; 2.08 M states. A provision between two racing publishes is the longest pattern the lock has to exclude. Proved for any size. |
| `requests` | MCRequests | `NamedNodeActs`, `CallerIsAdmin`, `RetriesArrive`; `AdvertisedIsServed`, `CreatedAsAdmitted`, `AdvertsConverge`; `AnswersAreOwn`, `ThreadsStayWhole` | Three kinds of behaviour, 344 k states in all. Two calls of twelve shapes over three nodes and two addresses, so that a node comes up where another was. Ten creates against two nodes that give the same names different meanings, with two boots, two changes of images and registries not every node reaches. Two calls on one review of three comments, two human actions, one failing request, pages of two threads and of two comments. All but `RetriesArrive`, `AdvertsConverge` and `ThreadsStayWhole` are proved for any size. |
| `daemon` | MCDaemon | `RotationSucceeds`, `NoOrphanSecrets`, `UnpublishIsWhole`, `AgentIsSpared`, `StreamsEnd` | Three requests at once, chosen by what they share (secrets, ports, templates and policies, an agent run with the reaper), or a request beside one stream, or two streams; one failing call, a crash, sessions of two lines, a channel of one; 431 k states. All but `StreamsEnd` are proved for any size. |

Some properties excuse a cause and say that there is no other. They rest on
history variables that no action reads except to update history. `KeysAreSound`
excuses stolen mappings and ops run once more, `TerminalIsFinal` the latter,
`PendingIsWorkedOn` failed puts, `SweepIsComplete` sandboxes created or started
behind the listing, failed listings and stops, and sweeps cut off by an
uncordon, a shutdown or a restart, `FlagsAgree` and `RevocationsLast` failed
writes, `SwarmIdIsKept` and `PeersAreSound` crossed merges, `NodeIdIsStable` two
first starts at once, `OneUnlessExcused` overlapping retries and forgetful
targets, `BaseIsReady` an interrupted clone and an empty upstream,
`CloneIsUpstream` a patchset that was overwritten, `DeliversOwn` the parent of a
change whose target is overlaid, `StreamIsFaithful` the four ways in which the
firehose is best-effort, `AdvertisedIsServed` a registry out of the asked node's
reach and a template that only a pull could have served, `CreatedAsAdmitted` a
fractional default and a kit that was never inspected, `RotationSucceeds`,
`NoOrphanSecrets` and `UnpublishIsWhole` a failing call or a change of the same
scope or port in between, `AgentIsSpared` a run whose bumps the reaper's listing
could not show, `ThreadsStayWhole` what is after GitHub's first page, and
`AnswersAreOwn` comments and failures between the two listings. `ComesBack`
excuses the three files that are written without a rename and can be left in
halves by a kill or a full disk. What they excuse is listed under Deviations
where a document says otherwise.

Symmetry is used only in runs without liveness properties, over callers, workers
and ids that the specification treats alike. Deadlock checking is off where a
bounded run comes to rest: when ids, RPCs, connections or requests are used up
nothing is left to do.

### Fairness

Goroutines are scheduled, and a daemon or store call returns: weak fairness of
the steps of every call that has begun. `sync.Mutex` hands the lock to a starving
waiter: strong fairness of the steps that take it. The ticker, the reaper and the
refresh of the advertised state are periodic: weak fairness of their first step.
memberlist repeats its push/pulls with every live peer: strong fairness of
`PushPull`, weak fairness of Admission's `Gossip`. `ComesBack` assumes a
supervisor that relaunches the process: weak fairness of `Main`, whose first step
is the launch. `RetriesArrive` is about a caller who keeps asking: weak fairness
of `Retry`, and only once routes have settled. No other client has to call, no
call has to fail or to succeed, nobody has to publish, and nobody has to leave a
stream.

## Proofs

| module | theorem | statement |
|---|---|---|
| SandboxManagerProofs | `Invariance` | `Spec => []IInv` |
| | `TypeCorrect` | `Spec => []TypeOK` |
| | `MutateIsAtomic` | `Spec => []NoLostUpdate` |
| | `DeleteIsFinal` | `Spec => [](NoResurrection /\ DeletedIsGone)` |
| | `NoOtherOrphans` | `Spec => []OrphanOnlyFromCreate` |
| | `ReservationsBalance` | `Spec => []NoReservationLeak` |
| FileTransferProofs | `FilesAreWhole` | `OwnDestinations` implies `Spec => [](Inv /\ PublishedWhole)` |
| | `TransfersAreAtomic` | `OwnDestinations` implies `Spec => IsAtomic` |
| NodeProofs | `MembershipInvariant` | `SwarmSpec => []MemInv` |
| | `RoutesFollowPeers` | `SwarmSpec => []PeersAreRoutable` |
| | `DenylistGrows` | `SwarmSpec => RevokedGrows` |
| | `PeersBelong` | `SwarmSpec => []PeersAreSound` |
| | `IdIsKept` | `SwarmSpec => SwarmIdIsKept` |
| | `ControlIsSound` | `Spec => [](CtlInv /\ FlagsAgree /\ SweepIsComplete)` |
| | `LifeImplementsControl` | `LifeSpec => Spec` |
| | `LifeKeepsFlags` | `LifeSpec => [](FlagsAgree /\ SweepIsComplete)` |
| | `IdentityIsStable` | `LifeSpec => []NodeIdIsStable` |
| OperationsProofs | `OpsInvariant` | `Spec => []OpsInv` |
| | `PendingHasAWorker` | `Spec => []PendingIsWorkedOn` |
| | `KeysNameTheirOps` | `Spec => []NoDanglingKey` |
| | `SettledIsFinal` | `Spec => TerminalIsFinal` |
| | `OneSandboxPerKey` | `Spec => []KeysAreSound` |
| PlacementProofs | `PlacementInvariant` | `Spec => []PlaceInv` |
| | `OneSandboxEach` | `Spec => []OneUnlessExcused` |
| | `AdmissionInvariant` | `AdmissionSpec => []AdmitInv` |
| | `AdvertisedIsAlwaysServed` | `AdmissionSpec => []AdvertisedIsServed` |
| | `CreatedIsAlwaysAsAdmitted` | `AdmissionSpec => []CreatedAsAdmitted` |
| GitWorkspaceProofs | `GitInvariant` | `Spec => []GitInv` |
| | `WorkIsDeliveredOnce` | `Spec => []OneDeliverable` |
| | `BasesAreDetached` | `Spec => []BaseIsReady` |
| | `BaseIsBehind` | `Spec => []Behind` |
| | `PublishesOwnWork` | `Spec => DeliversOwn` |
| | `ClonesAreFetched` | `Spec => CloneIsUpstream` |
| ApiProofs | `FirehoseInvariant` | `FirehoseSpec => []FirehoseInv` |
| | `StreamIsAlwaysFaithful` | `FirehoseSpec => []StreamIsFaithful` |
| | `RouteInvariant` | `Spec => []RouteInv` |
| | `NamedNodeAlwaysActs` | `Spec => []NamedNodeActs` |
| | `CallerIsAlwaysAdmin` | `Spec => []CallerIsAdmin` |
| OutboundProofs | `DaemonInvariant` | `StreamSpec => []DaemonInv` |
| | `RotationAlwaysSucceeds` | `StreamSpec => []RotationSucceeds` |
| | `NeverOrphanSecrets` | `StreamSpec => []NoOrphanSecrets` |
| | `UnpublishIsAlwaysWhole` | `StreamSpec => []UnpublishIsWhole` |
| | `AgentIsAlwaysSpared` | `StreamSpec => AgentIsSpared` |
| | `ReviewInvariant` | `ReviewSpec => []ReviewInv` |
| | `AnswersAreAlwaysOwn` | `ReviewSpec => []AnswersAreOwn` |

`tlapm` checks each module on its own. `Spec` is the one of the component the
module is named for: NodeControl's in NodeProofs, that of Requests in ApiProofs.
The theorems hold for any number of processes, nodes, ids, keys, branches, files,
requests, comments and resources, any set of failing calls and any bounds. They
assume what the modules assume of their constants (`CapacityAssumption`,
`ManagerAssumption`, `FileTransferAssumption`, `NodeControlAssumption`,
`NodeLifeAssumption`, `OperationsAssumption`, `PlacementAssumption`,
`MembershipAssumption`, `GitAssumption`, `EventStreamAssumption`,
`RequestsAssumption`, `DaemonCallsAssumption`, `AdmissionAssumption`,
`ReviewAssumption`): the constants have their types, processes of different kinds
are different, a value that stands for nothing is none of the values it stands
beside, a node's only RPC of its own is the internal one, a daemon lists images
under its own names for them, and the comments a review starts with are people's.
TLC evaluates them in the runs of the modules. The two theorems on file transfers
have a hypothesis of their own, `OwnDestinations`. Without it the property fails,
and a configuration under Deviations shows how. The instance of the passing run
satisfies it.

**The sandbox manager.** None of the properties is inductive. `IInv` adds three
things.

* `Control` says what a goroutine's locals hold at each of its steps: an id where
  it works on one, a snapshot where the ticker marks.
* `Locking` says that `mu` is held exactly between mutate's read and its save, and
  that the copy is the stored record then. This is what makes `NoLostUpdate` and
  `NoResurrection` survive somebody else's write: every writer needs the lock.
* `FreshIds` says that an id is issued once: a create about to save is alone with
  its id, which no record and no deletion has, and a delete that has passed the
  daemon finds the id absent there.

Most actions touch neither store nor daemon nor lock. `InertInv` shows once that
such a step keeps everything but types, control and reservations.

**File transfers.** `Inv` follows the temporary file of an upload: it is never
longer than what the attempt has sent, and if it is as long, it is what was sent.
The comparison of sizes before the rename rests on this, and on nobody else
writing to the temporary file, which is why `OwnDestinations` is needed
(`MCFileTransfer_shared` shows the other case). A download that no rename has
disturbed has a prefix of the file. With `Inv`, every step of an upload or a
download is a step of AtomicFile or leaves its variables alone.

**Node control and node life.** `CtlInv` says for an RPC under way which copies
of the flags it has already written (`RpcInv`), for a sweep under way what it
has still to visit (`SweepInv`: every running sandbox is on its list or
`missed`), that a draining node without a sweep has a drain that will see to one
or nothing left to stop (`Drained`), and what a process that is not up yet has
in memory (`DownInv`). NodeLife's steps are NodeControl's steps or leave its
variables alone, so its theorems follow from NodeControl's. For the identity,
`KeyInv` says that whoever is past the key file has the identity in it, and that
the store was used under no other.

**Operations.** `OneHand` says that an op is in one pair of hands from its first
put to its last: the handler that started it, then the goroutine of its `Run`.
With `CallerInv` and `WorkerInv`, which say that the op is not settled while
somebody has it, nobody is left to write a settled one, although `Run` writes
back a copy that it read without a lock. All three are about ops whose key is
not in `rerun`, of whatever handler; of the others they keep what
`PendingIsWorkedOn` needs. A retry never gets hold of another key's op because
an op that a key names is an op of that key (`StoreInv`). For the number of
living sandboxes, `KeysInv` ties a sandbox to the mapping: as long as no mapping
was stolen, whoever may still make a sandbox for a key has the op the key is
mapped to, a key that no create has has no living sandbox on this node, and an
op is given up only when this node has no sandbox of it. A sandbox on a peer
looks gone to the handler that judges it. So the count is of the node's own, and
peers may have more (`MCOperations_peer`, under Deviations).

**Placement.** A retry may meet its own first call, and only the target's memory
stands between it and a second sandbox. `PlaceInv` says of every request that is
not excused: a handler is at work only for the coordinator's last call (`OneCall`);
while a node is being chosen, after a refusal, and when a handler is about to
create, there is no sandbox (`Clean`); and the node that has the sandbox has it in
its cache under the request id, or is about to put it there, until the coordinator
has the answer (`Kept`). Each excuse is the step that would break one of the three:
a retry before the first call has ended breaks `OneCall`, a cordoned target that
has the sandbox and refuses breaks `Clean`, an evicted or expired entry and a
restart break `Kept`. The proof shows that there is no other.

**Admission.** `FitIsServed` and `MisfitIsRefused` are the heart: the entry node's
test on an advertisement and the target's own checks, written in different places
and in different terms, come to the same answer when the advertisement is what the
node offers. For templates this takes `CanonicalIsDaemons`: for a reference without
a registry, the name the node looks for is the daemon's. A template that names one
is not foretold: who has it is the registry's matter. `AdmitInv` adds what a
request carries from step to step: the nodes left to ask were known to cover it,
its size is the completed one, a running node's configuration was validated and its
kits were inspected, or could not be. `SizesArePositive` shows that completing a
request twice, at the entry node and at the target, is completing it once.

**Membership.** That peers can be routed to (`RouteInv`) and that a denylist keeps
what it has stored (`DenyInv`) holds in every deployment. The guard of a merge
reads the swarm id before `MergeRemoteState` takes its lock, and `Adopt` sets it
after the lock is released, so that two merges of different swarms in one pending
node both pass. `JoinInv` is about every node in which this did not happen: a merge
that has passed the guard suits the id its node has by now, the id on disk is the
node's, and the peers it knows are of this id or of one it is about to take. The
step that would break it, an `Adopt` beside a merge of another swarm, is the one
that puts the node into `crossed`, where it stays until its restart.

**Git workspaces.** `LockAt` ties the lock to the steps of its sections, and
`HeldAt` says that its holder finds in the base what it has fetched. `PreAt` is
the weaker fact about a review between `FetchRef` and `PreLock`, where nobody
has the lock and the branch may be overwritten. From these follow
`CloneIsUpstream`, `DeliversOwn` and the number of pull requests, which is
looked up and raised in one section. `Behind` says that a branch of the base is
a prefix of the upstream's unless it is overlaid: no push is forced (the lemma
`UpstreamIsKept`), so the upstream only moves on. This is why the parent of a
change, which `GerritChange` takes from the base, is upstream. `TrailInv`
follows the review's Change-Id: it is on every copy of the review's branch in
the base, upstream, in clones and in bundles, other trailers are on no branch,
and the default branch has it only once the change is merged. So
`existingChangeID` finds it among the commits that are new to the target. That
the newest of them exists takes the least number principle, by way of the
well-founded order on the naturals.

**The firehose.** `FirehoseInv` follows the events of each node from its bus to the
client. The ring is the end of the node's log (`RingInv`). What is on the way, in
the subscription's channel and on the wire, is in order and newer than what the
client has (`WayInv`). And every event up to the client's cursor, and up to each
event on the way, is with the client or is accounted for as a gap or a drop, while
the ring has the rest until the stream has replayed it (`HeldInv`, `CursorInv`).
A restart begins a new run, and only events of the current run are owed.

**Requests.** `RouteInv` says what was decided of a call at each of its steps: a
role token was made where the caller has the role by a credential of their own, and
a call that is about to be handled is at the node its target names. Nothing is
assumed of routing tables and pools, which may be as stale as they like: the pin of
the connection and the check at the owner do not depend on them.

**Daemon calls.** `DaemonInv` has a part for each property. What a SetSecret or
an UnpublishPort has read is still what the daemon has, or the call is
`disturbed` (`SecretsInv`, `PortsInv`). A cleanup has every secret of the
sandbox still before it (`CleanInv`). For the reaper, `ClockInv` bounds the
ticks since the last poll of an agent run that is not `late` and with them the
age of the record, so that a reaper that is about to stop a machine has listed
it idle and no such run is in it (`ReapInv`). Streams and statistics share the
daemon and the clock, and their steps leave all of this alone but for the
record's age, which they may set to zero.

**Reviews.** `ReviewInv` says for each call what is on the forge of its own by
then: nothing before its replies go out; on GitHub what it has the ids of; on
Gerrit, between the two listings, only comments the first listing did not have, and
all of those unless the call is `crowded`. Comments are only appended, and
`PostAppends` says whose set of comments grows by which ids.

What stays with TLC:

* all liveness properties: TLAPS does not reach fairness. `RevocationsLast` is
  proved in its safety half, `RevokedGrows`;
* `CoordinatorsAgree` of Scheduler and `ThreadsStayWhole` of Review, which are about
  what a sort of the candidates and a walk over a listing compute: for every input
  this would take an induction over data;
* the value of the capacity base: a sum over the records would need an induction
  over finite sets.

## Deviations from the documents

Here the code does not do what a document, comment or test says. `overadmit`
is among the runs. Each of the others up to the line has a configuration that
reproduces it: TLC stops with a short counterexample.

| configuration | property | what happens |
|---|---|---|
| `MCSandboxManager_overadmit` | `NeverOverAdmits` | A base summed over an old listing replaces a newer one; the next create is admitted above the limit. ADR-0012:37-38: "reserved admission still prevents exceeding the limit". |
| `MCOperations_peer` | `RebindOnlyWhenGone` | A keyed retry takes a sandbox on a peer for gone and makes another. sandboxservice.go:280-281: "no longer exists or has been marked lost". |
| `MCOperations_tworebinds` | `Idempotent` | Two retries clear the key of one dead sandbox, the second one the mapping of the first. sandboxservice.go:236: "(idempotent)". |
| `MCSandboxManager_lostback` | `LostIsTerminal` | A start or stop under way overwrites lost. README.md:265-266: "declares `lost` (terminal)". |
| `MCSandboxManager_owned` | `OwnedIsFresh` | Two lists of owned ids are published in the wrong order. node.go:230-231: "so peer node-state stays fresh". |
| `MCSandboxManager_reaped` | `ReapedWasIdle` | A sandbox used after the reaper's listing is stopped. CONTEXT.md:186-187: "no Activity for longer than the configured idle timeout". |
| `MCSandboxManager_overdue` | `IdleIsStopped` | An exec starts a stopped machine; the record stays stopped, and nothing stops the machine. Same sentence. |
| `MCMembership_foreign` | `NoForeignPeers` | A merge past the guard keeps a peer of the swarm that was not joined. ADR-0001:8-9: "must not silently merge". |
| `MCPlacement_unknown` | `UnknownLimitIsLast` | bin-pack prefers an unknown limit. ADR-0007:15-16: "eligible but deprioritized". |
| `EventStream_gap` | `NoGap` | An event between replay and subscription is lost. watchevents.go:81-83: "then delivers live events". |
| `MCFileTransfer_shared` | `PublishedWhole` | Two uploads to one destination share a temporary file. filescopy.go:57: "A half-written file is never published." |
| `MCGitWorkspace_review` | `ReviewIsCurrent` | A review's sandbox publishes its branch (a stop does so by itself), which makes `review/<id>` upstream; the PRE fetch of the next sandbox for the review puts that branch over the patchset. provision_git.go:37-38: "fetch its Patchset into the base, then check that out". |
| `MCRequests_untracked` | `NoUntracked` | A default of less than one core becomes no core at all in the completed request. sandboxservice.go:78-79: "else the built-in floor (no untracked sandboxes)". |

The rest have a property but no file of their own. Each fails when it takes the
place of the properties of the configuration named.

| property | where | what happens |
|---|---|---|
| `SwarmIdIsKept` for all of `Nodes` | `MCMembership_foreign` | Two merges both adopt; the second overwrites the id on disk. ADR-0001:11-12: "requires explicit operator intent". |
| `LostIsConfirmed` | `MCSandboxManager_lostback` | A sandbox created between the daemon's listing and the records' is marked lost. CONTEXT.md:101: "reconciliation found the sandbox absent from its daemon". |
| `OneSandboxPerRequest` | `MCPlacement_placement` | A retry overtakes the create of the first call. node.go:922-923: "will not create a duplicate". |
| `IdsAreUnique` | `EventStream_firehose` | Ids repeat after a restart. ADR-0008:5: "monotonic id". |
| `LogStreamEnds` | `MCDaemon_daemon` with `StreamSetups` | When a log ends while nobody cancels, the pump ends and the handler waits on. backend.go:201-202: "until ctx is done or the stream ends". |
| `ResolvesWhenSet` | `MCRequests_untracked` with kind `review` | On Gerrit a reply without a body is skipped together with its resolution. gitprovider/review.go:114-115: "resolves the thread when Reply.Resolve is set". |
| `EnsuredIsUsable` | `MCGitWorkspace_git` with `Old = {}` | The base is cloned from an upstream without commits; once there is one, git refuses the PRE fetch into the checked-out unborn branch. workspace.go:113: "nothing checked out to conflict with a later fetch". Seen with git 2.39. |
| `DrainEmpties` | NodeControl's `FairSpec`, two operators, three RPCs | Drain, uncordon, drain: the second drain starts no sweep. Nor does a restart that restores the flag, or a user's start. nodeservice.go:184-185: "The node ends up empty". |
| `NoLandingOnCordoned` | NodeControl's `Spec`, same constants | A create that read the cordon before it was set lands afterwards. ADR-0023:45-46: "not a sandbox landing on a cordoned node". |

Two more have no property. ADR-0021 says that sandboxes on one branch name
"overwrite each other's pushed branch"; they do not, since a push is not forced
and the second one is refused (`Push` in GitWorkspace). And the one number of a
`Last-Event-ID` is applied to every node (`Replay` in EventStream), where
ADR-0008:6-7 speaks of "per-source high-water marks". `StreamIsFaithful` excuses
the events this skips.

## What is not modelled

* Formats and wire layouts: parsing of the configuration file, the environment
  and git remotes, marshalling, log lines, statistics and their units. A property
  would only restate the conversion.
* Cryptography. Signatures, hashes, pins and tokens are their outcome.
* Metrics, the network log and the web console: nothing else in a node reads them.
* The fake backend of the tests.
* Generated code, apart from which methods there are and which field of a request
  names its target.
* Of git workspaces: credentials, pipelines other than the default ones, and git's
  own lock files. Of reviews: GitLab and plain remotes, for which the code answers
  that they are not supported.
* Of events: filters, and the bounded memory of the merger, which needs more
  events than an instance can have.
* The order in which goroutines notice that their process stops. An RPC that
  outlives its listener is modelled.
* Placement together with Capacity. The number of free slots stands for the
  manager's reservations; Placement by itself has a million states on the
  smallest instance in which its cases happen.
