---------------------------- MODULE Membership -----------------------------
(***************************************************************************)
(* Swarm identity, peer states and the denylist of revoked nodes, as       *)
(* every node keeps them from gossip (internal/membership,                 *)
(* internal/routing/table.go).                                             *)
(*                                                                         *)
(* A push/pull hands a node the bulk state of a peer; memberlist calls     *)
(* MergeRemoteState from the goroutine of the connection, so several       *)
(* merges and notifications may be under way in one node.  The time from   *)
(* the snapshot of the peer's state to its merge is the network's delay.   *)
(***************************************************************************)
EXTENDS Naturals, FiniteSets

CONSTANTS
    Nodes,
    SwarmIds, NoSwarm,  \* swarm ids, and the empty one of a pending node
    Handlers,           \* goroutines serving gossip connections
    HandlerOf,          \* Handlers -> the node it runs in
    Revocable,          \* the node ids an operator may revoke
    Setups,             \* the deployments to consider, see SetupOK
    MaxRestarts,
    Absent

Ids == SwarmIds \cup {NoSwarm}
States == [from : Nodes, swarm : Ids, revoked : SUBSET Revocable]

\* A deployment: the nodes that run, the swarm id on their disks at first start,
\* the handlers that serve them, the ids the operators revoke, whether meta (UDP)
\* notifications are delivered, whether writes to disk may fail, and a bound on
\* the NotifyLeave callbacks.
SetupOK(s) ==
    /\ s.nodes \subseteq Nodes /\ s.seeded \in [Nodes -> Ids]
    /\ s.handlers \subseteq Handlers /\ s.revocable \subseteq Revocable
    /\ s.metaArrives \in BOOLEAN /\ s.putsFail \in BOOLEAN /\ s.maxLeaves \in Nat

ASSUME MembershipAssumption ==
    /\ NoSwarm \notin SwarmIds
    /\ HandlerOf \in [Handlers -> Nodes]
    /\ \A s \in Setups : SetupOK(s)
    /\ MaxRestarts \in Nat
    /\ Absent \notin Ids \cup States

VARIABLES
    setup,      \* the deployment, which does not change
    disk,       \* swarm.json: Nodes -> Ids
    swarm,      \* SwarmIdentity.SwarmID
    pending,    \* SwarmIdentity.Mode = ModePendingJoin
    advert,     \* Cluster.local.SwarmID
    peers,      \* peerStates: Nodes -> (Nodes -> swarm id merged, or Absent)
    table,      \* routing.Table: Nodes -> set of nodes
    revoked,    \* Cluster.revoked, also advertised
    stored,     \* the "revoked" bucket
    hpc, remote, adopt, \* a handler: step, state received, isPending as read
    restarts, leaves,
    unput,      \* history: Nodes -> revocations whose put failed
    crossed     \* history: nodes that adopted an id while another merge that had
                \* passed the guard was about to give them a different one

identity == <<disk, swarm, pending, advert, crossed>>
denylist == <<revoked, stored, unput>>
handlers == <<hpc, remote, adopt>>
bounds == <<setup, restarts, leaves>>
swarmVars == <<identity, peers, table, denylist, handlers, bounds>>

\* A first start; a node without seeds has minted its id.
SwarmInit ==
    /\ setup \in Setups
    /\ disk = setup.seeded /\ swarm = setup.seeded /\ advert = setup.seeded
    /\ pending = [n \in Nodes |-> setup.seeded[n] = NoSwarm]
    /\ peers = [n \in Nodes |-> [m \in Nodes |-> Absent]]
    /\ table = [n \in Nodes |-> {}]
    /\ revoked = [n \in Nodes |-> {}] /\ stored = [n \in Nodes |-> {}]
    /\ unput = [n \in Nodes |-> {}] /\ crossed = {}
    /\ hpc = [h \in Handlers |-> "idle"]
    /\ remote = [h \in Handlers |-> Absent]
    /\ adopt = [h \in Handlers |-> FALSE]
    /\ restarts = 0 /\ leaves = 0

-----------------------------------------------------------------------------
HGoto(h, label) == hpc' = [hpc EXCEPT ![h] = label]

\* A push/pull: h's node gets m's LocalState.
LocalState(m) == [from |-> m, swarm |-> advert[m], revoked |-> revoked[m]]

Receive(h, m) ==
    /\ hpc[h] = "idle" /\ m # HandlerOf[h]
    /\ remote' = [remote EXCEPT ![h] = LocalState(m)]
    /\ HGoto(h, "guard")
    /\ UNCHANGED <<identity, peers, table, denylist, adopt, bounds>>

HReturn(h) ==
    /\ HGoto(h, "idle")
    /\ remote' = [remote EXCEPT ![h] = Absent]
    /\ adopt' = [adopt EXCEPT ![h] = FALSE]

\* Mutant: two different ids are accepted.
GuardNothing(local, peer) == TRUE

\* Two distinct non-empty ids are a mismatch.
GuardJoin(local, peer) == local = NoSwarm \/ peer = NoSwarm \/ local = peer

\* MergeRemoteState reads the local id and skips a peer of another swarm.
MergeGuard(h) ==
    /\ hpc[h] = "guard"
    /\ \/ /\ GuardJoin(swarm[HandlerOf[h]], remote[h].swarm)
          /\ HGoto(h, "merge")
          /\ UNCHANGED <<remote, adopt>>
       \/ ~GuardJoin(swarm[HandlerOf[h]], remote[h].swarm) /\ HReturn(h)
    /\ UNCHANGED <<identity, peers, table, denylist, bounds>>

\* Mutant: the union is kept in memory only.
AddRevokedInMemory(n, ids) ==
    /\ revoked' = [revoked EXCEPT ![n] = @ \cup ids]
    /\ UNCHANGED <<stored, unput>>

\* addRevokedLocked: new ids are added, and stored with errors ignored.
AddRevoked(n, ids) ==
    /\ revoked' = [revoked EXCEPT ![n] = @ \cup ids]
    /\ \E written \in SUBSET (ids \ revoked[n]) :
        /\ setup.putsFail \/ written = ids \ revoked[n]
        /\ stored' = [stored EXCEPT ![n] = @ \cup written]
        /\ unput' = [unput EXCEPT ![n] = @ \cup ((ids \ revoked[n]) \ written)]

\* MergeRemoteState's critical section.
Merge(h) ==
    LET n == HandlerOf[h] IN
    /\ hpc[h] = "merge"
    /\ peers' = [peers EXCEPT ![n][remote[h].from] = remote[h].swarm]
    /\ AddRevoked(n, remote[h].revoked)
    /\ adopt' = [adopt EXCEPT ![h] = pending[n] /\ remote[h].swarm # NoSwarm]
    /\ HGoto(h, "upsert")
    /\ UNCHANGED <<identity, table, remote, bounds>>

Upsert(h) ==
    /\ hpc[h] = "upsert"
    /\ table' = [table EXCEPT ![HandlerOf[h]] = @ \cup {remote[h].from}]
    /\ IF adopt[h] THEN HGoto(h, "adopt") /\ UNCHANGED <<remote, adopt>> ELSE HReturn(h)
    /\ UNCHANGED <<identity, peers, denylist, bounds>>

\* Merges other than h that have passed the guard of h's node with another id.
Rivals(h) ==
    {g \in Handlers \ {h} :
        /\ HandlerOf[g] = HandlerOf[h] /\ hpc[g] \in {"merge", "upsert", "adopt"}
        /\ remote[g].swarm \notin {NoSwarm, remote[h].swarm}}

\* Adopt: the id is set without the lock, then written; if that fails the
\* node stays pending.
Adopt(h) ==
    LET n == HandlerOf[h] IN
    /\ hpc[h] = "adopt"
    /\ swarm' = [swarm EXCEPT ![n] = remote[h].swarm]
    /\ \/ /\ disk' = [disk EXCEPT ![n] = remote[h].swarm]
          /\ HGoto(h, "adopted")
          /\ UNCHANGED <<remote, adopt>>
       \/ setup.putsFail /\ HReturn(h) /\ UNCHANGED disk
    /\ crossed' = IF Rivals(h) = {} THEN crossed ELSE crossed \cup {n}
    /\ UNCHANGED <<pending, advert, peers, table, denylist, bounds>>

\* The id is advertised and the node is a member.
Adopted(h) ==
    LET n == HandlerOf[h] IN
    /\ hpc[h] = "adopted"
    /\ advert' = [advert EXCEPT ![n] = remote[h].swarm]
    /\ pending' = [pending EXCEPT ![n] = FALSE]
    /\ HReturn(h)
    /\ UNCHANGED <<disk, swarm, crossed, peers, table, denylist, bounds>>

-----------------------------------------------------------------------------
\* An operator revokes x at n; revoking oneself is refused.
Revoke(n, x) ==
    /\ x # n /\ x \notin revoked[n]
    /\ AddRevoked(n, {x})
    /\ UNCHANGED <<identity, peers, table, handlers, bounds>>

\* NotifyJoin and NotifyUpdate: the address in m's meta is entered.
NotifyJoin(n, m) ==
    /\ setup.metaArrives /\ m # n /\ m \notin table[n]
    /\ table' = [table EXCEPT ![n] = @ \cup {m}]
    /\ UNCHANGED <<identity, peers, denylist, handlers, bounds>>

\* NotifyLeave, in a handler of its own: first the table, then peerStates.
NotifyLeave(h, m) ==
    /\ hpc[h] = "idle" /\ m # HandlerOf[h]
    /\ leaves < setup.maxLeaves /\ leaves' = leaves + 1
    /\ table' = [table EXCEPT ![HandlerOf[h]] = @ \ {m}]
    /\ remote' = [remote EXCEPT ![h] = LocalState(m)]
    /\ HGoto(h, "forget")
    /\ UNCHANGED <<identity, peers, denylist, adopt, setup, restarts>>

Forget(h) ==
    /\ hpc[h] = "forget"
    /\ peers' = [peers EXCEPT ![HandlerOf[h]][remote[h].from] = Absent]
    /\ HReturn(h)
    /\ UNCHANGED <<identity, table, denylist, bounds>>

\* Mutant: a node that was configured to join starts pending again.
LoadSeedsFirst(n) == IF setup.seeded[n] = NoSwarm THEN NoSwarm ELSE disk[n]

\* The id a start takes: the stored one, and none when there is none.
LoadOrInit(n) == disk[n]

\* A node dies and starts again: LoadOrInit, loadRevoked.
Restart(n) ==
    /\ restarts < MaxRestarts /\ restarts' = restarts + 1
    /\ swarm' = [swarm EXCEPT ![n] = LoadOrInit(n)]
    /\ advert' = [advert EXCEPT ![n] = LoadOrInit(n)]
    /\ pending' = [pending EXCEPT ![n] = LoadOrInit(n) = NoSwarm]
    /\ peers' = [peers EXCEPT ![n] = [m \in Nodes |-> Absent]]
    /\ table' = [table EXCEPT ![n] = {}]
    /\ revoked' = [revoked EXCEPT ![n] = stored[n]]
    /\ unput' = [unput EXCEPT ![n] = {}]
    /\ hpc' = [h \in Handlers |-> IF HandlerOf[h] = n THEN "idle" ELSE hpc[h]]
    /\ remote' = [h \in Handlers |-> IF HandlerOf[h] = n THEN Absent ELSE remote[h]]
    /\ adopt' = [h \in Handlers |-> HandlerOf[h] # n /\ adopt[h]]
    /\ crossed' = crossed \ {n}
    /\ UNCHANGED <<disk, stored, setup, leaves>>

MergeStep(h) == MergeGuard(h) \/ Merge(h) \/ Upsert(h) \/ Adopt(h) \/ Adopted(h) \/ Forget(h)

SwarmNext ==
    \/ \E h \in setup.handlers :
           MergeStep(h) \/ \E m \in setup.nodes : Receive(h, m) \/ NotifyLeave(h, m)
    \/ \E n \in setup.nodes : \/ \E x \in setup.revocable : Revoke(n, x)
                              \/ \E m \in setup.nodes : NotifyJoin(n, m)
                              \/ Restart(n)

SwarmSpec == SwarmInit /\ [][SwarmNext]_swarmVars

\* A connection between two nodes that run.
PushPull(n, m) ==
    /\ {n, m} \subseteq setup.nodes
    /\ \E h \in setup.handlers : HandlerOf[h] = n /\ Receive(h, m)

\* memberlist push/pulls with every live peer again and again.
SwarmFairness ==
    /\ \A h \in Handlers : WF_swarmVars(h \in setup.handlers /\ MergeStep(h))
    /\ \A n \in Nodes : \A m \in Nodes \ {n} : SF_swarmVars(PushPull(n, m))

FairSwarm == SwarmSpec /\ SwarmFairness

-----------------------------------------------------------------------------
\* Type invariant.
MembershipTypeOK ==
    /\ disk \in [Nodes -> Ids] /\ swarm \in [Nodes -> Ids] /\ advert \in [Nodes -> Ids]
    /\ pending \in [Nodes -> BOOLEAN] /\ crossed \subseteq Nodes
    /\ peers \in [Nodes -> [Nodes -> Ids \cup {Absent}]]
    /\ table \in [Nodes -> SUBSET Nodes]
    /\ revoked \in [Nodes -> SUBSET Revocable] /\ stored \in [Nodes -> SUBSET Revocable]
    /\ unput \in [Nodes -> SUBSET Revocable]
    /\ hpc \in [Handlers -> {"idle", "guard", "merge", "upsert", "adopt", "adopted", "forget"}]
    /\ remote \in [Handlers -> States \cup {Absent}]
    /\ adopt \in [Handlers -> BOOLEAN]
    /\ restarts \in 0 .. MaxRestarts /\ leaves \in 0 .. setup.maxLeaves

\* Joining a second swarm takes an operator: once a node has a swarm id on
\* disk, no gossip and no restart changes it.  Only merges of two swarms that
\* overlap in a pending node break this: MergeRemoteState holds no lock from the
\* guard to Adopt, and the id the first one has stored is overwritten.
SwarmIdIsKept ==
    [][\A n \in Nodes \ crossed : disk[n] # NoSwarm => disk'[n] = disk[n]]_swarmVars

\* A node that has an id knows only peers that advertised this id, or none
\* yet, when they were merged.
OwnPeers(n) == ~pending[n] => \A m \in Nodes : peers[n][m] \in {Absent, NoSwarm, swarm[n]}

\* Two swarms that share a secret do not merge.
NoForeignPeers == \A n \in Nodes : OwnPeers(n)

\* The denylist only grows, in memory and across restarts; a restart forgets
\* only an id whose put failed, which addRevokedLocked ignores.
RevokedGrows == [][\A n \in Nodes : revoked[n] \ unput[n] \subseteq revoked'[n]]_swarmVars

\* A revocation issued at one node of a swarm reaches them all, also those
\* that are still to adopt the swarm's id; it is lost only when no node that
\* knows it has stored it and each has restarted.
RevocationSpreads ==
    \A x \in Revocable :
        (\E n \in Nodes : x \in revoked[n])
            ~> \/ \A m \in setup.nodes : x \in revoked[m]
               \/ \A m \in setup.nodes : x \notin revoked[m]

\* RevokeNode holds for good and for all: a denylist never loses an id it has
\* stored, through merges, adoptions and restarts, and a revocation issued at one
\* node comes to be known at every node of the swarm.
RevocationsLast == RevokedGrows /\ RevocationSpreads

\* A node that has merged a peer, with no callback in progress, can route to
\* it: the scheduler's candidates have an address.
PeersAreRoutable ==
    \A n \in Nodes :
        (\A h \in Handlers : HandlerOf[h] = n => hpc[h] = "idle") =>
            {m \in Nodes : peers[n][m] # Absent} \subseteq table[n]

\* What a node may rely on in its table of peers: each can be routed to, and
\* none belongs to another swarm, unless merges of two swarms overlapped when
\* the node was pending and it has not been restarted since.
PeersAreSound == PeersAreRoutable /\ \A n \in Nodes \ crossed : OwnPeers(n)
=============================================================================
