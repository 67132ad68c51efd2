----------------------------- MODULE NodeProofs -----------------------------
(***************************************************************************)
(* What a node keeps of the swarm it is in, and of itself: PeersAreSound,  *)
(* SwarmIdIsKept and RevokedGrows of Membership, for any number of nodes,  *)
(* connections, swarms and restarts, and, further down, NodeControl and    *)
(* NodeLife.                                                               *)
(*                                                                         *)
(* None of the three is inductive.  RouteInv and DenyInv say which         *)
(* callback or which failed put accounts for a difference; JoinInv is      *)
(* about the id a pending node takes, which the guard reads before         *)
(* MergeRemoteState takes its lock and Adopt sets after it is released.    *)
(* As long as no two merges of different swarms overlapped there (crossed),*)
(* every merge past the guard suits the id the node has, and a pending     *)
(* node knows only peers whose id a merge under way is about to adopt.     *)
(***************************************************************************)
EXTENDS Membership, NodeLife, TLAPS

\* Most leaves are first-order; those that need more name SMTT.
\* The times are generous, so that no proof depends on how busy a machine is.
USE ZenonT(60)

-----------------------------------------------------------------------------
\* Only handlers of the deployment move, each with a state in hand.
TypeInv ==
    /\ MembershipTypeOK
    /\ setup \in Setups
    /\ \A h \in Handlers : hpc[h] # "idle" => h \in setup.handlers /\ remote[h] \in States

\* A peer without an address has a callback that is about to enter the address
\* or to forget the peer.
RouteInv ==
    \A n, m \in Nodes : (peers[n][m] # Absent /\ m \notin table[n]) =>
        \E h \in Handlers : HandlerOf[h] = n /\ hpc[h] \in {"upsert", "forget"} /\ remote[h].from = m

\* An id of the denylist is stored, or its put failed.
DenyInv == \A n \in Nodes : revoked[n] \subseteq stored[n] \cup unput[n]

\* Nobody adopts the empty id, and a node without an id is pending.
IdAt(n) == ~pending[n] => swarm[n] # NoSwarm

IdOf(h) ==
    /\ adopt[h] => hpc[h] \in {"upsert", "adopt", "adopted"} /\ remote[h].swarm # NoSwarm
    /\ hpc[h] \in {"adopt", "adopted"} => adopt[h]
    /\ hpc[h] = "adopted" => swarm[HandlerOf[h]] # NoSwarm

IdInv == (\A n \in Nodes : IdAt(n)) /\ (\A h \in Handlers : IdOf(h))

\* A handler that is to adopt the id it merged.
Joining(h) == hpc[h] \in {"upsert", "adopt"} /\ adopt[h]

\* A merge that has passed the guard suits the id its node has.
JoinOf(h) ==
    hpc[h] \in {"merge", "upsert", "adopt", "adopted"} => GuardJoin(swarm[HandlerOf[h]], remote[h].swarm)

\* The stored id is the node's, and the peers it knows are of this id, or of
\* one it is about to take.
Suits(n, m) ==
    \/ peers[n][m] \in {Absent, NoSwarm, swarm[n]}
    \/ /\ swarm[n] = NoSwarm
       /\ \E h \in Handlers : HandlerOf[h] = n /\ Joining(h) /\ peers[n][m] = remote[h].swarm

JoinAt(n) == disk[n] \in {NoSwarm, swarm[n]} /\ \A m \in Nodes : Suits(n, m)

Settled(n) == JoinAt(n) /\ \A h \in Handlers : HandlerOf[h] = n => JoinOf(h)

JoinInv == \A n \in Nodes : n \notin crossed => Settled(n)

MemInv == TypeInv /\ RouteInv /\ DenyInv /\ IdInv /\ JoinInv

\* RouteInv of one peer.
LEMMA Unrouted ==
    ASSUME RouteInv, NEW k \in Nodes, NEW x \in Nodes, peers[k][x] # Absent, x \notin table[k]
    PROVE  \E g \in Handlers : HandlerOf[g] = k /\ hpc[g] \in {"upsert", "forget"} /\ remote[g].from = x
  BY DEF RouteInv

-----------------------------------------------------------------------------
(***************************************************************************)
(* What a step leaves alone.                                               *)
(***************************************************************************)
\* A handler that does not move, in a node whose id does not change.
LEMMA SameJoinOf ==
    ASSUME NEW g \in Handlers, JoinOf(g), hpc'[g] = hpc[g], remote'[g] = remote[g],
           swarm'[HandlerOf[g]] = swarm[HandlerOf[g]]
    PROVE  JoinOf(g)'
BY DEF JoinOf, GuardJoin

\* A node whose id and peers stay, and whose joins go on.
LEMMA SameJoinAt ==
    ASSUME NEW n \in Nodes, JoinAt(n), swarm'[n] = swarm[n], disk'[n] = disk[n], peers'[n] = peers[n],
           \A g \in Handlers : HandlerOf[g] = n => (Joining(g) => Joining(g)' /\ remote'[g] = remote[g])
    PROVE  JoinAt(n)'
<1>1. ASSUME NEW m \in Nodes PROVE Suits(n, m)'
  BY DEF JoinAt, Suits
<1>2. disk'[n] \in {NoSwarm, swarm'[n]}
  BY DEF JoinAt
<1> QED BY <1>1, <1>2 DEF JoinAt

\* A step of one handler that touches no id and no peer: the others stay, and
\* the handler goes on with what it merged, or was not to adopt it.
LEMMA SameSettled ==
    ASSUME JoinInv, UNCHANGED <<disk, swarm, peers, crossed>>, NEW h \in Handlers, JoinOf(h) => JoinOf(h)',
           Joining(h) => Joining(h)' /\ remote'[h] = remote[h],
           \A g \in Handlers : g # h => hpc'[g] = hpc[g] /\ remote'[g] = remote[g] /\ adopt'[g] = adopt[g]
    PROVE  JoinInv'
<1>1. \A g \in Handlers : Joining(g) => Joining(g)' /\ remote'[g] = remote[g]
  BY DEF Joining
<1>2. ASSUME NEW n \in Nodes, n \notin crossed PROVE JoinAt(n)' /\ \A g \in Handlers : HandlerOf[g] = n => JoinOf(g)'
  <2>1. JoinAt(n) /\ \A g \in Handlers : HandlerOf[g] = n => JoinOf(g)
    BY <1>2 DEF JoinInv, Settled
  <2>2. JoinAt(n)'
    BY <1>1, <2>1, SameJoinAt
  <2>3. \A g \in Handlers : HandlerOf[g] = n => JoinOf(g)'
    BY <2>1, SameJoinOf
  <2> QED BY <2>2, <2>3
<1> QED BY <1>2 DEF JoinInv, Settled

\* The same for the id a node has.
LEMMA SameIdAt ==
    ASSUME NEW n \in Nodes, IdAt(n), swarm'[n] = swarm[n], pending'[n] = pending[n]
    PROVE  IdAt(n)'
BY DEF IdAt

\* And for the id a handler has in hand.
LEMMA SameIdOf ==
    ASSUME NEW g \in Handlers, IdOf(g), hpc'[g] = hpc[g], remote'[g] = remote[g], adopt'[g] = adopt[g],
           swarm'[HandlerOf[g]] = swarm[HandlerOf[g]]
    PROVE  IdOf(g)'
BY DEF IdOf

\* A node's peers and table stay, and the callbacks under way go on.
LEMMA SameRoutes ==
    ASSUME RouteInv, UNCHANGED <<peers, table>>,
           \A g \in Handlers : hpc[g] \in {"upsert", "forget"} => hpc'[g] = hpc[g] /\ remote'[g] = remote[g]
    PROVE  RouteInv'
BY SMTT(60) DEF RouteInv

\* The denylist stays.
LEMMA SameDenylist ==
    ASSUME DenyInv, UNCHANGED <<revoked, stored, unput>>
    PROVE  DenyInv'
BY DEF DenyInv

\* What the constants of a deployment are.
LEMMA SetupFacts ==
    ASSUME setup \in Setups
    PROVE  /\ setup.nodes \subseteq Nodes /\ setup.seeded \in [Nodes -> Ids] /\ setup.handlers \subseteq Handlers
           /\ setup.revocable \subseteq Revocable /\ setup.maxLeaves \in Nat
           /\ \A g \in Handlers : HandlerOf[g] \in Nodes
BY MembershipAssumption DEF SetupOK

\* A handler gets a peer's state.
LEMMA ReceiveKeeps ==
    ASSUME MemInv, NEW h \in Handlers, h \in setup.handlers, NEW m \in Nodes, Receive(h, m)
    PROVE  MemInv'
<1>0. MembershipTypeOK /\ setup \in Setups /\ TypeInv /\ RouteInv /\ DenyInv /\ IdInv /\ JoinInv
  BY DEF MemInv, TypeInv
<1> DEFINE r == LocalState(m)
<1>1. /\ hpc[h] = "idle" /\ hpc' = [hpc EXCEPT ![h] = "guard"] /\ remote' = [remote EXCEPT ![h] = r]
      /\ UNCHANGED <<disk, swarm, crossed, pending, advert, peers, table, revoked, stored, unput, adopt, setup, restarts, leaves>>
  BY DEF Receive, HGoto, identity, denylist, bounds
<1>2. r \in States /\ r.swarm = advert[m]
  BY <1>0 DEF MembershipTypeOK, LocalState, States
<1> HIDE DEF r
<1>3. /\ hpc'[h] = "guard" /\ remote'[h] = r
      /\ \A g \in Handlers : g # h => hpc'[g] = hpc[g] /\ remote'[g] = remote[g]
  BY <1>0, <1>1 DEF MembershipTypeOK
<1>4. MembershipTypeOK'
  BY <1>0, <1>1, <1>2 DEF MembershipTypeOK
<1>5. TypeInv'
  BY <1>0, <1>1, <1>2, <1>3, <1>4 DEF TypeInv
<1>6. RouteInv'
  BY <1>0, <1>1, <1>3, SameRoutes
<1>7. DenyInv'
  BY <1>0, <1>1, SameDenylist
<1>8. IdInv'
  <2>1. \A n \in Nodes : IdAt(n)'
    BY <1>0, <1>1, SameIdAt DEF IdInv
  <2>2. \A g \in Handlers : g # h => IdOf(g)'
    BY <1>0, <1>1, <1>3, SameIdOf DEF IdInv
  <2>3. ~adopt[h]
    BY <1>0, <1>1 DEF IdInv, IdOf
  <2>4. IdOf(h)'
    BY <1>1, <1>3, <2>3 DEF IdOf
  <2> QED BY <2>1, <2>2, <2>4 DEF IdInv
<1>9. JoinOf(h)' /\ ~Joining(h)
  BY <1>1, <1>3 DEF JoinOf, Joining
<1>10. JoinInv'
  BY <1>0, <1>1, <1>3, <1>9, SameSettled
<1> QED BY <1>5, <1>6, <1>7, <1>8, <1>10 DEF MemInv

\* addRevokedLocked keeps the denylist and what is stored of it together.
LEMMA AddRevokedKeeps ==
    ASSUME MembershipTypeOK, DenyInv, NEW n \in Nodes, NEW ids \in SUBSET Revocable, AddRevoked(n, ids)
    PROVE  /\ revoked' \in [Nodes -> SUBSET Revocable] /\ stored' \in [Nodes -> SUBSET Revocable]
           /\ unput' \in [Nodes -> SUBSET Revocable]
           /\ DenyInv'
           /\ \A k \in Nodes : revoked[k] \subseteq revoked'[k]
<1>0. /\ revoked \in [Nodes -> SUBSET Revocable] /\ stored \in [Nodes -> SUBSET Revocable]
      /\ unput \in [Nodes -> SUBSET Revocable]
  BY DEF MembershipTypeOK
<1>1. PICK written \in SUBSET (ids \ revoked[n]) :
        /\ stored' = [stored EXCEPT ![n] = @ \cup written]
        /\ unput' = [unput EXCEPT ![n] = @ \cup ((ids \ revoked[n]) \ written)]
  BY DEF AddRevoked
<1>2. revoked' = [revoked EXCEPT ![n] = @ \cup ids]
  BY DEF AddRevoked
<1>3. /\ revoked' \in [Nodes -> SUBSET Revocable] /\ stored' \in [Nodes -> SUBSET Revocable]
      /\ unput' \in [Nodes -> SUBSET Revocable]
  BY <1>0, <1>1, <1>2
<1>4. /\ revoked'[n] = revoked[n] \cup ids /\ stored'[n] = stored[n] \cup written
      /\ unput'[n] = unput[n] \cup ((ids \ revoked[n]) \ written)
      /\ \A k \in Nodes : k # n => revoked'[k] = revoked[k] /\ stored'[k] = stored[k] /\ unput'[k] = unput[k]
  BY <1>0, <1>1, <1>2
<1>5. revoked'[n] \subseteq stored'[n] \cup unput'[n]
  BY <1>4 DEF DenyInv
<1>6. DenyInv'
  BY <1>4, <1>5 DEF DenyInv
<1>7. \A k \in Nodes : revoked[k] \subseteq revoked'[k]
  BY <1>4
<1> QED BY <1>3, <1>6, <1>7

\* MergeRemoteState's guard.
LEMMA MergeGuardKeeps ==
    ASSUME MemInv, NEW h \in Handlers, h \in setup.handlers, MergeGuard(h)
    PROVE  MemInv'
<1>0. MembershipTypeOK /\ setup \in Setups /\ TypeInv /\ RouteInv /\ DenyInv /\ IdInv /\ JoinInv
  BY DEF MemInv, TypeInv
<1>1. /\ hpc[h] = "guard"
      /\ UNCHANGED <<disk, swarm, crossed, pending, advert, peers, table, revoked, stored, unput, setup, restarts, leaves>>
  BY DEF MergeGuard, identity, denylist, bounds
<1>2. /\ \A g \in Handlers : g # h => hpc'[g] = hpc[g] /\ remote'[g] = remote[g] /\ adopt'[g] = adopt[g]
      /\ \/ hpc'[h] = "idle" /\ ~adopt'[h]
         \/ /\ hpc'[h] = "merge" /\ remote'[h] = remote[h] /\ adopt'[h] = adopt[h]
            /\ GuardJoin(swarm[HandlerOf[h]], remote[h].swarm)
      /\ hpc' \in [Handlers -> {"idle", "guard", "merge", "upsert", "adopt", "adopted", "forget"}]
      /\ remote' \in [Handlers -> States \cup {Absent}] /\ adopt' \in [Handlers -> BOOLEAN]
  <2>1. CASE GuardJoin(swarm[HandlerOf[h]], remote[h].swarm) /\ HGoto(h, "merge") /\ UNCHANGED <<remote, adopt>>
    BY <1>0, <2>1 DEF MembershipTypeOK, HGoto
  <2>2. CASE HReturn(h)
    BY <1>0, <2>2 DEF MembershipTypeOK, HReturn, HGoto
  <2> QED BY <2>1, <2>2 DEF MergeGuard
<1>4. MembershipTypeOK'
  BY <1>0, <1>1, <1>2 DEF MembershipTypeOK
<1>5. TypeInv'
  BY <1>0, <1>1, <1>2, <1>4 DEF TypeInv
<1>6. RouteInv'
  BY <1>0, <1>1, <1>2, SameRoutes
<1>7. DenyInv'
  BY <1>0, <1>1, SameDenylist
<1>8. IdInv'
  <2>1. \A n \in Nodes : IdAt(n)'
    BY <1>0, <1>1, SameIdAt DEF IdInv
  <2>2. \A g \in Handlers : g # h => IdOf(g)'
    BY <1>0, <1>1, <1>2, SameIdOf DEF IdInv
  <2>3. ~adopt[h]
    BY <1>0, <1>1 DEF IdInv, IdOf
  <2>4. IdOf(h)'
    BY <1>1, <1>2, <2>3 DEF IdOf
  <2> QED BY <2>1, <2>2, <2>4 DEF IdInv
<1>9. JoinOf(h)' /\ ~Joining(h)
  BY <1>1, <1>2 DEF JoinOf, Joining, GuardJoin
<1>10. JoinInv'
  BY <1>0, <1>1, <1>2, <1>9, SameSettled
<1> QED BY <1>5, <1>6, <1>7, <1>8, <1>10 DEF MemInv

\* MergeRemoteState's critical section.
LEMMA MergeKeeps ==
    ASSUME MemInv, NEW h \in Handlers, h \in setup.handlers, Merge(h)
    PROVE  MemInv'
<1>0. MembershipTypeOK /\ setup \in Setups /\ TypeInv /\ RouteInv /\ DenyInv /\ IdInv /\ JoinInv
  BY DEF MemInv, TypeInv
<1> DEFINE n == HandlerOf[h]
<1>1. /\ hpc[h] = "merge" /\ hpc' = [hpc EXCEPT ![h] = "upsert"]
      /\ peers' = [peers EXCEPT ![n][remote[h].from] = remote[h].swarm]
      /\ AddRevoked(n, remote[h].revoked)
      /\ adopt' = [adopt EXCEPT ![h] = pending[n] /\ remote[h].swarm # NoSwarm]
      /\ UNCHANGED <<disk, swarm, crossed, pending, advert, table, remote, setup, restarts, leaves>>
  BY DEF Merge, HGoto, identity, bounds
<1>2. n \in Nodes
  BY <1>0, SetupFacts
<1> HIDE DEF n
<1>3. HandlerOf[h] = n
  BY DEF n
<1>4. /\ remote[h] \in States /\ remote[h].from \in Nodes /\ remote[h].swarm \in Ids
      /\ remote[h].revoked \in SUBSET Revocable
  <2>1. remote[h] \in States
    BY <1>0, <1>1 DEF TypeInv
  <2> QED BY <2>1 DEF States
<1>5. /\ hpc'[h] = "upsert" /\ (adopt'[h] <=> pending[n] /\ remote[h].swarm # NoSwarm)
      /\ \A g \in Handlers : g # h => hpc'[g] = hpc[g] /\ adopt'[g] = adopt[g]
  BY <1>0, <1>1 DEF MembershipTypeOK
<1>6. /\ peers'[n][remote[h].from] = remote[h].swarm
      /\ \A m \in Nodes : m # remote[h].from => peers'[n][m] = peers[n][m]
      /\ \A k \in Nodes : k # n => peers'[k] = peers[k]
      /\ peers' \in [Nodes -> [Nodes -> Ids \cup {Absent}]]
  <2>1. peers \in [Nodes -> [Nodes -> Ids \cup {Absent}]]
    BY <1>0 DEF MembershipTypeOK
  <2> QED BY <1>1, <1>2, <1>4, <2>1
<1>7. /\ revoked' \in [Nodes -> SUBSET Revocable] /\ stored' \in [Nodes -> SUBSET Revocable]
      /\ unput' \in [Nodes -> SUBSET Revocable] /\ DenyInv'
  BY <1>0, <1>1, <1>2, <1>4, AddRevokedKeeps
<1>8. MembershipTypeOK'
  <2>1. adopt' \in [Handlers -> BOOLEAN]
    BY <1>0, <1>1 DEF MembershipTypeOK
  <2>2. hpc' \in [Handlers -> {"idle", "guard", "merge", "upsert", "adopt", "adopted", "forget"}]
    BY <1>0, <1>1 DEF MembershipTypeOK
  <2> QED BY <1>0, <1>1, <1>6, <1>7, <2>1, <2>2 DEF MembershipTypeOK
<1>9. TypeInv'
  BY <1>0, <1>1, <1>4, <1>5, <1>8 DEF TypeInv
<1>10. RouteInv'
  <2>0. RouteInv
    BY <1>0
  <2>1. ASSUME NEW k \in Nodes, NEW m \in Nodes, peers'[k][m] # Absent, m \notin table'[k]
        PROVE  \E g \in Handlers : HandlerOf[g] = k /\ hpc'[g] \in {"upsert", "forget"} /\ remote'[g].from = m
    <3>1. CASE k = n /\ m = remote[h].from
      BY <1>1, <1>3, <1>5, <3>1
    <3>2. CASE ~(k = n /\ m = remote[h].from)
      <4>1. peers[k][m] # Absent /\ m \notin table[k]
        BY <1>1, <1>6, <2>1, <3>2
      <4>2. PICK g \in Handlers : HandlerOf[g] = k /\ hpc[g] \in {"upsert", "forget"} /\ remote[g].from = m
        BY <2>0, <4>1, Unrouted
      <4>3. hpc'[g] = hpc[g] /\ remote'[g] = remote[g]
        BY <1>1, <1>5, <4>2
      <4> QED BY <4>2, <4>3
    <3> QED BY <3>1, <3>2
  <2> QED BY <2>1 DEF RouteInv
<1>11. IdInv'
  <2>1. \A k \in Nodes : IdAt(k)'
    BY <1>0, <1>1, SameIdAt DEF IdInv
  <2>2. \A g \in Handlers : g # h => IdOf(g)'
    BY <1>0, <1>1, <1>5, SameIdOf DEF IdInv
  <2>3. IdOf(h)'
    BY <1>1, <1>5 DEF IdOf
  <2> QED BY <2>1, <2>2, <2>3 DEF IdInv
<1>12. ASSUME NEW k \in Nodes, k \notin crossed PROVE Settled(k)'
  <2>1. JoinAt(k) /\ \A g \in Handlers : HandlerOf[g] = k => JoinOf(g)
    BY <1>0, <1>12 DEF JoinInv, Settled
  <2>2. ASSUME NEW g \in Handlers, HandlerOf[g] = k PROVE JoinOf(g)'
    <3>1. JoinOf(g)
      BY <2>1, <2>2
    <3>2. CASE g = h
      BY <1>1, <3>1, <3>2 DEF JoinOf, GuardJoin
    <3>3. CASE g # h
      BY <1>1, <1>5, <3>1, <3>3, SameJoinOf
    <3> QED BY <3>2, <3>3
  <2>3. \A g \in Handlers : Joining(g) => Joining(g)' /\ remote'[g] = remote[g]
    BY <1>1, <1>5 DEF Joining
  <2>4. CASE k # n
    <3>1. JoinAt(k)'
      BY <1>1, <1>6, <2>1, <2>3, <2>4, SameJoinAt
    <3> QED BY <2>2, <3>1 DEF Settled
  <2>5. CASE k = n
    <3>1. GuardJoin(swarm[n], remote[h].swarm)
      BY <1>1, <1>3, <2>1, <2>5 DEF JoinOf
    <3>2. ASSUME NEW m \in Nodes PROVE Suits(n, m)'
      <4>1. CASE m # remote[h].from
        <5>1. Suits(n, m) /\ peers'[n][m] = peers[n][m]
          BY <1>6, <2>1, <2>5, <4>1 DEF JoinAt
        <5> QED BY <1>1, <2>3, <5>1 DEF Suits
      <4>2. CASE m = remote[h].from /\ (swarm[n] # NoSwarm \/ remote[h].swarm = NoSwarm)
        <5>1. peers'[n][m] \in {NoSwarm, swarm[n]}
          BY <1>6, <3>1, <4>2 DEF GuardJoin
        <5> QED BY <1>1, <5>1 DEF Suits
      <4>3. CASE m = remote[h].from /\ swarm[n] = NoSwarm /\ remote[h].swarm # NoSwarm
        <5>1. pending[n]
          BY <1>0, <1>2, <4>3 DEF IdInv, IdAt
        <5>2. Joining(h)'
          BY <1>5, <4>3, <5>1 DEF Joining
        <5> QED BY <1>1, <1>3, <1>6, <4>3, <5>2 DEF Suits
      <4> QED BY <4>1, <4>2, <4>3
    <3>3. JoinAt(n)'
      BY <1>1, <2>1, <2>5, <3>2 DEF JoinAt
    <3> QED BY <2>2, <2>5, <3>3 DEF Settled
  <2> QED BY <2>4, <2>5
<1>13. JoinInv'
  BY <1>1, <1>12 DEF JoinInv
<1> QED BY <1>7, <1>9, <1>10, <1>11, <1>13 DEF MemInv

\* The address is entered.
LEMMA UpsertKeeps ==
    ASSUME MemInv, NEW h \in Handlers, h \in setup.handlers, Upsert(h)
    PROVE  MemInv'
<1>0. MembershipTypeOK /\ setup \in Setups /\ TypeInv /\ RouteInv /\ DenyInv /\ IdInv /\ JoinInv
  BY DEF MemInv, TypeInv
<1> DEFINE n == HandlerOf[h]
<1>1. /\ hpc[h] = "upsert" /\ table' = [table EXCEPT ![n] = @ \cup {remote[h].from}]
      /\ UNCHANGED <<disk, swarm, crossed, pending, advert, peers, revoked, stored, unput, setup, restarts, leaves>>
  BY DEF Upsert, identity, denylist, bounds
<1>2. n \in Nodes
  BY <1>0, SetupFacts
<1> HIDE DEF n
<1>3. HandlerOf[h] = n
  BY DEF n
<1>4. remote[h] \in States /\ remote[h].from \in Nodes
  <2>1. remote[h] \in States
    BY <1>0, <1>1 DEF TypeInv
  <2> QED BY <2>1 DEF States
<1>5. /\ \A g \in Handlers : g # h => hpc'[g] = hpc[g] /\ remote'[g] = remote[g] /\ adopt'[g] = adopt[g]
      /\ \/ hpc'[h] = "idle" /\ ~adopt'[h] /\ ~adopt[h]
         \/ hpc'[h] = "adopt" /\ remote'[h] = remote[h] /\ adopt'[h] = adopt[h] /\ adopt[h]
      /\ hpc' \in [Handlers -> {"idle", "guard", "merge", "upsert", "adopt", "adopted", "forget"}]
      /\ remote' \in [Handlers -> States \cup {Absent}] /\ adopt' \in [Handlers -> BOOLEAN]
  <2>1. CASE adopt[h] /\ HGoto(h, "adopt") /\ UNCHANGED <<remote, adopt>>
    BY <1>0, <2>1 DEF MembershipTypeOK, HGoto
  <2>2. CASE ~adopt[h] /\ HReturn(h)
    BY <1>0, <2>2 DEF MembershipTypeOK, HReturn, HGoto
  <2> QED BY <2>1, <2>2 DEF Upsert
<1>6. /\ remote[h].from \in table'[n] /\ \A k \in Nodes : table[k] \subseteq table'[k]
      /\ table' \in [Nodes -> SUBSET Nodes]
  <2>1. table \in [Nodes -> SUBSET Nodes]
    BY <1>0 DEF MembershipTypeOK
  <2> QED BY <1>1, <1>2, <1>4, <2>1
<1>7. MembershipTypeOK'
  BY <1>0, <1>1, <1>5, <1>6 DEF MembershipTypeOK
<1>8. TypeInv'
  BY <1>0, <1>1, <1>5, <1>7 DEF TypeInv
<1>9. RouteInv'
  <2>0. RouteInv
    BY <1>0
  <2>1. ASSUME NEW k \in Nodes, NEW m \in Nodes, peers'[k][m] # Absent, m \notin table'[k]
        PROVE  \E g \in Handlers : HandlerOf[g] = k /\ hpc'[g] \in {"upsert", "forget"} /\ remote'[g].from = m
    <3>1. peers[k][m] # Absent /\ m \notin table[k]
      BY <1>1, <1>6, <2>1
    <3>2. PICK g \in Handlers : HandlerOf[g] = k /\ hpc[g] \in {"upsert", "forget"} /\ remote[g].from = m
      BY <2>0, <3>1, Unrouted
    <3>3. g # h
      BY <1>3, <1>6, <2>1, <3>2
    <3> QED BY <1>5, <3>2, <3>3
  <2> QED BY <2>1 DEF RouteInv
<1>10. DenyInv'
  BY <1>0, <1>1, SameDenylist
<1>11. IdInv'
  <2>1. \A k \in Nodes : IdAt(k)'
    BY <1>0, <1>1, SameIdAt DEF IdInv
  <2>2. \A g \in Handlers : g # h => IdOf(g)'
    BY <1>0, <1>1, <1>5, SameIdOf DEF IdInv
  <2>3. adopt[h] => remote[h].swarm # NoSwarm
    BY <1>0, <1>1 DEF IdInv, IdOf
  <2>4. IdOf(h)'
    BY <1>1, <1>5, <2>3 DEF IdOf
  <2> QED BY <2>1, <2>2, <2>4 DEF IdInv
<1>12. (JoinOf(h) => JoinOf(h)') /\ (Joining(h) => Joining(h)' /\ remote'[h] = remote[h])
  BY <1>1, <1>5 DEF JoinOf, Joining, GuardJoin
<1>13. JoinInv'
  BY <1>0, <1>1, <1>5, <1>12, SameSettled
<1> QED BY <1>8, <1>9, <1>10, <1>11, <1>13 DEF MemInv

\* Adopt takes the id, and writes it or stays pending.
LEMMA AdoptKeeps ==
    ASSUME MemInv, NEW h \in Handlers, h \in setup.handlers, Adopt(h)
    PROVE  MemInv'
<1>0. MembershipTypeOK /\ setup \in Setups /\ TypeInv /\ RouteInv /\ DenyInv /\ IdInv /\ JoinInv
  BY DEF MemInv, TypeInv
<1> DEFINE n == HandlerOf[h]
           id == remote[h].swarm
<1>1. /\ hpc[h] = "adopt" /\ swarm' = [swarm EXCEPT ![n] = id]
      /\ UNCHANGED <<pending, advert, peers, table, revoked, stored, unput, setup, restarts, leaves>>
  BY DEF Adopt, denylist, bounds
<1>2. n \in Nodes
  BY <1>0, SetupFacts
<1>3. id \in Ids /\ id # NoSwarm /\ adopt[h]
  <2>1. remote[h] \in States
    BY <1>0, <1>1 DEF TypeInv
  <2>2. id \in Ids
    BY <2>1 DEF States
  <2> QED BY <1>0, <1>1, <2>2 DEF IdInv, IdOf
<1>4. /\ \A g \in Handlers : g # h => hpc'[g] = hpc[g] /\ remote'[g] = remote[g] /\ adopt'[g] = adopt[g]
      /\ \/ hpc'[h] = "idle" /\ ~adopt'[h] /\ disk' = disk
         \/ hpc'[h] = "adopted" /\ remote'[h] = remote[h] /\ adopt'[h] = adopt[h] /\ disk' = [disk EXCEPT ![n] = id]
      /\ hpc' \in [Handlers -> {"idle", "guard", "merge", "upsert", "adopt", "adopted", "forget"}]
      /\ remote' \in [Handlers -> States \cup {Absent}] /\ adopt' \in [Handlers -> BOOLEAN]
  <2>1. CASE disk' = [disk EXCEPT ![n] = id] /\ HGoto(h, "adopted") /\ UNCHANGED <<remote, adopt>>
    BY <1>0, <2>1 DEF MembershipTypeOK, HGoto
  <2>2. CASE HReturn(h) /\ UNCHANGED disk
    BY <1>0, <2>2 DEF MembershipTypeOK, HReturn, HGoto
  <2> QED BY <2>1, <2>2 DEF Adopt
<1>5. HandlerOf[h] = n /\ remote[h].swarm = id
  OBVIOUS
<1>14. crossed' = IF Rivals(h) = {} THEN crossed ELSE crossed \cup {n}
  BY DEF Adopt
<1> HIDE DEF n, id
<1>6. /\ swarm'[n] = id /\ \A k \in Nodes : k # n => swarm'[k] = swarm[k] /\ disk'[k] = disk[k]
      /\ \/ hpc'[h] = "idle" /\ disk'[n] = disk[n]
         \/ hpc'[h] = "adopted" /\ disk'[n] = id
      /\ swarm' \in [Nodes -> Ids] /\ disk' \in [Nodes -> Ids]
  <2>1. swarm \in [Nodes -> Ids] /\ disk \in [Nodes -> Ids]
    BY <1>0 DEF MembershipTypeOK
  <2> QED BY <1>1, <1>2, <1>3, <1>4, <2>1
<1>7. MembershipTypeOK'
  BY <1>0, <1>1, <1>2, <1>4, <1>6, <1>14 DEF MembershipTypeOK
<1>8. TypeInv'
  BY <1>0, <1>1, <1>4, <1>7 DEF TypeInv
<1>9. RouteInv'
  BY <1>0, <1>1, <1>4, SameRoutes
<1>10. DenyInv'
  BY <1>0, <1>1, SameDenylist
<1>11. IdInv'
  <2>1. \A k \in Nodes : k # n => IdAt(k)'
    BY <1>0, <1>1, <1>6, SameIdAt DEF IdInv
  <2>2. IdAt(n)'
    BY <1>3, <1>6 DEF IdAt
  <2>3. ASSUME NEW g \in Handlers, g # h PROVE IdOf(g)'
    <3>1. IdOf(g) /\ HandlerOf[g] \in Nodes
      BY <1>0, SetupFacts DEF IdInv
    <3>2. CASE HandlerOf[g] = n
      BY <1>3, <1>4, <1>6, <2>3, <3>1, <3>2 DEF IdOf
    <3>3. CASE HandlerOf[g] # n
      BY <1>4, <1>6, <2>3, <3>1, <3>3, SameIdOf
    <3> QED BY <3>2, <3>3
  <2>4. IdOf(h)'
    BY <1>3, <1>4, <1>5, <1>6 DEF IdOf
  <2> QED BY <2>1, <2>2, <2>3, <2>4 DEF IdInv
<1>12. ASSUME NEW k \in Nodes, k \notin crossed' PROVE Settled(k)'
  <2>0. k \notin crossed /\ (k = n => Rivals(h) = {})
    BY <1>12, <1>14
  <2>1. JoinAt(k) /\ \A g \in Handlers : HandlerOf[g] = k => JoinOf(g)
    BY <1>0, <2>0 DEF JoinInv, Settled
  <2>2. CASE k # n
    <3>1. \A g \in Handlers : HandlerOf[g] = k => g # h
      BY <1>5, <2>2
    <3>2. \A g \in Handlers : HandlerOf[g] = k => JoinOf(g)'
      BY <1>4, <1>6, <2>1, <2>2, <3>1, SameJoinOf
    <3>3. \A g \in Handlers : HandlerOf[g] = k => (Joining(g) => Joining(g)' /\ remote'[g] = remote[g])
      BY <1>4, <3>1 DEF Joining
    <3>4. JoinAt(k)'
      BY <1>1, <1>6, <2>1, <2>2, <3>3, SameJoinAt
    <3> QED BY <3>2, <3>4 DEF Settled
  <2>3. CASE k = n
    <3>1. swarm[n] \in {NoSwarm, id}
      BY <1>1, <1>3, <1>5, <2>1, <2>3 DEF JoinOf, GuardJoin
    <3>2. ASSUME NEW g \in Handlers, g # h, HandlerOf[g] = n, hpc[g] \in {"merge", "upsert", "adopt"}
          PROVE  remote[g].swarm \in {NoSwarm, id}
      BY <1>5, <2>0, <2>3, <3>2 DEF Rivals
    <3>3. ASSUME NEW g \in Handlers, HandlerOf[g] = n PROVE JoinOf(g)'
      <4>1. CASE g = h
        BY <1>4, <1>5, <1>6, <4>1 DEF JoinOf, GuardJoin
      <4>2. CASE g # h /\ hpc[g] = "adopted"
        <5>1. JoinOf(g) /\ IdOf(g) /\ hpc'[g] = hpc[g] /\ remote'[g] = remote[g]
          BY <1>0, <1>4, <2>1, <2>3, <3>3, <4>2 DEF IdInv
        <5>2. swarm[n] = id
          BY <3>1, <3>3, <4>2, <5>1 DEF IdOf
        <5> QED BY <1>6, <3>3, <5>1, <5>2 DEF JoinOf, GuardJoin
      <4>3. CASE g # h /\ hpc[g] # "adopted"
        BY <1>4, <1>6, <3>2, <3>3, <4>3 DEF JoinOf, GuardJoin
      <4> QED BY <4>1, <4>2, <4>3
    <3>4. ASSUME NEW m \in Nodes PROVE Suits(n, m)'
      <4>1. Suits(n, m)
        BY <2>1, <2>3 DEF JoinAt
      <4>2. CASE peers[n][m] \in {Absent, NoSwarm, swarm[n]}
        BY <1>1, <1>6, <3>1, <4>2 DEF Suits
      <4>3. CASE \E g \in Handlers : HandlerOf[g] = n /\ Joining(g) /\ peers[n][m] = remote[g].swarm
        <5>1. PICK g \in Handlers : HandlerOf[g] = n /\ Joining(g) /\ peers[n][m] = remote[g].swarm
          BY <4>3
        <5>2. remote[g].swarm \in {NoSwarm, id}
          BY <1>5, <3>2, <5>1 DEF Joining
        <5> QED BY <1>1, <1>6, <5>1, <5>2 DEF Suits
      <4> QED BY <4>1, <4>2, <4>3 DEF Suits
    <3>5. disk'[n] \in {NoSwarm, swarm'[n]}
      BY <1>6, <2>1, <2>3, <3>1 DEF JoinAt
    <3>6. JoinAt(n)'
      BY <3>4, <3>5 DEF JoinAt
    <3> QED BY <2>3, <3>3, <3>6 DEF Settled
  <2> QED BY <2>2, <2>3
<1>13. JoinInv'
  BY <1>12 DEF JoinInv
<1> QED BY <1>8, <1>9, <1>10, <1>11, <1>13 DEF MemInv

\* The node is a member.
LEMMA AdoptedKeeps ==
    ASSUME MemInv, NEW h \in Handlers, h \in setup.handlers, Adopted(h)
    PROVE  MemInv'
<1>0. MembershipTypeOK /\ setup \in Setups /\ TypeInv /\ RouteInv /\ DenyInv /\ IdInv /\ JoinInv
  BY DEF MemInv, TypeInv
<1> DEFINE n == HandlerOf[h]
<1>1. /\ hpc[h] = "adopted" /\ HReturn(h)
      /\ advert' = [advert EXCEPT ![n] = remote[h].swarm] /\ pending' = [pending EXCEPT ![n] = FALSE]
      /\ UNCHANGED <<disk, swarm, crossed, peers, table, revoked, stored, unput, setup, restarts, leaves>>
  BY DEF Adopted, denylist, bounds
<1>2. n \in Nodes
  BY <1>0, SetupFacts
<1>3. HandlerOf[h] = n
  OBVIOUS
<1> HIDE DEF n
<1>4. /\ remote[h].swarm \in Ids /\ swarm[n] # NoSwarm
  <2>1. remote[h] \in States
    BY <1>0, <1>1 DEF TypeInv
  <2>2. remote[h].swarm \in Ids
    BY <2>1 DEF States
  <2> QED BY <1>0, <1>1, <1>3, <2>2 DEF IdInv, IdOf
<1>5. /\ hpc'[h] = "idle" /\ ~adopt'[h]
      /\ \A g \in Handlers : g # h => hpc'[g] = hpc[g] /\ remote'[g] = remote[g] /\ adopt'[g] = adopt[g]
      /\ hpc' \in [Handlers -> {"idle", "guard", "merge", "upsert", "adopt", "adopted", "forget"}]
      /\ remote' \in [Handlers -> States \cup {Absent}] /\ adopt' \in [Handlers -> BOOLEAN]
  BY <1>0, <1>1 DEF MembershipTypeOK, HReturn, HGoto
<1>6. /\ advert'[n] = remote[h].swarm /\ ~pending'[n]
      /\ \A k \in Nodes : k # n => advert'[k] = advert[k] /\ pending'[k] = pending[k]
      /\ advert' \in [Nodes -> Ids] /\ pending' \in [Nodes -> BOOLEAN]
  <2>1. advert \in [Nodes -> Ids] /\ pending \in [Nodes -> BOOLEAN]
    BY <1>0 DEF MembershipTypeOK
  <2> QED BY <1>1, <1>2, <1>4, <2>1
<1>7. MembershipTypeOK'
  BY <1>0, <1>1, <1>5, <1>6 DEF MembershipTypeOK
<1>8. TypeInv'
  BY <1>0, <1>1, <1>5, <1>7 DEF TypeInv
<1>9. RouteInv'
  BY <1>0, <1>1, <1>5, SameRoutes
<1>10. DenyInv'
  BY <1>0, <1>1, SameDenylist
<1>11. IdInv'
  <2>1. \A k \in Nodes : k # n => IdAt(k)'
    BY <1>0, <1>1, <1>6, SameIdAt DEF IdInv
  <2>2. IdAt(n)'
    BY <1>1, <1>4 DEF IdAt
  <2>3. \A g \in Handlers : g # h => IdOf(g)'
    BY <1>0, <1>1, <1>5, SameIdOf DEF IdInv
  <2>4. IdOf(h)'
    BY <1>5 DEF IdOf
  <2> QED BY <2>1, <2>2, <2>3, <2>4 DEF IdInv
<1>12. JoinOf(h)' /\ ~Joining(h)
  BY <1>1, <1>5 DEF JoinOf, Joining
<1>13. JoinInv'
  BY <1>0, <1>1, <1>5, <1>12, SameSettled
<1> QED BY <1>8, <1>9, <1>10, <1>11, <1>13 DEF MemInv

\* NotifyLeave takes the peer out of the table.
LEMMA NotifyLeaveKeeps ==
    ASSUME MemInv, NEW h \in Handlers, h \in setup.handlers, NEW m \in Nodes, NotifyLeave(h, m)
    PROVE  MemInv'
<1>0. MembershipTypeOK /\ setup \in Setups /\ TypeInv /\ RouteInv /\ DenyInv /\ IdInv /\ JoinInv
  BY DEF MemInv, TypeInv
<1> DEFINE n == HandlerOf[h]
           r == LocalState(m)
<1>1. /\ hpc[h] = "idle" /\ hpc' = [hpc EXCEPT ![h] = "forget"] /\ remote' = [remote EXCEPT ![h] = r]
      /\ table' = [table EXCEPT ![n] = @ \ {m}]
      /\ leaves < setup.maxLeaves /\ leaves' = leaves + 1
      /\ UNCHANGED <<disk, swarm, crossed, pending, advert, peers, revoked, stored, unput, adopt, setup, restarts>>
  BY DEF NotifyLeave, HGoto, identity, denylist
<1>2. r \in States /\ r.swarm = advert[m] /\ r.from = m
  BY <1>0 DEF MembershipTypeOK, LocalState, States
<1>3. n \in Nodes
  BY <1>0, SetupFacts
<1>4. HandlerOf[h] = n
  OBVIOUS
<1> HIDE DEF r, n
<1>5. /\ hpc'[h] = "forget" /\ remote'[h] = r
      /\ \A g \in Handlers : g # h => hpc'[g] = hpc[g] /\ remote'[g] = remote[g]
  BY <1>0, <1>1 DEF MembershipTypeOK
<1>6. /\ table'[n] = table[n] \ {m} /\ \A k \in Nodes : k # n => table'[k] = table[k]
      /\ table' \in [Nodes -> SUBSET Nodes]
  <2>1. table \in [Nodes -> SUBSET Nodes]
    BY <1>0 DEF MembershipTypeOK
  <2> QED BY <1>1, <1>3, <2>1
<1>7. MembershipTypeOK'
  <2>1. leaves' \in 0 .. setup'.maxLeaves
    <3>1. leaves \in 0 .. setup.maxLeaves /\ setup.maxLeaves \in Nat
      BY <1>0, SetupFacts DEF MembershipTypeOK
    <3> QED BY SMTT(60), <1>1, <3>1
  <2> QED BY <1>0, <1>1, <1>2, <1>6, <2>1 DEF MembershipTypeOK
<1>8. TypeInv'
  BY <1>0, <1>1, <1>2, <1>5, <1>7 DEF TypeInv
<1>9. RouteInv'
  <2>0. RouteInv
    BY <1>0
  <2>1. ASSUME NEW k \in Nodes, NEW x \in Nodes, peers'[k][x] # Absent, x \notin table'[k]
        PROVE  \E g \in Handlers : HandlerOf[g] = k /\ hpc'[g] \in {"upsert", "forget"} /\ remote'[g].from = x
    <3>1. CASE k = n /\ x = m
      BY <1>2, <1>4, <1>5, <3>1
    <3>2. CASE ~(k = n /\ x = m)
      <4>1. peers[k][x] # Absent /\ x \notin table[k]
        BY <1>1, <1>6, <2>1, <3>2
      <4>2. PICK g \in Handlers : HandlerOf[g] = k /\ hpc[g] \in {"upsert", "forget"} /\ remote[g].from = x
        BY <2>0, <4>1, Unrouted
      <4>3. g # h
        BY <1>1, <4>2
      <4> QED BY <1>5, <4>2, <4>3
    <3> QED BY <3>1, <3>2
  <2> QED BY <2>1 DEF RouteInv
<1>10. DenyInv'
  BY <1>0, <1>1, SameDenylist
<1>11. IdInv'
  <2>1. \A k \in Nodes : IdAt(k)'
    BY <1>0, <1>1, SameIdAt DEF IdInv
  <2>2. \A g \in Handlers : g # h => IdOf(g)'
    BY <1>0, <1>1, <1>5, SameIdOf DEF IdInv
  <2>3. ~adopt[h]
    BY <1>0, <1>1 DEF IdInv, IdOf
  <2>4. IdOf(h)'
    BY <1>1, <1>5, <2>3 DEF IdOf
  <2> QED BY <2>1, <2>2, <2>4 DEF IdInv
<1>12. JoinOf(h)' /\ ~Joining(h)
  BY <1>1, <1>5 DEF JoinOf, Joining
<1>13. JoinInv'
  BY <1>0, <1>1, <1>5, <1>12, SameSettled
<1> QED BY <1>8, <1>9, <1>10, <1>11, <1>13 DEF MemInv

\* NotifyLeave's second half forgets the peer.
LEMMA ForgetKeeps ==
    ASSUME MemInv, NEW h \in Handlers, h \in setup.handlers, Forget(h)
    PROVE  MemInv'
<1>0. MembershipTypeOK /\ setup \in Setups /\ TypeInv /\ RouteInv /\ DenyInv /\ IdInv /\ JoinInv
  BY DEF MemInv, TypeInv
<1> DEFINE n == HandlerOf[h]
<1>1. /\ hpc[h] = "forget" /\ HReturn(h)
      /\ peers' = [peers EXCEPT ![n][remote[h].from] = Absent]
      /\ UNCHANGED <<disk, swarm, crossed, pending, advert, table, revoked, stored, unput, setup, restarts, leaves>>
  BY DEF Forget, identity, denylist, bounds
<1>2. n \in Nodes
  BY <1>0, SetupFacts
<1>3. HandlerOf[h] = n
  OBVIOUS
<1> HIDE DEF n
<1>4. remote[h].from \in Nodes
  <2>1. remote[h] \in States
    BY <1>0, <1>1 DEF TypeInv
  <2> QED BY <2>1 DEF States
<1>5. /\ hpc'[h] = "idle" /\ ~adopt'[h]
      /\ \A g \in Handlers : g # h => hpc'[g] = hpc[g] /\ remote'[g] = remote[g] /\ adopt'[g] = adopt[g]
      /\ hpc' \in [Handlers -> {"idle", "guard", "merge", "upsert", "adopt", "adopted", "forget"}]
      /\ remote' \in [Handlers -> States \cup {Absent}] /\ adopt' \in [Handlers -> BOOLEAN]
  BY <1>0, <1>1 DEF MembershipTypeOK, HReturn, HGoto
<1>6. /\ peers'[n][remote[h].from] = Absent
      /\ \A m \in Nodes : m # remote[h].from => peers'[n][m] = peers[n][m]
      /\ \A k \in Nodes : k # n => peers'[k] = peers[k]
      /\ peers' \in [Nodes -> [Nodes -> Ids \cup {Absent}]]
  <2>1. peers \in [Nodes -> [Nodes -> Ids \cup {Absent}]]
    BY <1>0 DEF MembershipTypeOK
  <2> QED BY <1>1, <1>2, <1>4, <2>1
<1>7. MembershipTypeOK'
  BY <1>0, <1>1, <1>5, <1>6 DEF MembershipTypeOK
<1>8. TypeInv'
  BY <1>0, <1>1, <1>5, <1>7 DEF TypeInv
<1>9. RouteInv'
  <2>0. RouteInv
    BY <1>0
  <2>1. ASSUME NEW k \in Nodes, NEW m \in Nodes, peers'[k][m] # Absent, m \notin table'[k]
        PROVE  \E g \in Handlers : HandlerOf[g] = k /\ hpc'[g] \in {"upsert", "forget"} /\ remote'[g].from = m
    <3>1. ~(k = n /\ m = remote[h].from)
      BY <1>6, <2>1
    <3>2. peers[k][m] # Absent /\ m \notin table[k]
      BY <1>1, <1>6, <2>1, <3>1
    <3>3. PICK g \in Handlers : HandlerOf[g] = k /\ hpc[g] \in {"upsert", "forget"} /\ remote[g].from = m
      BY <2>0, <3>2, Unrouted
    <3>4. g # h
      BY <1>3, <3>1, <3>3
    <3> QED BY <1>5, <3>3, <3>4
  <2> QED BY <2>1 DEF RouteInv
<1>10. DenyInv'
  BY <1>0, <1>1, SameDenylist
<1>11. IdInv'
  <2>1. \A k \in Nodes : IdAt(k)'
    BY <1>0, <1>1, SameIdAt DEF IdInv
  <2>2. \A g \in Handlers : g # h => IdOf(g)'
    BY <1>0, <1>1, <1>5, SameIdOf DEF IdInv
  <2>3. IdOf(h)'
    BY <1>5 DEF IdOf
  <2> QED BY <2>1, <2>2, <2>3 DEF IdInv
<1>12. ASSUME NEW k \in Nodes, k \notin crossed PROVE Settled(k)'
  <2>1. JoinAt(k) /\ \A g \in Handlers : HandlerOf[g] = k => JoinOf(g)
    BY <1>0, <1>12 DEF JoinInv, Settled
  <2>2. JoinOf(h)'
    BY <1>5 DEF JoinOf
  <2>3. \A g \in Handlers : HandlerOf[g] = k => JoinOf(g)'
    BY <1>1, <1>5, <2>1, <2>2, SameJoinOf
  <2>4. \A g \in Handlers : Joining(g) => Joining(g)' /\ remote'[g] = remote[g]
    BY <1>1, <1>5 DEF Joining
  <2>5. ASSUME NEW m \in Nodes PROVE Suits(k, m)'
    <3>1. Suits(k, m)
      BY <2>1 DEF JoinAt
    <3>2. peers'[k][m] = Absent \/ peers'[k][m] = peers[k][m]
      BY <1>6
    <3> QED BY <1>1, <2>4, <3>1, <3>2 DEF Suits
  <2>6. JoinAt(k)'
    BY <1>1, <2>1, <2>5 DEF JoinAt
  <2> QED BY <2>3, <2>6 DEF Settled
<1>13. JoinInv'
  BY <1>1, <1>12 DEF JoinInv
<1> QED BY <1>8, <1>9, <1>10, <1>11, <1>13 DEF MemInv

\* A step that leaves the identities, the peers and the handlers alone.
LEMMA SameMembers ==
    ASSUME IdInv, JoinInv, UNCHANGED <<disk, swarm, crossed, pending, advert, peers, hpc, remote, adopt, setup>>
    PROVE  IdInv' /\ JoinInv'
<1>1. IdInv'
  <2>1. \A k \in Nodes : IdAt(k)'
    BY SameIdAt DEF IdInv
  <2>2. \A g \in Handlers : IdOf(g)'
    BY SameIdOf DEF IdInv
  <2> QED BY <2>1, <2>2 DEF IdInv
<1>2. ASSUME NEW k \in Nodes, k \notin crossed PROVE Settled(k)'
  <2>1. JoinAt(k) /\ \A g \in Handlers : HandlerOf[g] = k => JoinOf(g)
    BY <1>2 DEF JoinInv, Settled
  <2>2. \A g \in Handlers : HandlerOf[g] = k => JoinOf(g)'
    BY <2>1, SameJoinOf
  <2>3. \A g \in Handlers : Joining(g) => Joining(g)'
    BY DEF Joining
  <2>4. JoinAt(k)'
    BY <2>1, <2>3, SameJoinAt
  <2> QED BY <2>2, <2>4 DEF Settled
<1>3. JoinInv'
  BY <1>2 DEF JoinInv
<1> QED BY <1>1, <1>3

\* An operator revokes a node.
LEMMA RevokeKeeps ==
    ASSUME MemInv, NEW n \in Nodes, NEW x \in Revocable, Revoke(n, x)
    PROVE  MemInv'
<1>0. MembershipTypeOK /\ setup \in Setups /\ TypeInv /\ RouteInv /\ DenyInv /\ IdInv /\ JoinInv
  BY DEF MemInv, TypeInv
<1>1. /\ AddRevoked(n, {x})
      /\ UNCHANGED <<disk, swarm, crossed, pending, advert, peers, table, hpc, remote, adopt, setup, restarts, leaves>>
  BY DEF Revoke, identity, handlers, bounds
<1>2. /\ revoked' \in [Nodes -> SUBSET Revocable] /\ stored' \in [Nodes -> SUBSET Revocable]
      /\ unput' \in [Nodes -> SUBSET Revocable] /\ DenyInv'
  BY <1>0, <1>1, AddRevokedKeeps
<1>3. MembershipTypeOK'
  BY <1>0, <1>1, <1>2 DEF MembershipTypeOK
<1>4. TypeInv'
  BY <1>0, <1>1, <1>3 DEF TypeInv
<1>5. RouteInv'
  BY <1>0, <1>1, SameRoutes
<1>6. IdInv' /\ JoinInv'
  BY <1>0, <1>1, SameMembers
<1> QED BY <1>2, <1>4, <1>5, <1>6 DEF MemInv

\* NotifyJoin enters an address.
LEMMA NotifyJoinKeeps ==
    ASSUME MemInv, NEW n \in Nodes, NEW m \in Nodes, NotifyJoin(n, m)
    PROVE  MemInv'
<1>0. MembershipTypeOK /\ setup \in Setups /\ TypeInv /\ RouteInv /\ DenyInv /\ IdInv /\ JoinInv
  BY DEF MemInv, TypeInv
<1>1. /\ table' = [table EXCEPT ![n] = @ \cup {m}]
      /\ UNCHANGED <<disk, swarm, crossed, pending, advert, peers, revoked, stored, unput, hpc, remote, adopt, setup,
                     restarts, leaves>>
  BY DEF NotifyJoin, identity, denylist, handlers, bounds
<1>2. table' \in [Nodes -> SUBSET Nodes] /\ \A k \in Nodes : table[k] \subseteq table'[k]
  <2>1. table \in [Nodes -> SUBSET Nodes]
    BY <1>0 DEF MembershipTypeOK
  <2> QED BY <1>1, <2>1
<1>3. MembershipTypeOK'
  BY <1>0, <1>1, <1>2 DEF MembershipTypeOK
<1>4. TypeInv'
  BY <1>0, <1>1, <1>3 DEF TypeInv
<1>5. RouteInv'
  BY SMTT(60), <1>0, <1>1, <1>2 DEF RouteInv
<1>6. DenyInv'
  BY <1>0, <1>1, SameDenylist
<1>7. IdInv' /\ JoinInv'
  BY <1>0, <1>1, SameMembers
<1> QED BY <1>4, <1>5, <1>6, <1>7 DEF MemInv

\* A node dies with its callbacks, and comes back with what is on its disk.
LEMMA RestartKeeps ==
    ASSUME MemInv, NEW n \in Nodes, Restart(n)
    PROVE  MemInv'
<1>0. MembershipTypeOK /\ setup \in Setups /\ TypeInv /\ RouteInv /\ DenyInv /\ IdInv /\ JoinInv
  BY DEF MemInv, TypeInv
<1>1. /\ restarts < MaxRestarts /\ restarts' = restarts + 1
      /\ swarm' = [swarm EXCEPT ![n] = disk[n]] /\ advert' = [advert EXCEPT ![n] = disk[n]]
      /\ pending' = [pending EXCEPT ![n] = disk[n] = NoSwarm]
      /\ peers' = [peers EXCEPT ![n] = [m \in Nodes |-> Absent]] /\ table' = [table EXCEPT ![n] = {}]
      /\ revoked' = [revoked EXCEPT ![n] = stored[n]] /\ unput' = [unput EXCEPT ![n] = {}]
      /\ hpc' = [h \in Handlers |-> IF HandlerOf[h] = n THEN "idle" ELSE hpc[h]]
      /\ remote' = [h \in Handlers |-> IF HandlerOf[h] = n THEN Absent ELSE remote[h]]
      /\ adopt' = [h \in Handlers |-> HandlerOf[h] # n /\ adopt[h]]
      /\ crossed' = crossed \ {n}
      /\ UNCHANGED <<disk, stored, setup, leaves>>
  BY DEF Restart, LoadOrInit
<1>2. /\ \A h \in Handlers : HandlerOf[h] = n => hpc'[h] = "idle" /\ ~adopt'[h]
      /\ \A h \in Handlers : HandlerOf[h] # n =>
            hpc'[h] = hpc[h] /\ remote'[h] = remote[h] /\ (adopt'[h] <=> adopt[h])
  BY <1>1
<1>3. /\ hpc' \in [Handlers -> {"idle", "guard", "merge", "upsert", "adopt", "adopted", "forget"}]
      /\ remote' \in [Handlers -> States \cup {Absent}] /\ adopt' \in [Handlers -> BOOLEAN]
  BY <1>0, <1>1 DEF MembershipTypeOK
<1>4. \A h \in Handlers : HandlerOf[h] # n => adopt'[h] = adopt[h]
  BY <1>0, <1>2, <1>3 DEF MembershipTypeOK
<1>5. /\ swarm'[n] = disk[n] /\ advert'[n] = disk[n] /\ (pending'[n] <=> disk[n] = NoSwarm)
      /\ \A k \in Nodes : k # n => swarm'[k] = swarm[k] /\ advert'[k] = advert[k] /\ pending'[k] = pending[k]
      /\ swarm' \in [Nodes -> Ids] /\ advert' \in [Nodes -> Ids] /\ pending' \in [Nodes -> BOOLEAN]
  <2>1. /\ swarm \in [Nodes -> Ids] /\ advert \in [Nodes -> Ids] /\ pending \in [Nodes -> BOOLEAN]
        /\ disk \in [Nodes -> Ids]
    BY <1>0 DEF MembershipTypeOK
  <2> QED BY <1>1, <2>1
<1>6. /\ \A m \in Nodes : peers'[n][m] = Absent
      /\ \A k \in Nodes : k # n => peers'[k] = peers[k] /\ table'[k] = table[k]
      /\ peers' \in [Nodes -> [Nodes -> Ids \cup {Absent}]] /\ table' \in [Nodes -> SUBSET Nodes]
  <2>1. peers \in [Nodes -> [Nodes -> Ids \cup {Absent}]] /\ table \in [Nodes -> SUBSET Nodes]
    BY <1>0 DEF MembershipTypeOK
  <2> QED BY <1>1, <2>1
<1>7. /\ revoked'[n] = stored[n]
      /\ \A k \in Nodes : k # n => revoked'[k] = revoked[k] /\ unput'[k] = unput[k]
      /\ revoked' \in [Nodes -> SUBSET Revocable] /\ unput' \in [Nodes -> SUBSET Revocable]
  <2>1. /\ revoked \in [Nodes -> SUBSET Revocable] /\ unput \in [Nodes -> SUBSET Revocable]
        /\ stored \in [Nodes -> SUBSET Revocable]
    BY <1>0 DEF MembershipTypeOK
  <2> QED BY <1>1, <2>1
<1>8. MembershipTypeOK'
  <2>1. restarts' \in 0 .. MaxRestarts
    <3>1. restarts \in 0 .. MaxRestarts /\ MaxRestarts \in Nat
      BY <1>0, MembershipAssumption DEF MembershipTypeOK
    <3> QED BY SMTT(60), <1>1, <3>1
  <2> QED BY <1>0, <1>1, <1>3, <1>5, <1>6, <1>7, <2>1 DEF MembershipTypeOK
<1>9. TypeInv'
  BY <1>0, <1>1, <1>2, <1>8 DEF TypeInv
<1>10. RouteInv'
  <2>0. RouteInv
    BY <1>0
  <2>1. ASSUME NEW k \in Nodes, NEW m \in Nodes, peers'[k][m] # Absent, m \notin table'[k]
        PROVE  \E g \in Handlers : HandlerOf[g] = k /\ hpc'[g] \in {"upsert", "forget"} /\ remote'[g].from = m
    <3>1. k # n
      BY <1>6, <2>1
    <3>2. peers[k][m] # Absent /\ m \notin table[k]
      BY <1>6, <2>1, <3>1
    <3>3. PICK g \in Handlers : HandlerOf[g] = k /\ hpc[g] \in {"upsert", "forget"} /\ remote[g].from = m
      BY <2>0, <3>2, Unrouted
    <3> QED BY <1>2, <3>1, <3>3
  <2> QED BY <2>1 DEF RouteInv
<1>11. DenyInv'
  BY <1>0, <1>1, <1>7 DEF DenyInv
<1>12. IdInv'
  <2>1. \A k \in Nodes : k # n => IdAt(k)'
    BY <1>0, <1>1, <1>5, <1>6, SameIdAt DEF IdInv
  <2>2. IdAt(n)'
    BY <1>5 DEF IdAt
  <2>3. ASSUME NEW g \in Handlers PROVE IdOf(g)'
    <3>1. CASE HandlerOf[g] = n
      BY <1>2, <3>1 DEF IdOf
    <3>2. CASE HandlerOf[g] # n
      <4>1. IdOf(g) /\ HandlerOf[g] \in Nodes
        BY <1>0, SetupFacts DEF IdInv
      <4> QED BY <1>1, <1>2, <1>4, <1>5, <3>2, <4>1, SameIdOf
    <3> QED BY <3>1, <3>2
  <2> QED BY <2>1, <2>2, <2>3 DEF IdInv
<1>13. ASSUME NEW k \in Nodes, k \notin crossed' PROVE Settled(k)'
  <2>1. CASE k = n
    <3>1. \A g \in Handlers : HandlerOf[g] = n => JoinOf(g)'
      BY <1>2 DEF JoinOf
    <3>2. JoinAt(n)'
      BY <1>1, <1>5, <1>6 DEF JoinAt, Suits
    <3> QED BY <2>1, <3>1, <3>2 DEF Settled
  <2>2. CASE k # n
    <3>0. k \notin crossed
      BY <1>1, <1>13, <2>2
    <3>1. JoinAt(k) /\ \A g \in Handlers : HandlerOf[g] = k => JoinOf(g)
      BY <1>0, <3>0 DEF JoinInv, Settled
    <3>2. \A g \in Handlers : HandlerOf[g] = k => JoinOf(g)'
      BY <1>2, <1>5, <2>2, <3>1, SameJoinOf
    <3>3. \A g \in Handlers : HandlerOf[g] = k => (Joining(g) => Joining(g)' /\ remote'[g] = remote[g])
      BY <1>2, <2>2 DEF Joining
    <3>4. JoinAt(k)'
      BY <1>1, <1>5, <1>6, <2>2, <3>1, <3>3, SameJoinAt
    <3> QED BY <3>2, <3>4 DEF Settled
  <2> QED BY <2>1, <2>2
<1>14. JoinInv'
  BY <1>13 DEF JoinInv
<1> QED BY <1>9, <1>10, <1>11, <1>12, <1>14 DEF MemInv

\* A first start.
LEMMA InitHolds ==
    ASSUME SwarmInit
    PROVE  MemInv
<1>1. /\ setup \in Setups
      /\ disk = setup.seeded /\ swarm = setup.seeded /\ advert = setup.seeded
      /\ pending = [n \in Nodes |-> setup.seeded[n] = NoSwarm]
      /\ \A n \in Nodes : \A m \in Nodes : peers[n][m] = Absent
      /\ \A n \in Nodes : revoked[n] = {}
      /\ \A h \in Handlers : hpc[h] = "idle" /\ ~adopt[h]
      /\ restarts = 0 /\ leaves = 0 /\ crossed = {}
  BY DEF SwarmInit
<1>2. setup.seeded \in [Nodes -> Ids] /\ setup.maxLeaves \in Nat /\ MaxRestarts \in Nat
  BY <1>1, SetupFacts, MembershipAssumption
<1>3. MembershipTypeOK
  <2>1. restarts \in 0 .. MaxRestarts /\ leaves \in 0 .. setup.maxLeaves
    BY SMTT(60), <1>1, <1>2
  <2>2. pending \in [Nodes -> BOOLEAN] /\ hpc \in [Handlers -> {"idle"}] /\ adopt \in [Handlers -> BOOLEAN]
    BY <1>1 DEF SwarmInit
  <2>3. peers \in [Nodes -> [Nodes -> Ids \cup {Absent}]] /\ remote \in [Handlers -> States \cup {Absent}]
    BY DEF SwarmInit
  <2>4. /\ table \in [Nodes -> SUBSET Nodes] /\ revoked \in [Nodes -> SUBSET Revocable]
        /\ stored \in [Nodes -> SUBSET Revocable] /\ unput \in [Nodes -> SUBSET Revocable]
    BY DEF SwarmInit
  <2>5. hpc \in [Handlers -> {"idle", "guard", "merge", "upsert", "adopt", "adopted", "forget"}]
    BY DEF SwarmInit
  <2> QED BY <1>1, <1>2, <2>1, <2>2, <2>3, <2>4, <2>5 DEF MembershipTypeOK
<1>4. TypeInv
  BY <1>1, <1>3 DEF TypeInv
<1>5. RouteInv /\ DenyInv
  BY <1>1 DEF RouteInv, DenyInv
<1>6. IdInv
  BY <1>1 DEF IdInv, IdAt, IdOf
<1>7. JoinInv
  BY <1>1 DEF JoinInv, Settled, JoinOf, JoinAt, Suits
<1> QED BY <1>4, <1>5, <1>6, <1>7 DEF MemInv

\* Every step keeps MemInv.
LEMMA NextKeeps ==
    ASSUME MemInv, [SwarmNext]_swarmVars
    PROVE  MemInv'
<1>0. MembershipTypeOK /\ setup \in Setups /\ TypeInv /\ RouteInv /\ DenyInv /\ IdInv /\ JoinInv
  BY DEF MemInv, TypeInv
<1>1. setup.nodes \subseteq Nodes /\ setup.handlers \subseteq Handlers /\ setup.revocable \subseteq Revocable
  BY <1>0, SetupFacts
<1>2. ASSUME NEW h \in setup.handlers, MergeStep(h) PROVE MemInv'
  BY <1>1, <1>2, MergeGuardKeeps, MergeKeeps, UpsertKeeps, AdoptKeeps, AdoptedKeeps, ForgetKeeps DEF MergeStep
<1>3. ASSUME NEW h \in setup.handlers, NEW m \in setup.nodes, Receive(h, m) \/ NotifyLeave(h, m) PROVE MemInv'
  BY <1>1, <1>3, ReceiveKeeps, NotifyLeaveKeeps
<1>4. ASSUME NEW n \in setup.nodes, NEW x \in setup.revocable, Revoke(n, x) PROVE MemInv'
  BY <1>1, <1>4, RevokeKeeps
<1>5. ASSUME NEW n \in setup.nodes, NEW m \in setup.nodes, NotifyJoin(n, m) PROVE MemInv'
  BY <1>1, <1>5, NotifyJoinKeeps
<1>6. ASSUME NEW n \in setup.nodes, Restart(n) PROVE MemInv'
  BY <1>1, <1>6, RestartKeeps
<1>7. CASE UNCHANGED swarmVars
  <2>1. UNCHANGED <<disk, swarm, crossed, pending, advert, peers, table, revoked, stored, unput, hpc, remote, adopt, setup,
                    restarts, leaves>>
    BY <1>7 DEF swarmVars, identity, denylist, handlers, bounds
  <2>2. MembershipTypeOK'
    BY <1>0, <2>1 DEF MembershipTypeOK
  <2>3. TypeInv'
    BY <1>0, <2>1, <2>2 DEF TypeInv
  <2>4. RouteInv' /\ DenyInv'
    BY <1>0, <2>1, SameRoutes, SameDenylist
  <2> QED BY <1>0, <2>1, <2>3, <2>4, SameMembers DEF MemInv
<1> QED BY <1>2, <1>3, <1>4, <1>5, <1>6, <1>7 DEF SwarmNext

-----------------------------------------------------------------------------
(***************************************************************************)
(* What follows from it.                                                   *)
(***************************************************************************)
\* The inductive invariant, in every deployment.
THEOREM MembershipInvariant == SwarmSpec => []MemInv
<1>1. SwarmInit => MemInv
  BY InitHolds
<1>2. MemInv /\ [SwarmNext]_swarmVars => MemInv'
  BY NextKeeps
<1> QED BY <1>1, <1>2, PTL DEF SwarmSpec

\* PeersAreRoutable, in every deployment: whatever merges, joins, leaves and
\* restarts overlap in a node, when its callbacks are through, each peer it has
\* merged has an address in its routing table.
THEOREM RoutesFollowPeers == SwarmSpec => []PeersAreRoutable
<1>1. MemInv => PeersAreRoutable
  BY DEF MemInv, RouteInv, PeersAreRoutable
<1> QED BY <1>1, MembershipInvariant, PTL

\* RevokedGrows, in every deployment: no merge, adoption or restart takes an id
\* out of a node's denylist, unless the put of that id had failed.
THEOREM DenylistGrows == SwarmSpec => RevokedGrows
<1>1. ASSUME MemInv, [SwarmNext]_swarmVars, NEW n \in Nodes PROVE revoked[n] \ unput[n] \subseteq revoked'[n]
  <2>0. MembershipTypeOK /\ setup \in Setups /\ TypeInv /\ DenyInv
    BY <1>1 DEF MemInv, TypeInv
  <2>1. setup.nodes \subseteq Nodes /\ setup.handlers \subseteq Handlers /\ setup.revocable \subseteq Revocable
    BY <2>0, SetupFacts
  <2>2. CASE UNCHANGED revoked
    BY <2>2
  <2>3. ASSUME NEW k \in Nodes, NEW ids \in SUBSET Revocable, AddRevoked(k, ids) PROVE revoked[n] \subseteq revoked'[n]
    BY <2>0, <2>3, AddRevokedKeeps
  <2>4. ASSUME NEW h \in setup.handlers, Merge(h) PROVE revoked[n] \subseteq revoked'[n]
    <3>1. remote[h] \in States /\ HandlerOf[h] \in Nodes /\ AddRevoked(HandlerOf[h], remote[h].revoked)
      BY <2>0, <2>1, <2>4, SetupFacts DEF TypeInv, Merge
    <3>2. remote[h].revoked \in SUBSET Revocable
      BY <3>1 DEF States
    <3> QED BY <2>3, <3>1, <3>2
  <2>5. ASSUME NEW k \in setup.nodes, NEW x \in setup.revocable, Revoke(k, x) PROVE revoked[n] \subseteq revoked'[n]
    <3>1. k \in Nodes /\ {x} \in SUBSET Revocable /\ AddRevoked(k, {x})
      BY <2>1, <2>5 DEF Revoke
    <3> QED BY <2>3, <3>1
  <2>6. ASSUME NEW k \in setup.nodes, Restart(k) PROVE revoked[n] \ unput[n] \subseteq revoked'[n]
    <3>1. revoked' = [revoked EXCEPT ![k] = stored[k]] /\ revoked \in [Nodes -> SUBSET Revocable]
      BY <2>0, <2>6 DEF Restart, MembershipTypeOK
    <3>2. CASE n = k
      <4>1. revoked'[n] = stored[n]
        BY <3>1, <3>2
      <4> QED BY <2>0, <4>1 DEF DenyInv
    <3>3. CASE n # k
      BY <3>1, <3>3
    <3> QED BY <3>2, <3>3
  <2>7. ASSUME NEW h \in setup.handlers, MergeStep(h) PROVE revoked[n] \ unput[n] \subseteq revoked'[n]
    BY <2>2, <2>4, <2>7 DEF MergeStep, MergeGuard, Upsert, Adopt, Adopted, Forget, denylist
  <2>8. ASSUME NEW h \in setup.handlers, NEW m \in setup.nodes, Receive(h, m) \/ NotifyLeave(h, m) PROVE UNCHANGED revoked
    BY <2>8 DEF Receive, NotifyLeave, denylist
  <2>9. ASSUME NEW k \in setup.nodes, NEW m \in setup.nodes, NotifyJoin(k, m) PROVE UNCHANGED revoked
    BY <2>9 DEF NotifyJoin, denylist
  <2>10. UNCHANGED swarmVars => UNCHANGED revoked
    BY DEF swarmVars, denylist
  <2> QED BY <1>1, <2>2, <2>5, <2>6, <2>7, <2>8, <2>9, <2>10 DEF SwarmNext
<1>2. MemInv /\ [SwarmNext]_swarmVars => [\A n \in Nodes : revoked[n] \ unput[n] \subseteq revoked'[n]]_swarmVars
  BY <1>1
<1> QED BY <1>2, MembershipInvariant, PTL DEF SwarmSpec, RevokedGrows

\* PeersAreSound, in every deployment: a node that has an id knows only peers
\* that advertised this id or none, and can route to each; unless merges of two
\* swarms overlapped in it when it was pending.
THEOREM PeersBelong == SwarmSpec => []PeersAreSound
<1>1. ASSUME MemInv PROVE PeersAreSound
  <2>0. IdInv /\ JoinInv /\ RouteInv
    BY <1>1 DEF MemInv
  <2>1. PeersAreRoutable
    BY <2>0 DEF RouteInv, PeersAreRoutable
  <2>2. ASSUME NEW n \in Nodes, n \notin crossed, ~pending[n], NEW m \in Nodes
        PROVE  peers[n][m] \in {Absent, NoSwarm, swarm[n]}
    <3>1. swarm[n] # NoSwarm
      BY <2>0, <2>2 DEF IdInv, IdAt
    <3>2. Suits(n, m)
      BY <2>0, <2>2 DEF JoinInv, Settled, JoinAt
    <3> QED BY <3>1, <3>2 DEF Suits
  <2>3. \A n \in Nodes \ crossed : OwnPeers(n)
    BY <2>2 DEF OwnPeers
  <2> QED BY <2>1, <2>3 DEF PeersAreSound
<1> QED BY <1>1, MembershipInvariant, PTL

\* SwarmIdIsKept, in every deployment: once a node has a swarm id on its disk,
\* no gossip, failed write or restart changes it, unless merges of two swarms
\* overlapped in it when it was pending.
THEOREM IdIsKept == SwarmSpec => SwarmIdIsKept
<1>1. ASSUME MemInv, SwarmNext, NEW n \in Nodes, n \notin crossed, disk[n] # NoSwarm PROVE disk'[n] = disk[n]
  <2>0. setup \in Setups /\ IdInv /\ JoinInv /\ MembershipTypeOK
    BY <1>1 DEF MemInv, TypeInv
  <2>1. setup.handlers \subseteq Handlers
    BY <2>0, SetupFacts
  <2>2. ASSUME NEW h \in Handlers, Adopt(h) PROVE disk'[n] = disk[n]
    <3> DEFINE id == remote[h].swarm
    <3>1. disk' = disk \/ disk' = [disk EXCEPT ![HandlerOf[h]] = id]
      BY <2>2 DEF Adopt
    <3>2. hpc[h] = "adopt" /\ id # NoSwarm
      BY <2>0, <2>2 DEF Adopt, IdInv, IdOf
    <3>3. disk \in [Nodes -> Ids]
      BY <2>0 DEF MembershipTypeOK
    <3>4. CASE HandlerOf[h] # n
      BY <3>1, <3>3, <3>4
    <3>5. CASE HandlerOf[h] = n
      <4>1. JoinOf(h) /\ swarm[n] = disk[n]
        BY <1>1, <2>0, <3>5 DEF JoinInv, Settled, JoinAt
      <4>2. disk[n] = id
        BY <1>1, <3>2, <3>5, <4>1 DEF JoinOf, GuardJoin
      <4> HIDE DEF id
      <4> QED BY <3>1, <3>3, <3>5, <4>2
    <3> QED BY <3>4, <3>5
  <2>3. ASSUME NEW h \in setup.handlers, MergeStep(h) PROVE disk'[n] = disk[n]
    BY <2>1, <2>2, <2>3 DEF MergeStep, MergeGuard, Merge, Upsert, Adopted, Forget, identity
  <2>4. ASSUME NEW h \in setup.handlers, NEW m \in setup.nodes, Receive(h, m) \/ NotifyLeave(h, m) PROVE UNCHANGED disk
    BY <2>4 DEF Receive, NotifyLeave, identity
  <2>5. ASSUME NEW k \in setup.nodes,
               \/ \E x \in setup.revocable : Revoke(k, x)
               \/ \E m \in setup.nodes : NotifyJoin(k, m)
               \/ Restart(k)
        PROVE  UNCHANGED disk
    BY <2>5 DEF Revoke, NotifyJoin, Restart, identity
  <2> QED BY <1>1, <2>3, <2>4, <2>5 DEF SwarmNext
<1>2. MemInv /\ [SwarmNext]_swarmVars =>
          [\A n \in Nodes \ crossed : disk[n] # NoSwarm => disk'[n] = disk[n]]_swarmVars
  BY <1>1
<1> QED BY <1>2, MembershipInvariant, PTL DEF SwarmSpec, SwarmIdIsKept

-----------------------------------------------------------------------------
(***************************************************************************)
(* FlagsAgree and SweepIsComplete of NodeControl, for any number of        *)
(* operators, sweeps, placements and sandboxes, any orders, any restarts   *)
(* and any failing writes, reads and stops; and NodeLife, for any number   *)
(* of processes, faults and RPCs: it implements NodeControl, so that what  *)
(* is proved of the flags and of drains holds through launches, failed     *)
(* starts, stops and kills, and a node serves under one identity.          *)
(*                                                                         *)
(* None of the three is inductive.  RpcInv says how far the RPC that holds *)
(* the mutex has brought the three copies of the flags, SweepInv what the  *)
(* sweep that is under way has still to visit, and DownInv what a process  *)
(* that is not up yet has in memory.  KeyInv follows the identity from the *)
(* key file on, long before the node serves under it.                      *)
(***************************************************************************)
RpcInv(p) ==
    /\ opc[p] # "idle" => rpc[p] \in {"cordon", "uncordon", "drain"}
    /\ opc[p] = "mark" => rpc[p] = "drain"
    /\ (opc[p] \in {"set", "mirror", "save", "sweep"} /\ rpc[p] = "drain") => draining
    /\ opc[p] \in {"mirror", "undrain", "save", "sweep"} => cordoned = (rpc[p] # "uncordon")
    /\ opc[p] \in {"undrain", "save", "sweep"} => mirror = cordoned
    /\ opc[p] = "undrain" => rpc[p] = "uncordon"
    /\ opc[p] \in {"save", "sweep"} => (draining => cordoned)
    /\ opc[p] = "sweep" =>
          /\ rpc[p] = "drain"
          /\ unsaved \/ saved = [cordoned |-> cordoned, draining |-> draining]

\* A drain under way will see to a sweep; otherwise a draining node has one.
Drained ==
    (draining /\ ~sweeping) =>
        Running \subseteq missed \/ \E p \in Operators : opc[p] # "idle" /\ rpc[p] = "drain"

SweepInv(w) ==
    /\ spc[w] # "idle" => sweeping /\ \A v \in Sweepers : spc[v] # "idle" => v = w
    /\ spc[w] \in {"next", "stop"} => Running \subseteq missed \cup todo[w]
    /\ spc[w] = "end" => Running \subseteq missed

DownInv ==
    /\ ~Up =>
          /\ nmu = None /\ ~sweeping
          /\ \A w \in Sweepers : spc[w] = "idle"
          /\ \A q \in Placers : ppc[q] = "idle"
    /\ life = "down" => ~cordoned /\ ~draining /\ (saved.draining => Running \subseteq missed)
    /\ life = "restored" =>
          /\ draining => cordoned
          /\ unsaved \/ saved = [cordoned |-> cordoned, draining |-> draining]

CtlInv ==
    /\ NodeTypeOK
    /\ saved.draining => saved.cordoned
    /\ \A p \in Operators : RpcInv(p)
    /\ \A w \in Sweepers : SweepInv(w)
    /\ DownInv
    /\ Drained
    /\ FlagsAgree

-----------------------------------------------------------------------------

\* An RPC takes the mutex.
LEMMA BeginKeeps ==
    ASSUME CtlInv, NEW p \in Operators, NEW o \in Orders, Begin(p, o)
    PROVE  CtlInv'
<1> USE NodeControlAssumption DEF CtlInv, NodeTypeOK, Begin, Lock, OGoto, flags, ghosts
<1>1. NodeTypeOK'
  BY SMTT(60) DEF Flags
<1>2. (saved.draining => saved.cordoned)'
  BY DEF Flags, RpcInv
<1>3. \A r \in Operators : RpcInv(r)'
  BY SMTT(60) DEF RpcInv
<1>4. \A v \in Sweepers : SweepInv(v)'
  BY DEF SweepInv, Running
<1>5. DownInv'
  BY DEF DownInv, Up, Running
<1>6. Drained'
  BY DEF Drained, Running
<1>7. FlagsAgree'
  BY DEF FlagsAgree, RpcInv, DownInv, Up
<1> QED BY <1>1, <1>2, <1>3, <1>4, <1>5, <1>6, <1>7

\* Drain sets its flag first.
LEMMA MarkKeeps ==
    ASSUME CtlInv, NEW p \in Operators, Mark(p)
    PROVE  CtlInv'
<1> USE NodeControlAssumption DEF CtlInv, NodeTypeOK, Mark, OGoto, flags, ghosts
<1>1. NodeTypeOK'
  BY SMTT(60) DEF Flags
<1>2. (saved.draining => saved.cordoned)'
  BY DEF Flags, RpcInv
<1>3. \A r \in Operators : RpcInv(r)'
  <2>1. rpc[p] = "drain" /\ \A r \in Operators : opc[r] # "idle" => r = p
    BY DEF RpcInv
  <2> QED BY <2>1 DEF RpcInv
<1>4. \A v \in Sweepers : SweepInv(v)'
  BY DEF SweepInv, Running
<1>5. DownInv'
  BY DEF DownInv, Up, Running
<1>6. Drained'
  BY SMTT(60) DEF Drained, Running, RpcInv
<1>7. FlagsAgree'
  BY SMTT(60) DEF FlagsAgree, RpcInv, DownInv, Up
<1> QED BY <1>1, <1>2, <1>3, <1>4, <1>5, <1>6, <1>7

\* The local cordon.
LEMMA SetKeeps ==
    ASSUME CtlInv, NEW p \in Operators, Set(p)
    PROVE  CtlInv'
<1> USE NodeControlAssumption DEF CtlInv, NodeTypeOK, Set, OGoto, flags, ghosts
<1>1. NodeTypeOK'
  BY SMTT(60) DEF Flags
<1>2. (saved.draining => saved.cordoned)'
  BY DEF Flags, RpcInv
<1>3. \A r \in Operators : RpcInv(r)'
  BY SMTT(60) DEF RpcInv
<1>4. \A v \in Sweepers : SweepInv(v)'
  BY DEF SweepInv, Running
<1>5. DownInv'
  BY SMTT(60) DEF DownInv, Up, Running
<1>6. Drained'
  BY DEF Drained, Running
<1>7. FlagsAgree'
  BY SMTT(60) DEF FlagsAgree, RpcInv, DownInv, Up
<1> QED BY <1>1, <1>2, <1>3, <1>4, <1>5, <1>6, <1>7

\* The cluster's copy.
LEMMA MirrorKeeps ==
    ASSUME CtlInv, NEW p \in Operators, Mirror(p)
    PROVE  CtlInv'
<1> USE NodeControlAssumption DEF CtlInv, NodeTypeOK, Mirror, OGoto, flags, ghosts
<1>1. NodeTypeOK'
  BY SMTT(60) DEF Flags
<1>2. (saved.draining => saved.cordoned)'
  BY DEF Flags, RpcInv
<1>3. \A r \in Operators : RpcInv(r)'
  BY SMTT(60) DEF RpcInv
<1>4. \A v \in Sweepers : SweepInv(v)'
  BY DEF SweepInv, Running
<1>5. DownInv'
  BY DEF DownInv, Up, Running
<1>6. Drained'
  BY DEF Drained, Running
<1>7. FlagsAgree'
  BY DEF FlagsAgree, RpcInv, DownInv, Up
<1> QED BY <1>1, <1>2, <1>3, <1>4, <1>5, <1>6, <1>7

\* Uncordon clears the drain.
LEMMA UndrainKeeps ==
    ASSUME CtlInv, NEW p \in Operators, Undrain(p)
    PROVE  CtlInv'
<1> USE NodeControlAssumption DEF CtlInv, NodeTypeOK, Undrain, OGoto, flags, ghosts
<1>1. NodeTypeOK'
  BY DEF Flags
<1>2. (saved.draining => saved.cordoned)'
  BY DEF Flags, RpcInv
<1>3. \A r \in Operators : RpcInv(r)'
  BY SMTT(60) DEF RpcInv
<1>4. \A v \in Sweepers : SweepInv(v)'
  BY DEF SweepInv, Running
<1>5. DownInv'
  BY DEF DownInv, Up, Running
<1>6. Drained'
  BY DEF Drained, Running
<1>7. FlagsAgree'
  BY DEF FlagsAgree, RpcInv, DownInv, Up
<1> QED BY <1>1, <1>2, <1>3, <1>4, <1>5, <1>6, <1>7

\* The flags are written, or fail to be; Cordon and Uncordon answer.
LEMMA SaveKeeps ==
    ASSUME CtlInv, NEW p \in Operators, Save(p)
    PROVE  CtlInv'
<1> USE NodeControlAssumption DEF CtlInv, NodeTypeOK, Save, OGoto, Reply, flags, ghosts
<1>1. NodeTypeOK'
  <2>0. [cordoned |-> cordoned, draining |-> draining] \in Flags
    BY DEF Flags
  <2>1. saved' \in Flags /\ unsaved' \in BOOLEAN
    BY <2>0
  <2>2. CASE rpc[p] = "drain"
    BY <2>1, <2>2
  <2>3. CASE rpc[p] # "drain"
    BY SMTT(60), <2>1, <2>3
  <2> QED BY <2>2, <2>3
<1>2. (saved.draining => saved.cordoned)'
  BY SMTT(60) DEF Flags, RpcInv
<1>3. \A r \in Operators : RpcInv(r)'
  BY SMTT(60) DEF RpcInv
<1>4. \A v \in Sweepers : SweepInv(v)'
  BY SMTT(60) DEF SweepInv, Running
<1>5. DownInv'
  BY SMTT(60) DEF DownInv, Up, Running
<1>6. Drained'
  BY SMTT(60) DEF Drained, Running
<1>7. FlagsAgree'
  BY DEF FlagsAgree, RpcInv, DownInv, Up
<1> QED BY <1>1, <1>2, <1>3, <1>4, <1>5, <1>6, <1>7

\* Drain starts its sweep, or leaves it to the one under way, and answers.
LEMMA SweepKeeps ==
    ASSUME CtlInv, NEW p \in Operators, Sweep(p)
    PROVE  CtlInv'
<1> USE NodeControlAssumption DEF CtlInv, NodeTypeOK, Sweep, OGoto, Reply, flags, ghosts
<1>1. NodeTypeOK'
  BY DEF Flags
<1>2. (saved.draining => saved.cordoned)'
  BY DEF Flags, RpcInv
<1>3. \A r \in Operators : RpcInv(r)'
  BY SMTT(60) DEF RpcInv
<1>4. \A v \in Sweepers : SweepInv(v)'
  BY SMTT(60) DEF SweepInv, Running
<1>5. DownInv'
  BY SMTT(60) DEF DownInv, Up, Running
<1>6. Drained'
  BY DEF Drained, Running
<1>7. FlagsAgree'
  BY DEF FlagsAgree, RpcInv, DownInv, Up
<1> QED BY <1>1, <1>2, <1>3, <1>4, <1>5, <1>6, <1>7

\* The sweep lists what runs.
LEMMA ListKeeps ==
    ASSUME CtlInv, NEW w \in Sweepers, List(w)
    PROVE  CtlInv'
<1> USE NodeControlAssumption DEF CtlInv, NodeTypeOK, List, SGoto, flags, ghosts
<1>1. NodeTypeOK'
  BY SMTT(60) DEF Flags, Running
<1>2. (saved.draining => saved.cordoned)'
  BY DEF Flags, RpcInv
<1>3. \A r \in Operators : RpcInv(r)'
  BY DEF RpcInv
<1>4. \A v \in Sweepers : SweepInv(v)'
  BY SMTT(60) DEF SweepInv, Running
<1>5. DownInv'
  BY DEF DownInv, Up, Running
<1>6. Drained'
  BY DEF Drained, Running, SweepInv
<1>7. FlagsAgree'
  BY DEF FlagsAgree, RpcInv, DownInv, Up
<1> QED BY <1>1, <1>2, <1>3, <1>4, <1>5, <1>6, <1>7

\* The sweep asks whether to go on.
LEMMA NextSandboxKeeps ==
    ASSUME CtlInv, NEW w \in Sweepers, NextSandbox(w)
    PROVE  CtlInv'
<1> USE NodeControlAssumption DEF CtlInv, NodeTypeOK, NextSandbox, SGoto, flags, ghosts
<1>1. NodeTypeOK'
  BY SMTT(60) DEF Flags
<1>2. (saved.draining => saved.cordoned)'
  BY DEF Flags, RpcInv
<1>3. \A r \in Operators : RpcInv(r)'
  BY DEF RpcInv
<1>4. \A v \in Sweepers : SweepInv(v)'
  BY SMTT(60) DEF SweepInv, Running
<1>5. DownInv'
  BY DEF DownInv, Up, Running
<1>6. Drained'
  BY DEF Drained, Running
<1>7. FlagsAgree'
  BY DEF FlagsAgree, RpcInv, DownInv, Up
<1> QED BY <1>1, <1>2, <1>3, <1>4, <1>5, <1>6, <1>7

\* The sweep stops a sandbox or fails to.
LEMMA StopKeeps ==
    ASSUME CtlInv, NEW w \in Sweepers, Stop(w)
    PROVE  CtlInv'
<1> USE NodeControlAssumption DEF CtlInv, NodeTypeOK, Stop, SGoto, flags, ghosts
<1>1. NodeTypeOK'
  BY SMTT(60) DEF Flags
<1>2. (saved.draining => saved.cordoned)'
  BY DEF Flags, RpcInv
<1>3. \A r \in Operators : RpcInv(r)'
  BY DEF RpcInv
<1>4. \A v \in Sweepers : SweepInv(v)'
  BY SMTT(60) DEF SweepInv, Running
<1>5. DownInv'
  BY DEF DownInv, Up, Running
<1>6. Drained'
  BY SMTT(60) DEF Drained, Running
<1>7. FlagsAgree'
  BY DEF FlagsAgree, RpcInv, DownInv, Up
<1> QED BY <1>1, <1>2, <1>3, <1>4, <1>5, <1>6, <1>7

\* The sweep ends, under the mutex.
LEMMA EndSweepKeeps ==
    ASSUME CtlInv, NEW w \in Sweepers, EndSweep(w)
    PROVE  CtlInv'
<1> USE NodeControlAssumption DEF CtlInv, NodeTypeOK, EndSweep, SGoto, flags, ghosts
<1>1. NodeTypeOK'
  BY DEF Flags
<1>2. (saved.draining => saved.cordoned)'
  BY DEF Flags, RpcInv
<1>3. \A r \in Operators : RpcInv(r)'
  BY DEF RpcInv
<1>4. \A v \in Sweepers : SweepInv(v)'
  BY SMTT(60) DEF SweepInv, Running
<1>5. DownInv'
  BY DEF DownInv, Up, Running
<1>6. Drained'
  BY DEF Drained, Running, SweepInv
<1>7. FlagsAgree'
  BY DEF FlagsAgree, RpcInv, DownInv, Up
<1> QED BY <1>1, <1>2, <1>3, <1>4, <1>5, <1>6, <1>7

\* A placement reads the cordon.
LEMMA CheckCordonKeeps ==
    ASSUME CtlInv, NEW q \in Placers, CheckCordon(q)
    PROVE  CtlInv'
<1> USE NodeControlAssumption DEF CtlInv, NodeTypeOK, CheckCordon, flags, ghosts
<1>1. NodeTypeOK'
  BY DEF Flags
<1>2. (saved.draining => saved.cordoned)'
  BY DEF Flags, RpcInv
<1>3. \A r \in Operators : RpcInv(r)'
  BY DEF RpcInv
<1>4. \A v \in Sweepers : SweepInv(v)'
  BY DEF SweepInv, Running
<1>5. DownInv'
  BY DEF DownInv, Up, Running
<1>6. Drained'
  BY DEF Drained, Running
<1>7. FlagsAgree'
  BY DEF FlagsAgree, RpcInv, DownInv, Up
<1> QED BY <1>1, <1>2, <1>3, <1>4, <1>5, <1>6, <1>7

\* A placement creates its sandbox.
LEMMA ProvisionLocalKeeps ==
    ASSUME CtlInv, NEW q \in Placers, ProvisionLocal(q)
    PROVE  CtlInv'
<1> USE NodeControlAssumption DEF CtlInv, NodeTypeOK, ProvisionLocal, flags, ghosts
<1>1. NodeTypeOK'
  BY SMTT(60) DEF Flags
<1>2. (saved.draining => saved.cordoned)'
  BY DEF Flags, RpcInv
<1>3. \A r \in Operators : RpcInv(r)'
  BY DEF RpcInv
<1>4. \A v \in Sweepers : SweepInv(v)'
  BY SMTT(60) DEF SweepInv, Running
<1>5. DownInv'
  BY DEF DownInv, Up, Running
<1>6. Drained'
  BY SMTT(60) DEF Drained, Running
<1>7. FlagsAgree'
  BY DEF FlagsAgree, RpcInv, DownInv, Up
<1> QED BY <1>1, <1>2, <1>3, <1>4, <1>5, <1>6, <1>7

\* A user starts a sandbox.
LEMMA StartSandboxKeeps ==
    ASSUME CtlInv, NEW x \in Sids, StartSandbox(x)
    PROVE  CtlInv'
<1> USE NodeControlAssumption DEF CtlInv, NodeTypeOK, StartSandbox, flags, ghosts
<1>0. Running' = Running \cup {x} /\ missed' = missed \cup {x}
  BY DEF Running
<1>1. NodeTypeOK'
  BY DEF Flags
<1>2. (saved.draining => saved.cordoned)'
  BY DEF Flags
<1>3. \A r \in Operators : RpcInv(r)'
  BY DEF RpcInv
<1>4. \A v \in Sweepers : SweepInv(v)'
  BY <1>0 DEF SweepInv
<1>5. DownInv'
  BY DEF DownInv, Up
<1>6. Drained'
  BY <1>0 DEF Drained
<1>7. FlagsAgree'
  BY DEF FlagsAgree, Up
<1> QED BY <1>1, <1>2, <1>3, <1>4, <1>5, <1>6, <1>7

\* A user stops one.
LEMMA StopSandboxKeeps ==
    ASSUME CtlInv, NEW x \in Sids, StopSandbox(x)
    PROVE  CtlInv'
<1> USE NodeControlAssumption DEF CtlInv, NodeTypeOK, StopSandbox, flags, ghosts
<1>0. Running' = Running \ {x} /\ missed' = missed
  BY DEF Running
<1>1. NodeTypeOK'
  BY DEF Flags
<1>2. (saved.draining => saved.cordoned)'
  BY DEF Flags
<1>3. \A r \in Operators : RpcInv(r)'
  BY DEF RpcInv
<1>4. \A v \in Sweepers : SweepInv(v)'
  BY <1>0 DEF SweepInv
<1>5. DownInv'
  BY DEF DownInv, Up
<1>6. Drained'
  BY <1>0 DEF Drained
<1>7. FlagsAgree'
  BY DEF FlagsAgree, Up
<1> QED BY <1>1, <1>2, <1>3, <1>4, <1>5, <1>6, <1>7

\* The node is told to stop.
LEMMA CancelKeeps ==
    ASSUME CtlInv, Cancel
    PROVE  CtlInv'
<1> USE NodeControlAssumption DEF CtlInv, NodeTypeOK, Cancel, flags, ghosts
<1>1. NodeTypeOK'
  BY DEF Flags
<1>2. (saved.draining => saved.cordoned)'
  BY DEF Flags
<1>3. \A r \in Operators : RpcInv(r)'
  BY DEF RpcInv
<1>4. \A v \in Sweepers : SweepInv(v)'
  BY DEF SweepInv, Running
<1>5. DownInv'
  BY DEF DownInv, Up
<1>6. Drained'
  BY DEF Drained, Running
<1>7. FlagsAgree'
  BY DEF FlagsAgree, Up
<1> QED BY <1>1, <1>2, <1>3, <1>4, <1>5, <1>6, <1>7

\* The process ends.
LEMMA DieKeeps ==
    ASSUME CtlInv, Die
    PROVE  CtlInv'
<1> USE NodeControlAssumption DEF CtlInv, NodeTypeOK, Die, flags, ghosts
<1>1. NodeTypeOK'
  BY DEF Flags, Running
<1>2. (saved.draining => saved.cordoned)'
  BY DEF Flags, RpcInv
<1>3. \A r \in Operators : RpcInv(r)'
  BY DEF RpcInv
<1>4. \A v \in Sweepers : SweepInv(v)'
  BY DEF SweepInv, Running
<1>5. DownInv'
  BY DEF DownInv, Up, Running
<1>6. Drained'
  BY DEF Drained, Running
<1>7. FlagsAgree'
  BY DEF FlagsAgree, RpcInv, DownInv, Up
<1> QED BY <1>1, <1>2, <1>3, <1>4, <1>5, <1>6, <1>7

\* Boot reads the stored flags.
LEMMA RestoreKeeps ==
    ASSUME CtlInv, Restore
    PROVE  CtlInv'
<1> USE NodeControlAssumption DEF CtlInv, NodeTypeOK, Restore, flags, ghosts
<1>1. NodeTypeOK'
  BY DEF Flags
<1>2. (saved.draining => saved.cordoned)'
  BY DEF Flags, RpcInv
<1>3. \A r \in Operators : RpcInv(r)'
  <2>1. life = "down" /\ opc' = opc
    BY DEF Restore
  <2>2. nmu = None /\ None \notin Operators /\ \A r \in Operators : nmu = r <=> opc[r] # "idle"
    BY ONLY ZenonT(60), CtlInv, <2>1, NodeControlAssumption DEF CtlInv, DownInv, Up, NodeTypeOK
  <2>3. \A r \in Operators : opc'[r] = "idle"
    BY ONLY ZenonT(60), <2>1, <2>2
  <2> QED BY ONLY ZenonT(60), <2>3 DEF RpcInv
<1>4. \A v \in Sweepers : SweepInv(v)'
  BY DEF SweepInv, Running
<1>5. DownInv'
  <2>1. saved = [cordoned |-> saved.cordoned, draining |-> saved.draining]
    BY DEF Flags
  <2> QED BY SMTT(60), <2>1 DEF DownInv, Up, Running
<1>6. Drained'
  BY DEF Drained, Running, DownInv, Up
<1>7. FlagsAgree'
  BY DEF FlagsAgree, RpcInv, DownInv, Up
<1> QED BY <1>1, <1>2, <1>3, <1>4, <1>5, <1>6, <1>7

\* Boot tells the peers.
LEMMA AnnounceKeeps ==
    ASSUME CtlInv, Announce
    PROVE  CtlInv'
<1> USE NodeControlAssumption DEF CtlInv, NodeTypeOK, Announce, flags, ghosts
<1>1. NodeTypeOK'
  BY DEF Flags
<1>2. (saved.draining => saved.cordoned)'
  BY DEF Flags, RpcInv
<1>3. \A r \in Operators : RpcInv(r)'
  BY DEF RpcInv
<1>4. \A v \in Sweepers : SweepInv(v)'
  BY DEF SweepInv, Running
<1>5. DownInv'
  BY DEF DownInv, Up, Running
<1>6. Drained'
  BY DEF Drained, Running
<1>7. FlagsAgree'
  BY DEF FlagsAgree, RpcInv, DownInv, Up
<1> QED BY <1>1, <1>2, <1>3, <1>4, <1>5, <1>6, <1>7

-----------------------------------------------------------------------------
\* The invariant holds on a fresh node, whatever sandboxes it finds.
LEMMA CtlInvInit == Init => CtlInv
<1> SUFFICES ASSUME Init PROVE CtlInv
  OBVIOUS
<1> USE NodeControlAssumption DEF Init
<1>1. NodeTypeOK /\ ~saved.draining
  <2>1. saved \in Flags /\ ~saved.draining
    BY DEF Flags
  <2>2. sent \in 0 .. MaxRPCs /\ \A p \in Operators : nmu = p <=> opc[p] # "idle"
    BY SMTT(60)
  <2> QED BY <2>1, <2>2 DEF NodeTypeOK
<1>2. \A p \in Operators : RpcInv(p)
  BY DEF RpcInv
<1>3. \A w \in Sweepers : SweepInv(w)
  BY DEF SweepInv
<1>4. DownInv /\ Drained /\ FlagsAgree
  BY DEF DownInv, Drained, FlagsAgree, Up
<1> QED BY <1>1, <1>2, <1>3, <1>4 DEF CtlInv

\* Every step keeps it.
LEMMA CtlInvStep == CtlInv /\ [Next]_vars => CtlInv'
<1> SUFFICES ASSUME CtlInv, [Next]_vars PROVE CtlInv'
  OBVIOUS
<1>1. ASSUME NEW p \in Operators, OperatorStep(p) \/ \E o \in Orders : Begin(p, o) PROVE CtlInv'
  BY <1>1, BeginKeeps, MarkKeeps, SetKeeps, MirrorKeeps, UndrainKeeps, SaveKeeps, SweepKeeps
     DEF OperatorStep
<1>2. ASSUME NEW w \in Sweepers, SweepStep(w) PROVE CtlInv'
  BY <1>2, ListKeeps, NextSandboxKeeps, StopKeeps, EndSweepKeeps DEF SweepStep
<1>3. CASE UNCHANGED vars
  BY <1>3 DEF vars, flags, ghosts, CtlInv, NodeTypeOK, RpcInv, SweepInv, DownInv, Up, Drained,
     FlagsAgree, Running, Up
<1>4. ASSUME NEW x \in Sids, StartSandbox(x) \/ StopSandbox(x) PROVE CtlInv'
  BY <1>4, StartSandboxKeeps, StopSandboxKeeps
<1> QED BY <1>1, <1>2, <1>3, <1>4, CheckCordonKeeps, ProvisionLocalKeeps, CancelKeeps, DieKeeps,
           RestoreKeeps, AnnounceKeeps DEF Next

\* When nobody holds the mutex, no RPC is under way and no drain is half-way.
LEMMA SweepIsCompleteFollows == CtlInv => SweepIsComplete
BY NodeControlAssumption DEF CtlInv, NodeTypeOK, Drained, SweepIsComplete

\* For every instance: between RPCs the cordon of the node, the cluster's copy
\* and the stored flags agree (FlagsAgree), and what runs after the sweep of a
\* drain is what the sweep could not stop (SweepIsComplete), whatever two
\* operators, restarts and failing writes do to each other.
THEOREM ControlIsSound == Spec => [](CtlInv /\ FlagsAgree /\ SweepIsComplete)
<1>1. CtlInv => FlagsAgree
  BY DEF CtlInv
<1> QED BY <1>1, CtlInvInit, CtlInvStep, SweepIsCompleteFollows, PTL DEF Spec

-----------------------------------------------------------------------------
Early == {"off", "identity", "create", "write", "failed"}
Opening == {"open", "backend"}
Late == {"console", "setready", "run", "leave", "shutdown", "exit"}
Phases == Early \cup Opening \cup Late
    \cup {"tls", "flags", "cluster", "mint", "announce", "build", "cert", "writekey", "listen"}

LifeTypeInv ==
    /\ phase \in [Procs -> Phases] /\ held \in [Procs -> SUBSET Resources]
    /\ me \in [Procs -> Procs \cup {None}] /\ key \in Procs \cup {None, "empty"}
    /\ cert \in {"none", "crt", "both"} /\ raced \in BOOLEAN
    /\ \A p \in Procs : "main" \in held[p] => phase[p] \in Late

\* Unless two processes made a key: who is past the key file has the identity
\* that is in it, and the store has been used under no other.
KeyInv(p) ==
    /\ phase[p] = "write" => key = "empty" /\ \A q \in Procs : phase[q] = "write" => q = p
    /\ phase[p] \notin Early => me[p] = key /\ key \in Procs
    /\ phase[p] \notin Early \cup Opening => born = key

LifeInv ==
    /\ LifeTypeInv
    /\ ~raced => (\A p \in Procs : KeyInv(p)) /\ (born # None => born = key /\ key \in Procs)

-----------------------------------------------------------------------------
\* Every step of main, and every fault, keeps the invariant.
LEMMA LifeKeeps ==
    ASSUME LifeInv, NEW p \in Procs, Main(p) \/ AdoptSwarm(p) \/ Signal(p) \/ Kill(p)
    PROVE  LifeInv'
<1> USE NodeLifeAssumption DEF LifeInv, LifeTypeInv, KeyInv, Phases, Early, Opening, Late, Resources
<1>1. CASE Launch(p) BY SMTT(60), <1>1 DEF Launch
<1>2. CASE LoadIdentity(p) BY SMTT(60), <1>2 DEF LoadIdentity, Goto
<1>3. CASE CreateKey(p)
  <2>1. LifeTypeInv'
    BY SMTT(60), <1>3 DEF CreateKey, Goto
  <2>2. ~raced' => ~raced /\ key = None
    BY <1>3 DEF CreateKey
  <2>3. ~raced' => born = None /\ \A q \in Procs : phase[q] \in Early \ {"write"}
    BY <2>2
  <2> QED BY SMTT(60), <1>3, <2>1, <2>3 DEF CreateKey, Goto
<1>4. CASE WriteKey(p) BY SMTT(60), <1>4 DEF WriteKey, Goto, Fails
<1>5. CASE OpenStore(p) BY SMTT(60), <1>5 DEF OpenStore, Goto, Owner
<1>6. CASE BuildManager(p) BY SMTT(60), <1>6 DEF BuildManager, Goto, Fails
<1>7. CASE LoadSwarm(p) BY SMTT(60), <1>7 DEF LoadSwarm, Goto, GiveBack, Fails
<1>8. CASE RestoreFlags(p) BY <1>8 DEF RestoreFlags, Goto
<1>9. CASE NewCluster(p) BY SMTT(60), <1>9 DEF NewCluster, Goto, Fails
<1>10. CASE AnnounceCordon(p) BY <1>10 DEF AnnounceCordon, Goto
<1>11. CASE BuildServer(p) BY SMTT(60), <1>11 DEF BuildServer, Goto, Fails
<1>12. CASE LoadCert(p) BY SMTT(60), <1>12 DEF LoadCert, Left
<1>13. CASE WriteCertKey(p) BY SMTT(60), <1>13 DEF WriteCertKey, Goto, Fails, Left
<1>14. CASE Listen(p) BY SMTT(60), <1>14 DEF Listen, Goto, StartFails
<1>15. CASE ListenConsole(p) BY SMTT(60), <1>15 DEF ListenConsole, Goto, StartFails
<1>16. CASE SetReady(p) BY <1>16 DEF SetReady, Goto
<1>17. CASE Signal(p) BY <1>17 DEF Signal, Goto
<1>18. CASE Leave(p) BY <1>18 DEF Leave
<1>19. CASE Shutdown(p) BY <1>19 DEF Shutdown, GiveBack
<1>20. CASE Exit(p) BY SMTT(60), <1>20 DEF Exit, Ends
<1>21. CASE Kill(p) BY SMTT(60), <1>21 DEF Kill, Ends
<1>22. CASE WriteSwarm(p) BY SMTT(60), <1>22 DEF WriteSwarm, Goto, Fails
<1>23. CASE AdoptSwarm(p) BY <1>23 DEF AdoptSwarm
<1>24. CASE WriteAdopted(p) BY <1>24 DEF WriteAdopted
<1> QED BY <1>1, <1>2, <1>3, <1>4, <1>5, <1>6, <1>7, <1>8, <1>9, <1>10, <1>11, <1>12, <1>13, <1>14, <1>15, <1>16, <1>17, <1>18, <1>19, <1>20, <1>21, <1>22, <1>23, <1>24 DEF Main

\* The requests that are served have nothing to do with the identity.
LEMMA LifeInvStep == LifeInv /\ [LifeNext]_AllVars => LifeInv'
<1> SUFFICES ASSUME LifeInv, [LifeNext]_AllVars PROVE LifeInv'
  OBVIOUS
<1>1. CASE Serve \/ UNCHANGED AllVars
  BY <1>1 DEF Serve, AllVars, life_vars, LifeInv, LifeTypeInv, KeyInv
<1> QED BY <1>1, LifeKeeps DEF LifeNext

\* A process that is killed or fails takes the flags with it, as Die does, or
\* had none.
LEMMA GoneIsDie == ASSUME NEW p \in Procs, Gone(p) PROVE [Next]_vars
BY DEF Gone, Next

\* Every step of NodeLife is a step of NodeControl or leaves it alone.
LEMMA LifeStep == LifeNext => [Next]_vars
<1> SUFFICES ASSUME LifeNext PROVE [Next]_vars
  OBVIOUS
<1>1. CASE Serve
  BY <1>1 DEF Serve, Next
<1>2. ASSUME NEW p \in Procs, Main(p) \/ AdoptSwarm(p) \/ Signal(p) \/ Kill(p) PROVE [Next]_vars
  <2>1. Gone(p) \/ Restore \/ Announce \/ Cancel \/ UNCHANGED vars
    BY <1>2 DEF Main, Launch, LoadIdentity, CreateKey, WriteKey, OpenStore, BuildManager,
       LoadSwarm, RestoreFlags, NewCluster, AnnounceCordon, BuildServer, LoadCert, WriteCertKey,
       Listen, ListenConsole, SetReady, Leave, Shutdown, Exit, Signal, Kill, Fails, StartFails,
       GiveBack, Ends, WriteSwarm, AdoptSwarm, WriteAdopted
  <2> QED BY <2>1, GoneIsDie DEF Next
<1> QED BY <1>1, <1>2 DEF LifeNext

-----------------------------------------------------------------------------
\* The node with its launches, failures and kills does to the flags and the
\* sandboxes nothing that NodeControl does not allow.
THEOREM LifeImplementsControl == LifeSpec => Spec
<1>1. LifeInit => Init
  BY DEF LifeInit
<1>2. [LifeNext]_AllVars => [Next]_vars
  BY LifeStep DEF AllVars
<1> QED BY <1>1, <1>2, PTL DEF LifeSpec, Spec

\* FlagsAgree and SweepIsComplete through launches, failed starts and kills, for
\* any number of operators, sandboxes and processes.
THEOREM LifeKeepsFlags == LifeSpec => [](FlagsAgree /\ SweepIsComplete)
BY LifeImplementsControl, ControlIsSound, PTL

\* NodeIdIsStable for any number of processes and faults: who serves has the
\* identity on disk, the one the records were first made under, unless two first
\* starts both made a key.
THEOREM IdentityIsStable == LifeSpec => []NodeIdIsStable
<1>1. LifeInit => LifeInv
  BY NodeLifeAssumption DEF LifeInit, LifeInv, LifeTypeInv, KeyInv, Phases, Early, Opening, Resources
<1>2. LifeInv => NodeIdIsStable
  BY DEF LifeInv, LifeTypeInv, KeyInv, NodeIdIsStable, Serving, Late, Early, Opening
<1> QED BY <1>1, <1>2, LifeInvStep, PTL DEF LifeSpec
=============================================================================
