---------------------------- MODULE MCPlacement ----------------------------
(***************************************************************************)
(* Instances of Placement and Scheduler for TLC.  A behaviour is of one of *)
(* the two kinds: requests that enter at node n1 are placed, or the view   *)
(* of node n1 changes and a request is ranked against it.                  *)
(***************************************************************************)
EXTENDS Placement, TLC

CONSTANTS
    n1, n2, n3, n4, image, recipe, kit, NoTemplate,
    Kinds,         \* subset of {"place", "rank"}
    RankNodes, RankRequests

AllAtFirst == [r \in Requests |-> n1]

Resources == {"cpu", "mem"}

VARIABLES kind, view, req

-----------------------------------------------------------------------------
(***************************************************************************)
(* Two resources, and candidates that differ in every field the scheduler  *)
(* looks at.                                                               *)
(***************************************************************************)
Cand(off, cpu, mem, ucpu, umem, count, actual, templates, offers, zone) ==
    [cordoned |-> off,
     limit |-> [d \in Resources |-> IF d = "cpu" THEN cpu ELSE mem],
     alloc |-> [d \in Resources |-> IF d = "cpu" THEN ucpu ELSE umem],
     sandboxes |-> count, actual |-> actual, templates |-> templates, offers |-> offers,
     labels |-> [zone |-> zone]]

\* An idle node and a loaded one, a small node with more and with less load, one
\* without a memory limit, one cordoned.
Advertised ==
    {Cand(FALSE, 4, 4, 0, 0, 0, 0, {image}, {kit}, "a"),
     Cand(FALSE, 4, 4, 2, 1, 1, 2, {image}, {kit}, "a"),
     Cand(FALSE, 2, 2, 1, 0, 1, 0, {recipe}, {kit}, "b"),
     Cand(FALSE, 2, 2, 1, 1, 1, 0, {recipe}, {kit}, "b"),
     Cand(FALSE, 2, 0, 0, 0, 0, 1, {}, {}, "b"),
     Cand(TRUE,  4, 4, 0, 0, 0, 0, {image}, {kit}, "b")}

Req(id, strategy, size, template, needs, aff, anti) ==
    [id |-> id, strategy |-> strategy, size |-> [d \in Resources |-> size],
     template |-> template, needs |-> needs, affinity |-> aff, antiAffinity |-> anti]

Wishes ==
    {Req(1, s, 1, NoTemplate, {}, <<>>, <<>>) :
        s \in {"least-loaded", "bin-pack", "least-actual-load"}}
    \cup {Req(2, "least-loaded", 0, image, {kit}, <<>>, [zone |-> "b"]),
          Req(2, "bin-pack", 1, recipe, {}, <<>>, <<>>),
          Req(2, "spread", 2, recipe, {kit}, [zone |-> "b"], <<>>)}

PlainWishes == {r \in Wishes : r.template = NoTemplate /\ r.strategy \in {"least-loaded", "bin-pack"}}

\* recipe is a registry reference, image a bare tag.
Hashes ==
    <<(n1 :> 0) @@ (n2 :> 1) @@ (n3 :> 2) @@ (n4 :> 3), (n1 :> 2) @@ (n2 :> 0) @@ (n3 :> 3) @@ (n4 :> 1)>>

S == INSTANCE Scheduler WITH
    Nodes <- RankNodes, self <- n1, Candidates <- Advertised, Requests <- RankRequests,
    Pullable <- {recipe}, Tie <- Hashes

ASSUME S!SchedulerAssumption

-----------------------------------------------------------------------------
MCInit ==
    /\ kind \in Kinds /\ Init
    /\ \/ kind = "rank" /\ S!Init
       \/ kind = "place" /\ view = [n \in RankNodes |-> None] /\ req = None

MCNext ==
    \/ kind = "place" /\ Next /\ UNCHANGED <<kind, view, req>>
    \/ kind = "rank" /\ S!Next /\ UNCHANGED <<kind, vars>>

MCSpec == MCInit /\ [][MCNext]_<<vars, kind, view, req>>

\* The ranking does not depend on the order in which buildCandidates's map
\* yields the peers, and two entry nodes with the same view rank the nodes
\* other than themselves in the same way: coordinators need no leader.
CoordinatorsAgree == kind = "rank" => S!MapOrderIsIrrelevant /\ S!CoordinatorsAgree

\* "a node with an unknown limit is eligible but deprioritized".
UnknownLimitIsLast == kind = "rank" => S!UnknownLimitIsLast
=============================================================================
