---------------------------- MODULE MCMembership ----------------------------
(***************************************************************************)
(* Instances of Membership for TLC: a and b are members of a swarm each or *)
(* of the same one, p starts with seeds and no id.                         *)
(***************************************************************************)
EXTENDS Membership, TLC

CONSTANTS a, b, p, A, B, ha, hb, hp, ha2, hp2

Home == [h \in Handlers |-> IF h \in {ha, ha2} THEN a ELSE IF h = hb THEN b ELSE p]

\* Two swarms that share a secret, and a node that joins one of them and is
\* reached by two connections at a time.
TwoSwarms ==
    [nodes |-> {a, b, p}, seeded |-> (a :> A) @@ (b :> B) @@ (p :> NoSwarm),
     handlers |-> {hb, hp, hp2}, revocable |-> {}, metaArrives |-> FALSE,
     putsFail |-> TRUE, maxLeaves |-> 0]

\* One swarm of a member and a joiner; two connections at a time reach the member.
OneSwarm ==
    [nodes |-> {a, p}, seeded |-> (a :> A) @@ (b :> NoSwarm) @@ (p :> NoSwarm),
     handlers |-> {ha, ha2, hp}, revocable |-> {p}, metaArrives |-> TRUE,
     putsFail |-> FALSE, maxLeaves |-> 1]

\* The same swarm on failing disks.
BadDisks == [OneSwarm EXCEPT !.handlers = {ha, hp}, !.metaArrives = FALSE, !.putsFail = TRUE, !.maxLeaves = 0]

ThreeSetups == {TwoSwarms, OneSwarm, BadDisks}

\* Two connections at a time reach the joiner between two swarms.
JoinTwice == {[TwoSwarms EXCEPT !.handlers = {hp, hp2}, !.putsFail = FALSE]}
=============================================================================
