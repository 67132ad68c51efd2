----------------------------- MODULE Scheduler ------------------------------
(***************************************************************************)
(* The scheduler (internal/scheduler/scheduler.go) over the view an entry  *)
(* node has of the swarm (buildCandidates in internal/node/node.go).       *)
(*                                                                         *)
(* A view changes with every gossip merge.  Its peers come out of a Go     *)
(* map, in any order.  A ratio is a pair <<numerator, denominator>>: equal *)
(* fractions have equal float64 quotients.  Workspaces, kits and           *)
(* capabilities are names a request needs and a node offers; the hash of   *)
(* the tie-break is a constant injective for each request.                 *)
(***************************************************************************)
EXTENDS Naturals, Sequences, FiniteSets, TLC

CONSTANTS
    Nodes,
    self,         \* the entry node
    Resources,    \* "cpu", "mem", "disk"
    Candidates,   \* what a node may advertise, see CandidateOK
    Requests,     \* see RequestOK
    Pullable,     \* the templates with a registry reference
    Tie,          \* Tie[id][n]: the hash of request id and node id
    NoTemplate,
    None

CandidateOK(c) ==
    /\ c.cordoned \in BOOLEAN
    /\ c.limit \in [Resources -> Nat] /\ c.alloc \in [Resources -> Nat]
    /\ c.sandboxes \in Nat /\ c.actual \in Nat
    /\ IsFiniteSet(c.offers) /\ IsFiniteSet(c.templates)

RequestOK(r) ==
    /\ r.size \in [Resources -> Nat]
    /\ r.strategy \in {"least-loaded", "bin-pack", "spread", "least-actual-load"}
    /\ \A k \in DOMAIN r.affinity \cup DOMAIN r.antiAffinity : \A c \in Candidates : k \in DOMAIN c.labels

\* What the instances must satisfy.
SchedulerAssumption ==
    /\ self \in Nodes
    /\ \A c \in Candidates : CandidateOK(c)
    /\ \A r \in Requests : RequestOK(r)
    /\ \A r \in Requests : \A m, n \in Nodes : Tie[r.id][m] = Tie[r.id][n] => m = n

VARIABLES
    view,     \* Nodes -> the candidate it is known as, or None
    req       \* the request to place

vars == <<view, req>>

-----------------------------------------------------------------------------
(***************************************************************************)
(* Eligibility.                                                            *)
(***************************************************************************)
CapFits(used, limit) == limit = 0 \/ used <= limit

\* Under either spelling of the reference.
Holds(c, template) == template \in c.templates

Fits(r, c) ==
    /\ ~c.cordoned
    /\ r.needs \subseteq c.offers
    /\ r.template \in Pullable \cup {NoTemplate} \/ Holds(c, r.template)
    /\ \A k \in DOMAIN r.affinity : c.labels[k] = r.affinity[k]
    /\ \A k \in DOMAIN r.antiAffinity : c.labels[k] # r.antiAffinity[k]
    /\ \A d \in Resources : CapFits(c.alloc[d] + r.size[d], c.limit[d])

-----------------------------------------------------------------------------
(***************************************************************************)
(* Ranking.                                                                *)
(***************************************************************************)
Lt(x, y) == x[1] * y[2] < y[1] * x[2]

\* An unknown limit counts as fully loaded.
Ratio(used, limit) == IF limit = 0 THEN <<1, 1>> ELSE <<used, limit>>

\* max3
Dominant(ratios) == CHOOSE x \in ratios : \A y \in ratios : ~Lt(x, y)

Score(r, c) ==
    CASE r.strategy = "spread" -> <<c.sandboxes, 1>>
      [] r.strategy = "least-actual-load" -> <<c.actual, 1>>
      [] OTHER -> Dominant({Ratio(c.alloc[d] + r.size[d], c.limit[d]) : d \in Resources})

\* Mutant: ties are broken by the hash of the entry node.
BeforeByEntry(r, local, x, y) ==
    LET sx == Score(r, x.c)
        sy == Score(r, y.c) IN
    CASE Lt(sx, sy) -> r.strategy # "bin-pack"
      [] Lt(sy, sx) -> r.strategy = "bin-pack"
      [] x.id = local \/ y.id = local -> x.id = local
      [] OTHER -> (Tie[r.id][x.id] + Tie[r.id][local]) % 4 < (Tie[r.id][y.id] + Tie[r.id][local]) % 4

\* The comparison of the sort: score, then the image, then the entry node,
\* then the hash.
Before(r, local, x, y) ==
    LET sx == Score(r, x.c)
        sy == Score(r, y.c)
        held(z) == r.template # NoTemplate /\ Holds(z.c, r.template) IN
    CASE Lt(sx, sy) -> r.strategy # "bin-pack"
      [] Lt(sy, sx) -> r.strategy = "bin-pack"
      [] held(x) # held(y) -> held(x)
      [] (x.id = local) # (y.id = local) -> x.id = local
      [] OTHER -> Tie[r.id][x.id] < Tie[r.id][y.id]

\* The ids of the eligible candidates, best first; <<>> is ErrNoEligibleNode.
Schedule(r, local, cands) ==
    LET ok == SelectSeq(cands, LAMBDA x : Fits(r, x.c))
        sorted == SortSeq(ok, LAMBDA x, y : Before(r, local, x, y)) IN
    [i \in DOMAIN sorted |-> sorted[i].id]

-----------------------------------------------------------------------------
(***************************************************************************)
(* The view: this node first, then the peers in an order of their own.     *)
(***************************************************************************)
Known(v) == {n \in Nodes : v[n] # None}

\* The orders of the nodes in which n comes first.
Orders ==
    LET bijections == {f \in [1 .. Cardinality(Nodes) -> Nodes] : \A i, j \in DOMAIN f : f[i] = f[j] => i = j} IN
    [n \in Nodes |-> {f \in bijections : f[1] = n}]

BuildCandidates(v, local) ==
    {LET ids == SelectSeq(f, LAMBDA n : n \in Known(v)) IN
     [i \in DOMAIN ids |-> [id |-> ids[i], c |-> v[ids[i]]]] : f \in Orders[local]}

\* The order for one of the orders of the peers.
Ranking(r, local, v) == Schedule(r, local, CHOOSE cands \in BuildCandidates(v, local) : TRUE)

Init ==
    /\ req \in Requests
    /\ view \in {[n \in Nodes |-> IF n = self THEN c ELSE None] : c \in Candidates}

\* A merge of n's state, or a change of this node's own.
Merge(n, c) ==
    /\ view' = [view EXCEPT ![n] = c]
    /\ UNCHANGED req

\* A peer left.
Forget(n) ==
    /\ n # self /\ view[n] # None
    /\ view' = [view EXCEPT ![n] = None]
    /\ UNCHANGED req

Next == \E n \in Nodes : Forget(n) \/ \E c \in Candidates : Merge(n, c)

Spec == Init /\ [][Next]_vars

-----------------------------------------------------------------------------
\* The ranking does not depend on the order in which the Go map yields the
\* peers: the comparison is a strict total order on the candidates of a view.
MapOrderIsIrrelevant ==
    Cardinality({Schedule(req, self, cands) : cands \in BuildCandidates(view, self)}) = 1

\* Coordinators need no leader: two entry nodes with the same view rank the
\* nodes other than themselves in the same way.
CoordinatorsAgree ==
    \A m \in Known(view) :
        LET Others(s) == SelectSeq(s, LAMBDA n : n \notin {self, m}) IN
        Others(Ranking(req, self, view)) = Others(Ranking(req, m, view))

\* "a node with an unknown limit is eligible but deprioritized": none is ranked
\* ahead of a node that has all its limits and room beyond the request.
UnknownLimitIsLast ==
    LET s == Ranking(req, self, view)
        unknown(n) == \E d \in Resources : view[n].limit[d] = 0
        roomy(n) == \A d \in Resources : view[n].alloc[d] + req.size[d] < view[n].limit[d] IN
    \A i, j \in DOMAIN s : unknown(s[i]) /\ roomy(s[j]) => j < i
=============================================================================
