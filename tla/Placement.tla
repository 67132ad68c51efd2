----------------------------- MODULE Placement -----------------------------
(***************************************************************************)
(* Placing a sandbox: the coordinator of the entry node tries candidates   *)
(* (internal/coordinator, attemptFor and callProvisionWithRetry in         *)
(* internal/node/node.go); a target admits, creates and remembers the      *)
(* request id (internal/apiserver/provision.go).                           *)
(*                                                                         *)
(* The order of the candidates is the scheduler's and is left open here:   *)
(* the coordinator picks any that is left.  A call <<r, n, 1>> or, as the  *)
(* retry, <<r, n, 2>> is request r sent to node n; a sandbox is named      *)
(* after the call that made it, <<r, n, 0>> being a local attempt.         *)
(* A client may see a connection fail at any moment, before, during or     *)
(* after the work of the handler behind it.                                *)
(***************************************************************************)
EXTENDS Naturals, Sequences, FiniteSets

CONSTANTS
    Nodes,
    Requests,       \* provision requests, named by their request ids
    Entry,          \* Requests -> the node that coordinates it
    Slots,          \* sandboxes a node can admit
    DedupMax,       \* entries of a dedup cache
    MidCallErrors,  \* BOOLEAN: a client may see an error while the handler works on
    MayCordon,      \* BOOLEAN: targets may be cordoned
    MayExpire,      \* BOOLEAN: the time-to-live of a dedup entry may pass within a placement
    MaxRestarts,
    Nack, Failure,  \* answers of a target that makes no sandbox
    None

Calls == Requests \X Nodes \X {1, 2}
Sandboxes == Requests \X Nodes \X {0, 1, 2}

ASSUME PlacementAssumption ==
    /\ Entry \in [Requests -> Nodes]
    /\ Slots \in Nat /\ DedupMax \in Nat \ {0} /\ MaxRestarts \in Nat
    /\ MidCallErrors \in BOOLEAN /\ MayCordon \in BOOLEAN /\ MayExpire \in BOOLEAN
    /\ None \notin Nodes \cup Sandboxes
    /\ {Nack, Failure} \cap Sandboxes = {} /\ Nack # Failure /\ None \notin {Nack, Failure}

VARIABLES
    ppc, left, target, tries, result,   \* the coordinator, per request
    hpc, answer,                        \* the handler behind a call
    dedup,          \* Nodes -> sequence of <<request, sandbox>>, oldest first
    made,           \* the sandboxes that were created
    cordoned, restarts,
    excused         \* history: requests that were retried before the first call had
                    \* ended, or whose sandbox's node has forgotten or refuses them

coordinator == <<ppc, left, target, tries, result>>
handler == <<hpc, answer>>
vars == <<coordinator, handler, dedup, made, cordoned, restarts, excused>>

Init ==
    /\ ppc = [r \in Requests |-> "new"]
    /\ left = [r \in Requests |-> {}]
    /\ target = [r \in Requests |-> None]
    /\ tries = [r \in Requests |-> 0]
    /\ result = [r \in Requests |-> None]
    /\ hpc = [c \in Calls |-> "none"]
    /\ answer = [c \in Calls |-> None]
    /\ dedup = [n \in Nodes |-> <<>>]
    /\ made = {} /\ cordoned = {} /\ restarts = 0 /\ excused = {}

-----------------------------------------------------------------------------
PGoto(r, label) == ppc' = [ppc EXCEPT ![r] = label]
HGoto(c, label) == hpc' = [hpc EXCEPT ![c] = label]

On(n) == {s \in made : s[2] = n}
HasRoom(n) == Cardinality(On(n)) < Slots

\* Schedule: the candidates the entry node's view calls eligible.  The view
\* may be stale, except for the node's own cordon.
Schedule(r) ==
    /\ ppc[r] = "new"
    /\ \E C \in SUBSET Nodes :
        /\ Entry[r] \in cordoned => Entry[r] \notin C
        /\ left' = [left EXCEPT ![r] = C]
        /\ PGoto(r, IF C = {} THEN "failed" ELSE "pick")
    /\ UNCHANGED <<target, tries, result, handler, dedup, made, cordoned, restarts, excused>>

\* The next candidate; when all have refused, ErrNoCapacity.
Attempt(r) ==
    /\ ppc[r] = "pick"
    /\ \/ /\ left[r] = {} /\ PGoto(r, "failed")
          /\ UNCHANGED <<left, target, tries>>
       \/ \E n \in left[r] :
            /\ left' = [left EXCEPT ![r] = @ \ {n}]
            /\ target' = [target EXCEPT ![r] = n]
            /\ tries' = [tries EXCEPT ![r] = 0]
            /\ PGoto(r, IF n = Entry[r] THEN "local" ELSE "dial")
    /\ UNCHANGED <<result, handler, dedup, made, cordoned, restarts, excused>>

\* The local attempt: admitted and created, refused, or failed.
AttemptLocal(r) ==
    /\ ppc[r] = "local"
    /\ \/ /\ HasRoom(Entry[r])
          /\ made' = made \cup {<<r, Entry[r], 0>>}
          /\ result' = [result EXCEPT ![r] = <<r, Entry[r], 0>>]
          /\ PGoto(r, "done")
       \/ ~HasRoom(Entry[r]) /\ PGoto(r, "pick") /\ UNCHANGED <<made, result>>
       \/ PGoto(r, "failed") /\ UNCHANGED <<made, result>>
    /\ UNCHANGED <<left, target, tries, handler, dedup, cordoned, restarts, excused>>

\* A peer that has no address or cannot be dialled is skipped; otherwise the
\* call is sent.
Dial(r) ==
    /\ ppc[r] = "dial"
    /\ \/ PGoto(r, "pick") /\ UNCHANGED <<tries, hpc>>
       \/ /\ tries' = [tries EXCEPT ![r] = 1]
          /\ HGoto(<<r, target[r], 1>>, "cordon")
          /\ PGoto(r, "wait")
    /\ UNCHANGED <<left, target, result, answer, dedup, made, cordoned, restarts, excused>>

\* The call ended in an error: the same target is called once more; a second
\* error ends the placement.
CallError(r) ==
    /\ IF tries[r] = 1
       THEN /\ tries' = [tries EXCEPT ![r] = 2]
            /\ HGoto(<<r, target[r], 2>>, "cordon")
            /\ excused' = IF hpc[<<r, target[r], 1>>] = "ended" THEN excused ELSE excused \cup {r}
            /\ UNCHANGED ppc
       ELSE PGoto(r, "failed") /\ UNCHANGED <<tries, hpc, excused>>
    /\ UNCHANGED result

\* The client gets the handler's answer, or an error instead: because the
\* answer is lost or, with MidCallErrors, at any moment of the call.
Wait(r) ==
    LET c == <<r, target[r], tries[r]>> IN
    /\ ppc[r] = "wait"
    /\ \/ /\ hpc[c] = "ended" /\ answer[c] \in Sandboxes
          /\ result' = [result EXCEPT ![r] = answer[c]]
          /\ PGoto(r, "done")
          /\ UNCHANGED <<tries, hpc, excused>>
       \/ /\ hpc[c] = "ended" /\ answer[c] = Nack
          /\ PGoto(r, "pick")
          /\ UNCHANGED <<tries, hpc, result, excused>>
       \/ (MidCallErrors \/ hpc[c] = "ended") /\ CallError(r)
    /\ UNCHANGED <<left, target, answer, dedup, made, cordoned, restarts>>

-----------------------------------------------------------------------------
(***************************************************************************)
(* InternalService.Provision at the target.                                *)
(***************************************************************************)
Answer(c, a) ==
    /\ answer' = [answer EXCEPT ![c] = a]
    /\ HGoto(c, "ended")

Remembered(n, r) == {dedup[n][i][2] : i \in {j \in DOMAIN dedup[n] : dedup[n][j][1] = r}}

\* The cordon is looked at first.
CheckCordon(c) ==
    /\ hpc[c] = "cordon"
    /\ \/ /\ c[2] \in cordoned /\ Answer(c, Nack)
          /\ excused' = IF \E s \in On(c[2]) : s[1] = c[1] THEN excused \cup {c[1]} ELSE excused
       \/ c[2] \notin cordoned /\ HGoto(c, "dedup") /\ UNCHANGED <<answer, excused>>
    /\ UNCHANGED <<coordinator, dedup, made, cordoned, restarts>>

\* dedup.get: a request that was served before gets its sandbox.
DedupGet(c) ==
    LET known == Remembered(c[2], c[1]) IN
    /\ hpc[c] = "dedup"
    /\ \/ \E s \in known : Answer(c, s)
       \/ known = {} /\ HGoto(c, "create") /\ UNCHANGED answer
    /\ UNCHANGED <<coordinator, dedup, made, cordoned, restarts, excused>>

\* ProvisionLocal: created, refused for lack of room, or failed.
ProvisionLocal(c) ==
    LET n == c[2] IN
    /\ hpc[c] = "create"
    /\ \/ /\ HasRoom(n)
          /\ made' = made \cup {c}
          /\ answer' = [answer EXCEPT ![c] = c]
          /\ HGoto(c, "put")
       \/ ~HasRoom(n) /\ Answer(c, Nack) /\ UNCHANGED made
       \/ Answer(c, Failure) /\ UNCHANGED made
    /\ UNCHANGED <<coordinator, dedup, cordoned, restarts, excused>>

\* Mutant: the request is not remembered.
DedupPutForgotten(c) ==
    /\ hpc[c] = "put"
    /\ HGoto(c, "ended")
    /\ UNCHANGED <<coordinator, answer, dedup, made, cordoned, restarts, excused>>

\* The cache without r's entry: put overwrites it in the map.
Without(entries, r) ==
    LET at == {i \in DOMAIN entries : entries[i][1] = r} IN
    IF at = {} THEN entries
    ELSE LET i == CHOOSE j \in at : TRUE IN
         SubSeq(entries, 1, i - 1) \o SubSeq(entries, i + 1, Len(entries))

\* dedup.put: the oldest entry makes place when the cache is full.
DedupPut(c) ==
    LET n == c[2]
        kept == IF Len(dedup[n]) >= DedupMax THEN Tail(dedup[n]) ELSE dedup[n] IN
    /\ hpc[c] = "put"
    /\ dedup' = [dedup EXCEPT ![n] = Append(Without(kept, c[1]), <<c[1], answer[c]>>)]
    /\ excused' = IF kept = dedup[n] THEN excused ELSE excused \cup {Head(dedup[n])[1]}
    /\ HGoto(c, "ended")
    /\ UNCHANGED <<coordinator, answer, made, cordoned, restarts>>

-----------------------------------------------------------------------------
Cordon(n) ==
    /\ MayCordon /\ n \notin cordoned
    /\ cordoned' = cordoned \cup {n}
    /\ UNCHANGED <<coordinator, handler, dedup, made, restarts, excused>>

\* The oldest entry outlives its time; get and put sweep it.
Expire(n) ==
    /\ MayExpire /\ dedup[n] # <<>>
    /\ dedup' = [dedup EXCEPT ![n] = Tail(@)]
    /\ excused' = excused \cup {Head(dedup[n])[1]}
    /\ UNCHANGED <<coordinator, handler, made, cordoned, restarts>>

\* A node dies: the calls to it end without an answer, its cache is gone, and
\* the placements it coordinates end with it.
Restart(n) ==
    /\ restarts < MaxRestarts /\ restarts' = restarts + 1
    /\ dedup' = [dedup EXCEPT ![n] = <<>>]
    /\ excused' = excused \cup {s[1] : s \in On(n)}
    /\ hpc' = [c \in Calls |-> IF c[2] = n /\ hpc[c] # "none" THEN "ended" ELSE hpc[c]]
    /\ answer' = [c \in Calls |-> IF c[2] = n /\ hpc[c] # "none" THEN Failure ELSE answer[c]]
    /\ ppc' = [r \in Requests |-> IF Entry[r] = n /\ ppc[r] # "done" THEN "failed" ELSE ppc[r]]
    /\ UNCHANGED <<left, target, tries, result, made, cordoned>>

PlaceStep(r) == Schedule(r) \/ Attempt(r) \/ AttemptLocal(r) \/ Dial(r) \/ Wait(r)
HandlerStep(c) == CheckCordon(c) \/ DedupGet(c) \/ ProvisionLocal(c) \/ DedupPut(c)

Next ==
    \/ \E r \in Requests : PlaceStep(r)
    \/ \E c \in Calls : HandlerStep(c)
    \/ \E n \in Nodes : Cordon(n) \/ Expire(n) \/ Restart(n)

Spec == Init /\ [][Next]_vars

-----------------------------------------------------------------------------
\* Type invariant.
PlacementTypeOK ==
    /\ ppc \in [Requests -> {"new", "pick", "local", "dial", "wait", "done", "failed"}]
    /\ left \in [Requests -> SUBSET Nodes]
    /\ target \in [Requests -> Nodes \cup {None}]
    /\ tries \in [Requests -> 0 .. 2]
    /\ result \in [Requests -> Sandboxes \cup {None}]
    /\ hpc \in [Calls -> {"none", "cordon", "dedup", "create", "put", "ended"}]
    /\ answer \in [Calls -> Sandboxes \cup {Nack, Failure, None}]
    /\ made \subseteq Sandboxes
    /\ \A n \in Nodes : Len(dedup[n]) <= DedupMax
    /\ cordoned \subseteq Nodes /\ restarts \in 0 .. MaxRestarts
    /\ excused \subseteq Requests

MadeFor(r) == {s \in made : s[1] = r}

\* A call whose answer is lost and its retry make one sandbox in the whole
\* swarm.  Two can come only of a retry sent while the first call is still
\* served, or of a target that by then has restarted, is cordoned, or has
\* dropped the request from its cache.
OneUnlessExcused == \A r \in Requests \ excused : Cardinality(MadeFor(r)) <= 1

\* However calls are lost and repeated, a request makes at most one sandbox
\* in the whole swarm.
OneSandboxPerRequest == \A r \in Requests : Cardinality(MadeFor(r)) <= 1

=============================================================================
