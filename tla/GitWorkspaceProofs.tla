------------------------- MODULE GitWorkspaceProofs -------------------------
(***************************************************************************)
(* OneDeliverable, BaseIsReady, DeliversOwn and CloneIsUpstream of         *)
(* GitWorkspace, for any number of goroutines, sandboxes, branches,        *)
(* requests and commits, with failing commands and crashes.                *)
(*                                                                         *)
(* Three things make them inductive.  The holder of Workspace.mu works on    *)
(* the base it fetched: LockAt ties the lock to the steps of its section,  *)
(* and HeldAt says that the base still has what was fetched, as no other   *)
(* goroutine can write it meanwhile.  PreAt is the weaker fact about a     *)
(* review between FetchRef and PreLock, where nothing holds the lock.      *)
(* Behind says that a branch of the base which no bundle overwrote is a    *)
(* prefix of the upstream's, as the upstream only grows.  And              *)
(* TrailInv follows the review's Change-Id through the base, the clones,   *)
(* the bundles, upstream and the changes: it is on every copy of the       *)
(* review's branch, and on the default branch only once the change is      *)
(* merged, so existingChangeID finds it whenever the work is squashed.     *)
(***************************************************************************)
EXTENDS GitWorkspace, WellFoundedInduction, TLAPS

\* Most leaves are first-order; those that need more name SMTT.
\* The times are generous, so that no proof depends on how busy a machine is.
USE ZenonT(60)

Labels == {"idle", "ensure", "clone", "detach", "resolve", "fetchref", "pre", "create",
           "head", "bundle", "fetch", "push", "list", "open"}

Calls == [kind : {"none", "provision", "publish", "work"}, box : Boxes \cup {None}, review : BOOLEAN,
          branch : Branches \cup {None}, strategy : Strategies \cup {None}, target : {Main, None},
          todo : SUBSET Branches, refs : Refs, patchset : Hist \cup {None}, stolen : BOOLEAN]

TypeInv ==
    /\ pc \in [Procs -> Labels] /\ call \in [Procs -> Calls] /\ mu \in Procs \cup {None}
    /\ made \in {"absent", "attached", "ready"} /\ cut \in BOOLEAN
    /\ base \in Refs /\ up \in Refs /\ changes \in [ChangeIds -> Hist \cup {None}]
    /\ prs \in [Branches -> Nat] /\ box \in [Boxes -> Clones \cup {None}]

\* The steps at which a goroutine has the workspace's lock.
Holding == {"clone", "detach", "create", "push", "list", "open"}

LockAt(p) == pc[p] \in Holding <=> mu = p

\* What a request has with it on its way to the base.
CallAt(p) ==
    /\ pc[p] # "idle" => call[p].box \in Boxes
    /\ pc[p] \in {"ensure", "clone", "detach"} =>
          /\ call[p].patchset = None
          /\ IF call[p].kind = "work" THEN box[call[p].box] # None ELSE call[p].branch \in Branches
    /\ pc[p] = "resolve" => call[p].patchset = None
    /\ pc[p] \in {"resolve", "fetchref", "pre", "create"} => call[p].branch \in Branches
    /\ pc[p] \in {"head", "bundle"} => box[call[p].box] # None
    /\ pc[p] = "head" => call[p].patchset = None
    /\ pc[p] \in {"fetch", "push", "list", "open"} => \A br \in call[p].todo : call[p].refs[br] # None

\* A review's patchset stays in the base from FetchRef to PreLock, unless it is
\* overwritten.
PreAt(p) ==
    pc[p] = "pre" /\ call[p].patchset # None =>
        base[Review] = call[p].patchset \/ call[p].stolen \/ up[Review] # None

\* The base a holder of the lock works on is the one it fetched.
HeldAt(p) ==
    /\ pc[p] = "create" =>
          /\ \A br \in Branches : call[p].refs[br] # None => base[br] = call[p].refs[br]
          /\ call[p].patchset # None =>
                base[Review] = call[p].patchset \/ call[p].stolen \/ call[p].refs[Review] # None
    /\ pc[p] \in {"push", "list", "open"} =>
          /\ call[p].branch \in Branches /\ call[p].refs[call[p].branch] # None
          /\ base[call[p].branch] = call[p].refs[call[p].branch]
    /\ pc[p] = "open" => prs[call[p].branch] = 0

PrInv == \A br \in Branches : prs[br] <= 1

-----------------------------------------------------------------------------
\* The trailers of the branches: a branch has no Change-Id but the review's
\* change's; the review's branch has that one; Main has it once it is merged.
Has(h) == \E i \in DOMAIN h : h[i].id = Change

Merged(h) == h # None /\ Has(h)

\* h as the commits of a branch br, while main is upstream's Main.
RefOK(br, h, main) ==
    h # None =>
        /\ \A i \in DOMAIN h : h[i].id \in {None, Change}
        /\ br = Review => Has(h)
        /\ br = Main /\ Has(h) => Merged(main)

RefsOK(refs, main) == \A br \in Branches : RefOK(br, refs[br], main)

TrailAt(p) == RefsOK(call[p].refs, up[Main]) /\ RefOK(Review, call[p].patchset, up[Main])

BoxAt(b) == box[b] # None => RefsOK(box[b].refs, up[Main])

ChangesInv == RefOK(Review, changes[Change], up[Main]) /\ (changes[Review] # None => Merged(up[Main]))

TrailInv ==
    /\ RefsOK(base, up[Main]) /\ RefsOK(up, up[Main]) /\ ChangesInv
    /\ \A p \in Procs : TrailAt(p)
    /\ \A b \in Boxes : BoxAt(b)

OwnAt(p) == LockAt(p) /\ CallAt(p) /\ PreAt(p) /\ HeldAt(p)

ProcInv == \A p \in Procs : OwnAt(p)

GitInv == TypeInv /\ ProcInv /\ PrInv /\ BaseIsReady /\ TrailInv

-----------------------------------------------------------------------------
\* What the goroutines but p see of a step of p: they stay where they are, one
\* may find its patchset stolen, and the lock is p's or is left alone.
SameCall(q) ==
    /\ call'[q].kind = call[q].kind /\ call'[q].box = call[q].box /\ call'[q].branch = call[q].branch
    /\ call'[q].todo = call[q].todo /\ call'[q].refs = call[q].refs /\ call'[q].patchset = call[q].patchset
    /\ call[q].stolen => call'[q].stolen

Moves(p) ==
    /\ pc' \in [Procs -> Labels] /\ call' \in [Procs -> Calls] /\ mu' \in Procs \cup {None}
    /\ \A q \in Procs \ {p} : pc'[q] = pc[q] /\ SameCall(q)
    /\ mu' = mu \/ {mu, mu'} \subseteq {None, p}

-----------------------------------------------------------------------------
(***************************************************************************)
(* Commits, branches and records                                           *)
(***************************************************************************)
\* None is neither a branch nor the place of a goroutine.
LEMMA NoneFacts ==
    /\ None \notin Hist /\ None \notin Clones /\ None \notin Procs /\ None \notin Boxes /\ None \notin ChangeIds
    /\ Main \in Branches /\ Review \in Branches /\ Main # Review
    /\ Change # Review /\ Change \in ChangeIds /\ Review \in ChangeIds /\ Branches \subseteq ChangeIds
    /\ Main \notin Features /\ Review \notin Features /\ Features \subseteq Branches
<1>1. Main # Review /\ {Main, Review} \cap Features = {} /\ Change \notin Branches
  BY GitAssumption
<1>2. None \notin Procs \cup Boxes \cup ChangeIds \cup Hist \cup Clones
  BY GitAssumption
<1> QED BY <1>1, <1>2 DEF Branches, ChangeIds

\* A branch with another commit on it is a branch.
LEMMA Appended ==
    ASSUME NEW h \in Seq(Commits), NEW c \in Commits
    PROVE  /\ Append(h, c) \in Hist /\ IsPrefix(h, Append(h, c))
           /\ DOMAIN Append(h, c) = DOMAIN h \cup {Len(h) + 1}
           /\ \A i \in DOMAIN h : Append(h, c)[i] = h[i]
           /\ Append(h, c)[Len(h) + 1] = c /\ Last(Append(h, c)) = c
<1>1. Append(h, c) \in Seq(Commits) /\ Len(Append(h, c)) = Len(h) + 1 /\ Len(h) \in Nat
  BY SMTT(60)
<1>2. Append(h, c) # <<>>
  BY SMTT(60), <1>1
<1>3. IsPrefix(h, Append(h, c))
  BY SMTT(60), <1>1 DEF IsPrefix
<1>4. DOMAIN Append(h, c) = DOMAIN h \cup {Len(h) + 1}
  BY SMTT(60), <1>1
<1>5. \A i \in DOMAIN h : Append(h, c)[i] = h[i]
  BY SMTT(60)
<1>6. Append(h, c)[Len(h) + 1] = c
  BY SMTT(60)
<1>7. Last(Append(h, c)) = c
  BY <1>1, <1>6 DEF Last
<1> QED BY <1>1, <1>2, <1>3, <1>4, <1>5, <1>6, <1>7 DEF Hist

\* A branch is a fast-forward of itself.
LEMMA PrefixOfItself ==
    ASSUME NEW h \in Seq(Commits)
    PROVE  IsPrefix(h, h)
BY SMTT(60) DEF IsPrefix

\* A commit is a commit.
LEMMA CommitIs ==
    ASSUME NEW author \in Boxes \cup {Upstream}, NEW id \in ChangeIds \cup {None}
    PROVE  Commit(author, id) \in Commits /\ Commit(author, id).by = author /\ Commit(author, id).id = id
BY DEF Commit, Commits

\* A prefix that has the change's trailer has it in the longer branch, too.
LEMMA PrefixHas ==
    ASSUME NEW g \in Seq(Commits), NEW h \in Seq(Commits), IsPrefix(g, h), Has(g)
    PROVE  Has(h)
<1>1. PICK i \in DOMAIN g : g[i].id = Change
  BY DEF Has
<1>2. Len(g) <= Len(h) /\ SubSeq(h, 1, Len(g)) = g /\ Len(g) \in Nat /\ Len(h) \in Nat
  BY SMTT(60) DEF IsPrefix
<1>3. i \in 1 .. Len(g) /\ i \in DOMAIN h
  BY SMTT(60), <1>2
<1>4. SubSeq(h, 1, Len(g))[i] = h[i]
  BY SMTT(60), <1>2, <1>3
<1>5. h[i] = g[i]
  BY <1>2, <1>4
<1> QED BY <1>1, <1>3, <1>5 DEF Has

\* What is merged upstream makes every branch as sound as before.
LEMMA RefGrows ==
    ASSUME NEW br, NEW h, NEW m, NEW n, RefOK(br, h, m), Merged(m) => Merged(n)
    PROVE  RefOK(br, h, n)
BY DEF RefOK

\* The same for all the branches of a repository.
LEMMA RefsGrow ==
    ASSUME NEW refs, NEW m, NEW n, RefsOK(refs, m), Merged(m) => Merged(n)
    PROVE  RefsOK(refs, n)
BY RefGrows DEF RefsOK

\* A commit without a trailer keeps a branch sound.
LEMMA RefAppended ==
    ASSUME NEW br, NEW h \in Hist, NEW m, RefOK(br, h, m), NEW author \in Boxes \cup {Upstream}
    PROVE  RefOK(br, Append(h, Commit(author, None)), m)
<1> DEFINE c == Commit(author, None)
<1>1. c \in Commits /\ c.id = None
  BY CommitIs
<1>2. h \in Seq(Commits) /\ h # None
  BY NoneFacts DEF Hist
<1> HIDE DEF c
<1>3. /\ DOMAIN Append(h, c) = DOMAIN h \cup {Len(h) + 1}
      /\ \A i \in DOMAIN h : Append(h, c)[i] = h[i]
      /\ Append(h, c)[Len(h) + 1] = c
  BY <1>1, <1>2, Appended
<1>4. None # Change
  BY NoneFacts
<1>5. Has(Append(h, c)) <=> Has(h)
  BY <1>1, <1>3, <1>4 DEF Has
<1>6. \A i \in DOMAIN Append(h, c) : Append(h, c)[i].id \in {None, Change}
  BY <1>1, <1>2, <1>3 DEF RefOK
<1>7. RefOK(br, Append(h, c), m)
  BY <1>2, <1>5, <1>6 DEF RefOK
<1> QED BY <1>7 DEF c

\* The variables of a handler that returned.
LEMMA IdleIs ==
    /\ Idle \in Calls /\ Idle.patchset = None
    /\ \A br \in Branches : Idle.refs[br] = None
<1>1. NoRefs \in Refs /\ \A br \in Branches : NoRefs[br] = None
  BY DEF NoRefs, Refs
<1>2. Idle.refs = NoRefs /\ Idle.patchset = None
  BY DEF Idle
<1>3. Idle \in Calls
  BY <1>1 DEF Idle, Calls
<1> QED BY <1>1, <1>2, <1>3

-----------------------------------------------------------------------------
(***************************************************************************)
(* Steps of one goroutine                                                  *)
(***************************************************************************)
\* Others have the lock as before.
LEMMA OthersLock ==
    ASSUME TypeInv, ProcInv, NEW p \in Procs, Moves(p), NEW q \in Procs, q # p
    PROVE  LockAt(q)'
<1>1. LockAt(q) /\ pc'[q] = pc[q] /\ (mu' = mu \/ {mu, mu'} \subseteq {None, p}) /\ q # None
  BY NoneFacts DEF ProcInv, OwnAt, Moves
<1> QED BY <1>1 DEF LockAt

\* Their requests are as they were, as no sandbox goes.
LEMMA OthersCall ==
    ASSUME ProcInv, NEW p \in Procs, Moves(p), NEW q \in Procs, q # p,
           \A b \in Boxes : box[b] # None => box'[b] # None
    PROVE  CallAt(q)'
<1>1. CallAt(q) /\ pc'[q] = pc[q] /\ SameCall(q)
  BY DEF ProcInv, OwnAt, Moves
<1>2. /\ call'[q].kind = call[q].kind /\ call'[q].box = call[q].box /\ call'[q].branch = call[q].branch
      /\ call'[q].todo = call[q].todo /\ call'[q].refs = call[q].refs /\ call'[q].patchset = call[q].patchset
  BY <1>1 DEF SameCall
<1>3. pc[q] # "idle" => (box[call[q].box] # None => box'[call[q].box] # None)
  BY <1>1 DEF CallAt
<1> QED BY <1>1, <1>2, <1>3 DEF CallAt

\* A patchset that waits for PreLock.
LEMMA OthersPre ==
    ASSUME ProcInv, NEW p \in Procs, Moves(p), NEW q \in Procs, q # p,
           up[Review] # None => up'[Review] # None,
           \/ base'[Review] = base[Review]
           \/ call'[q].stolen \/ pc[q] # "pre" \/ call[q].patchset = None
           \/ up'[Review] # None
    PROVE  PreAt(q)'
<1>1. PreAt(q) /\ pc'[q] = pc[q] /\ SameCall(q)
  BY DEF ProcInv, OwnAt, Moves
<1>2. call'[q].patchset = call[q].patchset /\ (call[q].stolen => call'[q].stolen)
  BY <1>1 DEF SameCall
<1> QED BY <1>1, <1>2 DEF PreAt

\* Only a holder of the lock changes the base and opens requests.
LEMMA OthersHeld ==
    ASSUME ProcInv, NEW p \in Procs, Moves(p), NEW q \in Procs, q # p,
           UNCHANGED <<base, prs>> \/ mu \in {None, p}
    PROVE  HeldAt(q)'
<1>1. LockAt(q) /\ HeldAt(q) /\ pc'[q] = pc[q] /\ SameCall(q) /\ q # None
  BY NoneFacts DEF ProcInv, OwnAt, Moves
<1>2. CASE mu \in {None, p}
  <2>1. pc'[q] \notin Holding
    BY <1>1, <1>2 DEF LockAt
  <2> QED BY <2>1 DEF HeldAt, Holding
<1>3. CASE UNCHANGED <<base, prs>>
  <2>1. /\ call'[q].branch = call[q].branch
        /\ call'[q].refs = call[q].refs /\ call'[q].patchset = call[q].patchset
        /\ call[q].stolen => call'[q].stolen
    BY <1>1 DEF SameCall
  <2> QED BY <1>1, <1>3, <2>1 DEF HeldAt
<1> QED BY <1>2, <1>3

\* The goroutine goes to another step with other variables.
LEMMA UpdateMoves ==
    ASSUME TypeInv, NEW p \in Procs, NEW l \in Labels, NEW c \in Calls, Update(p, l, c),
           mu' = mu \/ mu' = p \/ mu' = None, mu' = mu \/ mu = p \/ mu = None
    PROVE  Moves(p) /\ pc'[p] = l /\ call'[p] = c
<1>0. pc \in [Procs -> Labels] /\ call \in [Procs -> Calls] /\ mu \in Procs \cup {None}
  BY DEF TypeInv
<1>1. pc' = [pc EXCEPT ![p] = l] /\ call' = [call EXCEPT ![p] = c]
  BY DEF Update
<1>2. pc' \in [Procs -> Labels] /\ pc'[p] = l /\ \A q \in Procs \ {p} : pc'[q] = pc[q]
  BY <1>0, <1>1
<1>3. call' \in [Procs -> Calls] /\ call'[p] = c /\ \A q \in Procs \ {p} : call'[q] = call[q]
  BY <1>0, <1>1
<1>4. \A q \in Procs \ {p} : SameCall(q)
  BY <1>3 DEF SameCall
<1> QED BY <1>0, <1>2, <1>3, <1>4 DEF Moves

\* The goroutine goes to another step with the same variables.
LEMMA GotoMoves ==
    ASSUME TypeInv, NEW p \in Procs, NEW l \in Labels, Goto(p, l),
           mu' = mu \/ mu' = p \/ mu' = None, mu' = mu \/ mu = p \/ mu = None
    PROVE  Moves(p) /\ pc'[p] = l /\ call'[p] = call[p]
<1>0. pc \in [Procs -> Labels] /\ call \in [Procs -> Calls] /\ mu \in Procs \cup {None}
  BY DEF TypeInv
<1>1. pc' = [pc EXCEPT ![p] = l] /\ call' = call
  BY DEF Goto
<1>2. pc' \in [Procs -> Labels] /\ pc'[p] = l /\ \A q \in Procs \ {p} : pc'[q] = pc[q]
  BY <1>0, <1>1
<1>3. \A q \in Procs \ {p} : SameCall(q)
  BY <1>1 DEF SameCall
<1> QED BY <1>0, <1>1, <1>2, <1>3 DEF Moves

\* A goroutine that is done has nothing to keep.
LEMMA IdleHolds ==
    ASSUME NEW p \in Procs, pc'[p] = "idle", call'[p] = Idle, mu' # p
    PROVE  OwnAt(p)' /\ TrailAt(p)'
<1>1. LockAt(p)'
  BY DEF LockAt, Holding
<1>2. CallAt(p)' /\ PreAt(p)' /\ HeldAt(p)'
  BY DEF CallAt, PreAt, HeldAt
<1>3. TrailAt(p)'
  BY IdleIs DEF TrailAt, RefsOK, RefOK
<1> QED BY <1>1, <1>2, <1>3 DEF OwnAt

\* The handler returns and lets go of the lock if it had it.
LEMMA ReturnOwn ==
    ASSUME TypeInv, NEW p \in Procs, UnlockReturn(p)
    PROVE  Moves(p) /\ OwnAt(p)' /\ TrailAt(p)'
<1>1. Update(p, "idle", Idle) /\ mu' = IF mu = p THEN None ELSE mu
  BY DEF UnlockReturn, Return
<1>2. mu' # p /\ (mu' = mu \/ mu' = None) /\ (mu' = mu \/ mu = p) /\ p # None
  BY <1>1, NoneFacts
<1>3. "idle" \in Labels /\ Idle \in Calls
  BY IdleIs DEF Labels
<1>4. Moves(p) /\ pc'[p] = "idle" /\ call'[p] = Idle
  BY <1>1, <1>2, <1>3, UpdateMoves
<1> QED BY <1>2, <1>4, IdleHolds

\* The handler is done with a branch.
LEMMA DoneOwn ==
    ASSUME TypeInv, ProcInv, TrailInv, NEW p \in Procs, NEW br \in Branches, Done(p, br),
           pc[p] \in {"fetch", "push", "list", "open"}, Merged(up[Main]) => Merged(up'[Main])
    PROVE  Moves(p) /\ OwnAt(p)' /\ TrailAt(p)'
<1> DEFINE rest == [call[p] EXCEPT !.todo = @ \ {br}, !.refs[br] = None]
<1>1. /\ mu' = IF mu = p THEN None ELSE mu
      /\ IF rest.todo # {} THEN Update(p, "fetch", rest) ELSE Update(p, "idle", Idle)
  BY DEF Done, Return
<1>2. mu' # p /\ (mu' = mu \/ mu' = None) /\ (mu' = mu \/ mu = p)
  BY <1>1, NoneFacts
<1>3. CASE Update(p, "idle", Idle)
  <2>1. "idle" \in Labels /\ Idle \in Calls
    BY IdleIs DEF Labels
  <2>2. Moves(p) /\ pc'[p] = "idle" /\ call'[p] = Idle
    BY <1>2, <1>3, <2>1, UpdateMoves
  <2> QED BY <1>2, <2>2, IdleHolds
<1>4. CASE Update(p, "fetch", rest)
  <2>0. call[p] \in Calls /\ CallAt(p) /\ TrailAt(p)
    BY DEF TypeInv, ProcInv, OwnAt, TrailInv
  <2>1. call[p].refs \in Refs /\ call[p].todo \in SUBSET Branches
    BY <2>0 DEF Calls
  <2>2. [call[p].refs EXCEPT ![br] = None] \in Refs
    BY <2>1 DEF Refs
  <2>3. /\ rest \in Calls /\ rest.box = call[p].box /\ rest.patchset = call[p].patchset
        /\ rest.todo = call[p].todo \ {br} /\ rest.refs = [call[p].refs EXCEPT ![br] = None]
    BY <2>0, <2>1, <2>2 DEF Calls
  <2> HIDE DEF rest
  <2>4. Moves(p) /\ pc'[p] = "fetch" /\ call'[p] = rest
    BY <1>2, <1>4, <2>3, UpdateMoves DEF Labels
  <2>5. rest.refs[br] = None /\ \A x \in Branches : x # br => rest.refs[x] = call[p].refs[x]
    BY <2>1, <2>3 DEF Refs
  <2>6. LockAt(p)' /\ PreAt(p)' /\ HeldAt(p)'
    BY <1>2, <2>4 DEF LockAt, PreAt, HeldAt, Holding
  <2>7. CallAt(p)'
    <3>1. call[p].box \in Boxes /\ \A x \in call[p].todo : call[p].refs[x] # None
      BY <2>0 DEF CallAt
    <3>2. \A x \in rest.todo : rest.refs[x] # None
      BY <2>1, <2>3, <2>5, <3>1
    <3> QED BY <2>3, <2>4, <3>1, <3>2 DEF CallAt
  <2>8. TrailAt(p)'
    <3>1. RefsOK(rest.refs, up[Main]) /\ RefOK(Review, rest.patchset, up[Main])
      BY <2>0, <2>3, <2>5 DEF TrailAt, RefsOK, RefOK
    <3>2. RefsOK(rest.refs, up'[Main]) /\ RefOK(Review, rest.patchset, up'[Main])
      BY <3>1, RefsGrow, RefGrows
    <3> QED BY <2>4, <3>2 DEF TrailAt
  <2> QED BY <2>4, <2>6, <2>7, <2>8 DEF OwnAt
<1> QED BY <1>1, <1>3, <1>4

\* A step of p, put together.
LEMMA StepKeeps ==
    ASSUME GitInv, NEW p \in Procs, Moves(p), OwnAt(p)', TrailAt(p)',
           made' \in {"absent", "attached", "ready"}, cut' \in BOOLEAN, base' \in Refs, up' \in Refs,
           changes' \in [ChangeIds -> Hist \cup {None}], prs' \in [Branches -> Nat],
           box' \in [Boxes -> Clones \cup {None}],
           \A b \in Boxes : box[b] # None => box'[b] # None,
           UNCHANGED <<base, prs>> \/ mu \in {None, p},
           up[Review] # None => up'[Review] # None,
           \A q \in Procs \ {p} : \/ base'[Review] = base[Review]
                                  \/ call'[q].stolen \/ pc[q] # "pre" \/ call[q].patchset = None
                                  \/ up'[Review] # None,
           PrInv', BaseIsReady', Merged(up[Main]) => Merged(up'[Main]),
           RefsOK(base', up'[Main]), RefsOK(up', up'[Main]), ChangesInv', \A b \in Boxes : BoxAt(b)'
    PROVE  GitInv'
<1>0. TypeInv /\ ProcInv /\ TrailInv
  BY DEF GitInv
<1>1. TypeInv'
  BY DEF TypeInv, Moves
<1>2. ASSUME NEW q \in Procs, q # p PROVE OwnAt(q)' /\ TrailAt(q)'
  <2>1. LockAt(q)' /\ CallAt(q)'
    BY <1>0, <1>2, OthersLock, OthersCall
  <2>2. PreAt(q)' /\ HeldAt(q)'
    BY <1>0, <1>2, OthersPre, OthersHeld
  <2>3. TrailAt(q)'
    <3>1. RefsOK(call[q].refs, up[Main]) /\ RefOK(Review, call[q].patchset, up[Main])
      BY <1>0 DEF TrailInv, TrailAt
    <3>2. call'[q].refs = call[q].refs /\ call'[q].patchset = call[q].patchset
      BY <1>2 DEF Moves, SameCall
    <3> QED BY <3>1, <3>2, RefsGrow, RefGrows DEF TrailAt
  <2> QED BY <2>1, <2>2, <2>3 DEF OwnAt
<1>3. ProcInv' /\ \A q \in Procs : TrailAt(q)'
  BY <1>2 DEF ProcInv
<1>4. TrailInv'
  BY <1>3 DEF TrailInv
<1> QED BY <1>1, <1>3, <1>4 DEF GitInv

\* BaseIsReady stays with a step that leaves a base that is attached alone.
LEMMA ReadyStays ==
    ASSUME TypeInv, BaseIsReady, NEW p \in Procs, Moves(p), pc[p] # "detach", UNCHANGED <<made, cut>>,
           base'[Main] = base[Main] \/ made # "attached"
    PROVE  BaseIsReady'
<1>1. CASE made # "attached" \/ cut \/ base[Main] = None
  BY <1>1 DEF BaseIsReady
<1>2. CASE mu # None /\ pc[mu] = "detach"
  <2>1. mu \in Procs \ {p}
    BY <1>2 DEF TypeInv
  <2>2. mu' = mu /\ pc'[mu] = pc[mu]
    BY <1>2, <2>1 DEF Moves
  <2> QED BY <1>2, <2>2 DEF BaseIsReady
<1> QED BY <1>1, <1>2 DEF BaseIsReady

\* A step of p that changes nothing but what p has.
LEMMA LocalKeeps ==
    ASSUME GitInv, NEW p \in Procs, pc[p] # "detach", Moves(p), OwnAt(p)', TrailAt(p)',
           UNCHANGED <<made, cut, base, up, changes, prs, box>>
    PROVE  GitInv'
<1>0. TypeInv /\ ProcInv /\ TrailInv /\ PrInv /\ BaseIsReady
  BY DEF GitInv
<1>1. /\ made \in {"absent", "attached", "ready"} /\ cut \in BOOLEAN /\ base \in Refs /\ up \in Refs
      /\ changes \in [ChangeIds -> Hist \cup {None}] /\ prs \in [Branches -> Nat]
      /\ box \in [Boxes -> Clones \cup {None}]
  BY <1>0 DEF TypeInv
<1>2. PrInv' /\ BaseIsReady'
  BY <1>0, ReadyStays DEF PrInv
<1>3. /\ RefsOK(base, up[Main]) /\ RefsOK(up, up[Main]) /\ ChangesInv' /\ \A b \in Boxes : BoxAt(b)'
  BY <1>0 DEF TrailInv, ChangesInv, BoxAt
<1> QED BY <1>1, <1>2, <1>3, StepKeeps

\* What a goroutine has with it keeps its trailers.
LEMMA SameTrail ==
    ASSUME TrailInv, NEW p \in Procs, Merged(up[Main]) => Merged(up'[Main]),
           call'[p].refs = call[p].refs, call'[p].patchset = call[p].patchset
    PROVE  TrailAt(p)'
<1>1. RefsOK(call[p].refs, up[Main]) /\ RefOK(Review, call[p].patchset, up[Main])
  BY DEF TrailInv, TrailAt
<1> QED BY <1>1, RefsGrow, RefGrows DEF TrailAt

\* The types of what a request carries.
LEMMA CallFacts ==
    ASSUME NEW c \in Calls
    PROVE  /\ c.refs \in Refs /\ c.todo \in SUBSET Branches /\ c.patchset \in Hist \cup {None}
           /\ c.target \in {Main, None} /\ c.stolen \in BOOLEAN /\ c.box \in Boxes \cup {None}
           /\ c.branch \in Branches \cup {None}
BY DEF Calls

-----------------------------------------------------------------------------
(***************************************************************************)
(* EnsureBase                                                              *)
(***************************************************************************)
\* EnsureBase returns to the handler.
LEMMA EnsuredOwn ==
    ASSUME TypeInv, ProcInv, TrailInv, NEW p \in Procs, pc[p] \in {"ensure", "detach"},
           Goto(p, AfterEnsure(call[p])), mu' # p, UNCHANGED <<box, up>>,
           mu' = mu \/ mu' = None, mu' = mu \/ mu = p
    PROVE  Moves(p) /\ OwnAt(p)' /\ TrailAt(p)'
<1>0. CallAt(p)
  BY DEF ProcInv, OwnAt
<1>1. AfterEnsure(call[p]) \in {"bundle", "resolve", "pre"}
  BY DEF AfterEnsure
<1>2. Moves(p) /\ pc'[p] = AfterEnsure(call[p]) /\ call'[p] = call[p]
  BY <1>1, GotoMoves DEF Labels
<1>3. LockAt(p)' /\ HeldAt(p)'
  BY <1>1, <1>2 DEF LockAt, HeldAt, Holding
<1>4. PreAt(p)'
  BY <1>0, <1>2 DEF PreAt, CallAt
<1>5. CallAt(p)'
  <2>1. /\ call[p].box \in Boxes /\ call[p].patchset = None
        /\ call[p].kind = "work" => box[call[p].box] # None
        /\ call[p].kind # "work" => call[p].branch \in Branches
    BY <1>0 DEF CallAt
  <2>2. CASE call[p].kind = "work"
    <3>1. pc'[p] = "bundle"
      BY <1>2, <2>2 DEF AfterEnsure
    <3> QED BY <1>2, <2>1, <2>2, <3>1 DEF CallAt
  <2>3. CASE call[p].kind # "work"
    <3>1. pc'[p] \in {"resolve", "pre"}
      BY <1>2, <2>3 DEF AfterEnsure
    <3> QED BY <1>2, <2>1, <2>3, <3>1 DEF CallAt
  <2> QED BY <2>2, <2>3
<1>6. TrailAt(p)'
  BY <1>2, SameTrail
<1> QED BY <1>2, <1>3, <1>4, <1>5, <1>6 DEF OwnAt

\* EnsureBase takes the base as it is, or makes one.
LEMMA EnsureBaseKeeps ==
    ASSUME GitInv, NEW p \in Procs, EnsureBase(p)
    PROVE  GitInv'
<1>0. TypeInv /\ ProcInv /\ TrailInv /\ CallAt(p)
  BY DEF GitInv, ProcInv, OwnAt
<1>1. /\ pc[p] = "ensure" /\ mu = None /\ UNCHANGED <<made, cut, base, up, changes, prs, box>>
      /\ IF made = "absent" THEN mu' = p /\ Goto(p, "clone")
                            ELSE Goto(p, AfterEnsure(call[p])) /\ UNCHANGED mu
  BY DEF EnsureBase, disk, remote, node
<1>2. CASE made = "absent"
  <2>1. Moves(p) /\ pc'[p] = "clone" /\ call'[p] = call[p] /\ mu' = p
    BY <1>0, <1>1, <1>2, GotoMoves DEF Labels
  <2>2. LockAt(p)' /\ PreAt(p)' /\ HeldAt(p)'
    BY <2>1 DEF LockAt, PreAt, HeldAt, Holding
  <2>3. CallAt(p)'
    BY <1>0, <1>1, <2>1 DEF CallAt
  <2>4. TrailAt(p)'
    BY <1>0, <1>1, <2>1, SameTrail
  <2>5. OwnAt(p)'
    BY <2>2, <2>3 DEF OwnAt
  <2> QED BY <1>1, <2>1, <2>4, <2>5, LocalKeeps
<1>3. CASE made # "absent"
  <2>1. mu' # p /\ mu' = mu /\ Goto(p, AfterEnsure(call[p]))
    BY <1>1, <1>3, NoneFacts
  <2>2. Moves(p) /\ OwnAt(p)' /\ TrailAt(p)'
    BY <1>0, <1>1, <2>1, EnsuredOwn
  <2> QED BY <1>1, <2>2, LocalKeeps
<1> QED BY <1>2, <1>3

\* A step of p that changes the base alone, or how it was made.
LEMMA BaseKeeps ==
    ASSUME GitInv, NEW p \in Procs, mu \in {None, p}, Moves(p), OwnAt(p)', TrailAt(p)',
           UNCHANGED <<up, changes, prs, box>>,
           made' \in {"absent", "attached", "ready"}, cut' \in BOOLEAN,
           base' \in Refs, RefsOK(base', up[Main]), BaseIsReady',
           \A q \in Procs \ {p} : \/ base'[Review] = base[Review]
                                  \/ call'[q].stolen \/ pc[q] # "pre" \/ call[q].patchset = None
                                  \/ up[Review] # None
    PROVE  GitInv'
<1>0. TypeInv /\ TrailInv /\ PrInv
  BY DEF GitInv
<1>1. /\ up \in Refs /\ changes \in [ChangeIds -> Hist \cup {None}] /\ prs \in [Branches -> Nat]
      /\ box \in [Boxes -> Clones \cup {None}]
  BY <1>0 DEF TypeInv
<1>2. PrInv' /\ RefsOK(up, up[Main]) /\ ChangesInv' /\ \A b \in Boxes : BoxAt(b)'
  BY <1>0 DEF PrInv, TrailInv, ChangesInv, BoxAt
<1> QED BY <1>1, <1>2, StepKeeps

\* git clone.
LEMMA CloneBaseKeeps ==
    ASSUME GitInv, NEW p \in Procs, CloneBase(p)
    PROVE  GitInv'
<1>0. TypeInv /\ ProcInv /\ TrailInv /\ BaseIsReady /\ CallAt(p) /\ LockAt(p)
  BY DEF GitInv, ProcInv, OwnAt
<1>1. pc[p] = "clone" /\ UNCHANGED <<up, changes, prs, box>> /\ mu = p
  BY <1>0 DEF CloneBase, remote, LockAt, Holding
<1>2. base \in Refs /\ up \in Refs /\ cut \in BOOLEAN /\ RefsOK(base, up[Main]) /\ RefsOK(up, up[Main])
  BY <1>0 DEF TypeInv, TrailInv
<1>3. CASE made' = "attached" /\ base' = [base EXCEPT ![Main] = up[Main]] /\ Goto(p, "detach") /\ UNCHANGED <<mu, cut>>
  <2>1. Moves(p) /\ pc'[p] = "detach" /\ call'[p] = call[p] /\ mu' = p
    BY <1>0, <1>1, <1>3, GotoMoves DEF Labels
  <2>2. LockAt(p)' /\ PreAt(p)' /\ HeldAt(p)'
    BY <2>1 DEF LockAt, PreAt, HeldAt, Holding
  <2>3. CallAt(p)'
    BY <1>0, <1>1, <2>1 DEF CallAt
  <2>4. TrailAt(p)'
    BY <1>0, <1>1, <2>1, SameTrail
  <2>5. OwnAt(p)'
    BY <2>2, <2>3 DEF OwnAt
  <2>6. base' \in Refs /\ base'[Main] = up[Main] /\ \A br \in Branches : br # Main => base'[br] = base[br]
    BY <1>2, <1>3, NoneFacts DEF Refs
  <2>7. RefsOK(base', up[Main])
    BY <1>2, <2>6 DEF RefsOK
  <2>8. BaseIsReady'
    BY <2>1, NoneFacts DEF BaseIsReady
  <2>9. base'[Review] = base[Review]
    BY <2>6, NoneFacts
  <2> QED BY <1>1, <1>2, <1>3, <2>1, <2>4, <2>5, <2>6, <2>7, <2>8, <2>9, BaseKeeps
<1>4. CASE UnlockReturn(p) /\ UNCHANGED <<made, base, cut>>
  <2>1. Moves(p) /\ OwnAt(p)' /\ TrailAt(p)'
    BY <1>0, <1>4, ReturnOwn
  <2> QED BY <1>1, <1>4, <2>1, LocalKeeps
<1>5. CASE UnlockReturn(p) /\ made' = "attached" /\ cut' = TRUE /\ UNCHANGED base
  <2>1. Moves(p) /\ OwnAt(p)' /\ TrailAt(p)'
    BY <1>0, <1>5, ReturnOwn
  <2>2. BaseIsReady'
    BY <1>5 DEF BaseIsReady
  <2> QED BY <1>1, <1>2, <1>5, <2>1, <2>2, BaseKeeps
<1> QED BY <1>3, <1>4, <1>5 DEF CloneBase, Fail, disk

\* git checkout --detach.
LEMMA DetachKeeps ==
    ASSUME GitInv, NEW p \in Procs, Detach(p)
    PROVE  GitInv'
<1>0. TypeInv /\ ProcInv /\ TrailInv /\ BaseIsReady /\ CallAt(p) /\ LockAt(p)
  BY DEF GitInv, ProcInv, OwnAt
<1>1. pc[p] = "detach" /\ UNCHANGED <<base, up, changes, prs, box>> /\ mu = p
  BY <1>0 DEF Detach, remote, LockAt, Holding
<1>2. /\ base \in Refs /\ cut \in BOOLEAN /\ RefsOK(base, up[Main])
      /\ made \in {"absent", "attached", "ready"}
  BY <1>0 DEF TypeInv, TrailInv
<1>3. /\ UnlockReturn(p) \/ (mu' = None /\ Goto(p, AfterEnsure(call[p])))
      /\ made' \in {"absent", "attached", "ready"} /\ cut' \in BOOLEAN
      /\ made' = "ready" \/ base[Main] = None \/ cut'
  BY <1>2 DEF Detach, Fail
<1>4. Moves(p) /\ OwnAt(p)' /\ TrailAt(p)'
  <2>1. CASE UnlockReturn(p)
    BY <1>0, <2>1, ReturnOwn
  <2>2. CASE mu' = None /\ Goto(p, AfterEnsure(call[p]))
    BY <1>0, <1>1, <2>2, EnsuredOwn, NoneFacts
  <2> QED BY <1>3, <2>1, <2>2
<1>5. BaseIsReady'
  BY <1>1, <1>3 DEF BaseIsReady
<1> QED BY <1>1, <1>2, <1>3, <1>4, <1>5, BaseKeeps

-----------------------------------------------------------------------------
(***************************************************************************)
(* ProvisionLocal                                                          *)
(***************************************************************************)
\* A goroutine that has no lock and no base yet, with a fresh request.
LEMMA FreshOwn ==
    ASSUME TypeInv, ProcInv, NEW p \in Procs, NEW l \in {"ensure", "head"}, NEW c \in Calls,
           Update(p, l, c), pc[p] = "idle", UNCHANGED <<mu, box>>,
           c.box \in Boxes, c.refs = NoRefs, c.patchset = None,
           l = "ensure" => c.kind # "work" /\ c.branch \in Branches,
           l = "head" => box[c.box] # None
    PROVE  Moves(p) /\ OwnAt(p)' /\ TrailAt(p)'
<1>1. Moves(p) /\ pc'[p] = l /\ call'[p] = c
  BY SMTT(60), UpdateMoves DEF Labels
<1>2. mu' # p
  BY DEF ProcInv, OwnAt, LockAt, Holding
<1>3. LockAt(p)' /\ PreAt(p)' /\ HeldAt(p)'
  BY <1>1, <1>2 DEF LockAt, PreAt, HeldAt, Holding
<1>4. CallAt(p)'
  BY <1>1 DEF CallAt
<1>5. \A br \in Branches : c.refs[br] = None
  BY DEF NoRefs
<1>6. TrailAt(p)'
  BY <1>1, <1>5 DEF TrailAt, RefsOK, RefOK
<1> QED BY <1>1, <1>3, <1>4, <1>6 DEF OwnAt

\* A clone-mode request.
LEMMA ProvisionKeeps ==
    ASSUME GitInv, NEW p \in Procs, NEW b \in Boxes, NEW review \in BOOLEAN, Provision(p, b, review), UNCHANGED cut
    PROVE  GitInv'
<1> DEFINE c == [Idle EXCEPT !.kind = "provision", !.box = b, !.review = review, !.branch = Main]
<1>0. TypeInv /\ ProcInv
  BY DEF GitInv
<1>1. pc[p] = "idle" /\ Update(p, "ensure", c) /\ UNCHANGED <<mu, made, base, up, changes, prs, box>>
  BY DEF Provision, disk, remote
<1>2. c \in Calls /\ c.box = b /\ c.refs = NoRefs /\ c.patchset = None /\ c.kind = "provision" /\ c.branch = Main
  <2>1. NoRefs \in Refs /\ Main \in Branches
    BY NoneFacts DEF NoRefs, Refs
  <2> QED BY <2>1 DEF Idle, Calls
<1> HIDE DEF c
<1>3. Moves(p) /\ OwnAt(p)' /\ TrailAt(p)'
  BY <1>0, <1>1, <1>2, FreshOwn, NoneFacts
<1> QED BY <1>1, <1>3, LocalKeeps

\* PublishSandbox.
LEMMA PublishKeeps ==
    ASSUME GitInv, NEW p \in Procs, NEW b \in Boxes, NEW branches \in Selections, Publish(p, b, branches), UNCHANGED cut
    PROVE  GitInv'
<1> DEFINE c == [Idle EXCEPT !.kind = "publish", !.box = b, !.todo = branches]
<1>0. TypeInv /\ ProcInv
  BY DEF GitInv
<1>1. /\ pc[p] = "idle" /\ Update(p, "head", c) /\ box[b] # None
      /\ UNCHANGED <<mu, made, base, up, changes, prs, box>>
  BY DEF Publish, disk, remote
<1>2. c \in Calls /\ c.box = b /\ c.refs = NoRefs /\ c.patchset = None
  <2>1. NoRefs \in Refs /\ branches \in SUBSET Branches
    BY GitAssumption DEF NoRefs, Refs
  <2> QED BY <2>1 DEF Idle, Calls
<1> HIDE DEF c
<1>3. Moves(p) /\ OwnAt(p)' /\ TrailAt(p)'
  BY <1>0, <1>1, <1>2, FreshOwn
<1> QED BY <1>1, <1>3, LocalKeeps

\* PublishWork.
LEMMA PublishWorkKeeps ==
    ASSUME GitInv, NEW p \in Procs, NEW b \in Boxes, NEW strategy \in Strategies, NEW target \in {Main, None},
           PublishWork(p, b, strategy, target), UNCHANGED cut
    PROVE  GitInv'
<1> DEFINE c == [Idle EXCEPT !.kind = "work", !.box = b, !.strategy = strategy, !.target = target]
<1>0. TypeInv /\ ProcInv
  BY DEF GitInv
<1>1. /\ pc[p] = "idle" /\ Update(p, "head", c) /\ box[b] # None
      /\ UNCHANGED <<mu, made, base, up, changes, prs, box>>
  BY DEF PublishWork, disk, remote
<1>2. c \in Calls /\ c.box = b /\ c.refs = NoRefs /\ c.patchset = None
  <2>1. NoRefs \in Refs
    BY DEF NoRefs, Refs
  <2> QED BY <2>1 DEF Idle, Calls
<1> HIDE DEF c
<1>3. Moves(p) /\ OwnAt(p)' /\ TrailAt(p)'
  BY <1>0, <1>1, <1>2, FreshOwn
<1> QED BY <1>1, <1>3, LocalKeeps

\* The head of a review is looked up.
LEMMA ResolveReviewHeadKeeps ==
    ASSUME GitInv, NEW p \in Procs, ResolveReviewHead(p)
    PROVE  GitInv'
<1>0. TypeInv /\ ProcInv /\ TrailInv /\ CallAt(p) /\ LockAt(p) /\ call[p] \in Calls
  BY DEF GitInv, ProcInv, OwnAt, TypeInv
<1>1. pc[p] = "resolve" /\ UNCHANGED <<made, base, up, changes, prs, box, cut>>
  BY DEF ResolveReviewHead, disk, remote, node
<1>2. mu # p /\ call[p].box \in Boxes /\ call[p].patchset = None
  BY <1>0, <1>1 DEF LockAt, Holding, CallAt
<1>3. ASSUME NEW br \in Branches, Update(p, "pre", [call[p] EXCEPT !.branch = br]), UNCHANGED mu
      PROVE  GitInv'
  <2> DEFINE c == [call[p] EXCEPT !.branch = br]
  <2>1. /\ c \in Calls /\ c.box = call[p].box /\ c.refs = call[p].refs /\ c.patchset = call[p].patchset
        /\ c.branch = br
    BY <1>0 DEF Calls
  <2>2. Update(p, "pre", c)
    BY <1>3
  <2> HIDE DEF c
  <2>3. Moves(p) /\ pc'[p] = "pre" /\ call'[p] = c
    BY <1>0, <1>3, <2>1, <2>2, UpdateMoves DEF Labels
  <2>4. LockAt(p)' /\ PreAt(p)' /\ HeldAt(p)'
    BY <1>2, <1>3, <2>1, <2>3 DEF LockAt, PreAt, HeldAt, Holding
  <2>5. CallAt(p)'
    BY <1>2, <2>1, <2>3 DEF CallAt
  <2>6. TrailAt(p)'
    BY <1>0, <1>1, <2>1, <2>3, SameTrail
  <2>7. OwnAt(p)'
    BY <2>4, <2>5 DEF OwnAt
  <2> QED BY <1>1, <2>3, <2>6, <2>7, LocalKeeps
<1>4. CASE Update(p, "fetchref", [call[p] EXCEPT !.branch = Review, !.patchset = changes[Change]]) /\ UNCHANGED mu
  <2> DEFINE c == [call[p] EXCEPT !.branch = Review, !.patchset = changes[Change]]
  <2>0. changes[Change] \in Hist \cup {None} /\ RefOK(Review, changes[Change], up[Main])
    BY <1>0, NoneFacts DEF TypeInv, TrailInv, ChangesInv
  <2>1. /\ c \in Calls /\ c.box = call[p].box /\ c.refs = call[p].refs /\ c.patchset = changes[Change]
        /\ c.branch = Review
    BY <1>0, <2>0, NoneFacts DEF Calls
  <2>2. Update(p, "fetchref", c)
    BY <1>4
  <2> HIDE DEF c
  <2>3. Moves(p) /\ pc'[p] = "fetchref" /\ call'[p] = c
    BY <1>0, <1>4, <2>1, <2>2, UpdateMoves DEF Labels
  <2>4. LockAt(p)' /\ PreAt(p)' /\ HeldAt(p)'
    BY <1>2, <1>4, <2>3 DEF LockAt, PreAt, HeldAt, Holding
  <2>5. CallAt(p)'
    BY <1>2, <2>1, <2>3, NoneFacts DEF CallAt
  <2>6. TrailAt(p)'
    BY <1>0, <1>1, <2>0, <2>1, <2>3 DEF TrailAt, TrailInv
  <2>7. OwnAt(p)'
    BY <2>4, <2>5 DEF OwnAt
  <2> QED BY <1>1, <2>3, <2>6, <2>7, LocalKeeps
<1>5. CASE UnlockReturn(p)
  <2>1. Moves(p) /\ OwnAt(p)' /\ TrailAt(p)'
    BY <1>0, <1>5, ReturnOwn
  <2> QED BY <1>1, <2>1, LocalKeeps
<1> QED BY <1>3, <1>4, <1>5 DEF ResolveReviewHead, Fail

\* What Overwritten does to the goroutines.
LEMMA OverwrittenIs ==
    ASSUME TypeInv, NEW br
    PROVE  /\ Overwritten(br) \in [Procs -> Calls]
           /\ \A q \in Procs :
                /\ Overwritten(br)[q].kind = call[q].kind /\ Overwritten(br)[q].box = call[q].box
                /\ Overwritten(br)[q].branch = call[q].branch /\ Overwritten(br)[q].todo = call[q].todo
                /\ Overwritten(br)[q].refs = call[q].refs /\ Overwritten(br)[q].patchset = call[q].patchset
                /\ call[q].stolen => Overwritten(br)[q].stolen
                /\ br = Review /\ pc[q] = "pre" /\ call[q].patchset # None => Overwritten(br)[q].stolen
<1>1. ASSUME NEW q \in Procs
      PROVE  LET c == Overwritten(br)[q] IN
                /\ c \in Calls
                /\ c.kind = call[q].kind /\ c.box = call[q].box
                /\ c.branch = call[q].branch /\ c.todo = call[q].todo
                /\ c.refs = call[q].refs /\ c.patchset = call[q].patchset
                /\ call[q].stolen => c.stolen
                /\ br = Review /\ pc[q] = "pre" /\ call[q].patchset # None => c.stolen
  <2>0. call[q] \in Calls
    BY DEF TypeInv
  <2>1. CASE br = Review /\ pc[q] = "pre" /\ call[q].patchset # None
    <3> DEFINE c == [call[q] EXCEPT !.stolen = TRUE]
    <3>1. Overwritten(br)[q] = c
      BY <2>1 DEF Overwritten
    <3>2. /\ c \in Calls /\ c.kind = call[q].kind /\ c.box = call[q].box
          /\ c.branch = call[q].branch /\ c.todo = call[q].todo
          /\ c.refs = call[q].refs /\ c.patchset = call[q].patchset /\ c.stolen
      BY <2>0 DEF Calls
    <3> HIDE DEF c
    <3> QED BY <3>1, <3>2
  <2>2. CASE ~(br = Review /\ pc[q] = "pre" /\ call[q].patchset # None)
    <3>1. Overwritten(br)[q] = call[q]
      BY <2>2 DEF Overwritten
    <3> QED BY <2>0, <2>2, <3>1
  <2> QED BY <2>1, <2>2
<1>2. Overwritten(br) = [q \in Procs |-> Overwritten(br)[q]]
  BY DEF Overwritten
<1>3. Overwritten(br) \in [Procs -> Calls]
  BY <1>1, <1>2
<1> QED BY <1>1, <1>3

\* FetchRef.
LEMMA FetchRefKeeps ==
    ASSUME GitInv, NEW p \in Procs, FetchRef(p)
    PROVE  GitInv'
<1>0. TypeInv /\ ProcInv /\ TrailInv /\ BaseIsReady /\ CallAt(p) /\ LockAt(p) /\ call[p] \in Calls /\ TrailAt(p)
  BY DEF GitInv, ProcInv, OwnAt, TypeInv, TrailInv
<1>1. pc[p] = "fetchref" /\ mu = None /\ UNCHANGED <<made, up, changes, prs, box, cut>>
  BY DEF FetchRef, remote, node
<1>2. CASE /\ base' = [base EXCEPT ![Review] = call[p].patchset]
           /\ pc' = [pc EXCEPT ![p] = "pre"] /\ call' = Overwritten(Review) /\ UNCHANGED mu
  <2>1. /\ call' \in [Procs -> Calls]
        /\ \A q \in Procs : SameCall(q) /\ (pc[q] = "pre" /\ call[q].patchset # None => call'[q].stolen)
    <3>1. call' \in [Procs -> Calls]
      BY <1>0, <1>2, OverwrittenIs
    <3>2. ASSUME NEW q \in Procs PROVE SameCall(q) /\ (pc[q] = "pre" /\ call[q].patchset # None => call'[q].stolen)
      BY <1>0, <1>2, OverwrittenIs DEF SameCall
    <3> QED BY <3>1, <3>2
  <2>2. pc' \in [Procs -> Labels] /\ pc'[p] = "pre" /\ \A q \in Procs \ {p} : pc'[q] = pc[q]
    <3>1. pc \in [Procs -> Labels] /\ "pre" \in Labels
      BY <1>0 DEF TypeInv, Labels
    <3> QED BY <1>2, <3>1
  <2>3. Moves(p)
    BY <1>0, <1>2, <2>1, <2>2 DEF Moves, TypeInv
  <2>4. call[p].patchset \in Hist \cup {None} /\ base \in Refs
    BY <1>0, CallFacts DEF TypeInv
  <2>5. base' \in Refs /\ base'[Review] = call[p].patchset /\ \A br \in Branches : br # Review => base'[br] = base[br]
    BY <1>2, <2>4, NoneFacts DEF Refs
  <2>6. RefsOK(base', up[Main])
    BY <1>0, <2>5 DEF TrailInv, TrailAt, RefsOK
  <2>7. LockAt(p)' /\ HeldAt(p)'
    BY <1>1, <1>2, <2>2, NoneFacts DEF LockAt, HeldAt, Holding
  <2>8. PreAt(p)'
    BY <2>1, <2>5 DEF PreAt, SameCall
  <2>9. CallAt(p)'
    BY <1>0, <1>1, <2>1, <2>2 DEF CallAt, SameCall
  <2>10. TrailAt(p)'
    BY <1>0, <1>1, <2>1, SameTrail DEF SameCall
  <2>11. BaseIsReady'
    BY <1>0, <1>1, <2>3, <2>5, ReadyStays, NoneFacts
  <2>12. OwnAt(p)'
    BY <2>7, <2>8, <2>9 DEF OwnAt
  <2>13. made \in {"absent", "attached", "ready"} /\ cut \in BOOLEAN
    BY <1>0 DEF TypeInv
  <2> QED BY <1>1, <2>1, <2>3, <2>5, <2>6, <2>10, <2>11, <2>12, <2>13, BaseKeeps
<1>3. CASE UnlockReturn(p) /\ UNCHANGED base
  <2>1. Moves(p) /\ OwnAt(p)' /\ TrailAt(p)'
    BY <1>0, <1>3, ReturnOwn
  <2> QED BY <1>1, <1>3, <2>1, LocalKeeps
<1> QED BY <1>2, <1>3 DEF FetchRef, Fail

\* What a fetch of the branches in got brings.
LEMMA FetchedIs ==
    ASSUME TypeInv, TrailInv, NEW got \in SUBSET Branches
    PROVE  /\ Fetched(got) \in Refs /\ RefsOK(Fetched(got), up[Main])
           /\ \A br \in Branches : \/ Fetched(got)[br] = base[br] /\ (br \in got => up[br] = None)
                                   \/ Fetched(got)[br] = up[br] /\ up[br] # None
<1>0. base \in Refs /\ up \in Refs /\ RefsOK(base, up[Main]) /\ RefsOK(up, up[Main])
  BY DEF TypeInv, TrailInv
<1>1. \A br \in Branches : \/ Fetched(got)[br] = base[br] /\ (br \in got => up[br] = None)
                           \/ Fetched(got)[br] = up[br] /\ up[br] # None
  BY DEF Fetched
<1>2. Fetched(got) \in Refs
  <2>1. \A br \in Branches : Fetched(got)[br] \in Hist \cup {None}
    BY <1>0, <1>1 DEF Refs
  <2>2. Fetched(got) = [br \in Branches |-> Fetched(got)[br]]
    BY DEF Fetched
  <2> QED BY <2>1, <2>2 DEF Refs
<1>3. RefsOK(Fetched(got), up[Main])
  BY <1>0, <1>1 DEF RefsOK
<1> QED BY <1>1, <1>2, <1>3

\* The fetch leaves a base alone that is attached and has a commit.
LEMMA FetchedReady ==
    ASSUME TypeInv, TrailInv, BaseIsReady, NEW p \in Procs, Moves(p), pc[p] # "detach", UNCHANGED <<made, cut>>,
           NEW got \in SUBSET Branches, base' = Fetched(got), ~Refuses(up)
    PROVE  BaseIsReady'
<1>1. made # "attached" \/ up[Main] = None
  BY DEF Refuses
<1>2. base'[Main] = base[Main] \/ made # "attached"
  BY <1>1, FetchedIs, NoneFacts
<1> QED BY <1>2, ReadyStays

\* PreLock.
LEMMA PreLockKeeps ==
    ASSUME GitInv, NEW p \in Procs, PreLock(p)
    PROVE  GitInv'
<1>0. /\ TypeInv /\ ProcInv /\ TrailInv /\ BaseIsReady /\ CallAt(p) /\ LockAt(p) /\ PreAt(p)
      /\ call[p] \in Calls /\ TrailAt(p) /\ up \in Refs /\ RefsOK(up, up[Main])
  BY DEF GitInv, ProcInv, OwnAt, TypeInv, TrailInv
<1>1. pc[p] = "pre" /\ mu = None /\ UNCHANGED <<made, up, changes, prs, box, cut>>
  BY DEF PreLock, remote, node
<1>2. made \in {"absent", "attached", "ready"} /\ cut \in BOOLEAN
  BY <1>0 DEF TypeInv
<1>3. CASE /\ ~Refuses(up) /\ mu' = p /\ base' = Fetched(Branches)
           /\ Update(p, "create", [call[p] EXCEPT !.refs = up])
  <2> DEFINE c == [call[p] EXCEPT !.refs = up]
  <2>1. /\ c \in Calls /\ c.box = call[p].box /\ c.refs = up /\ c.patchset = call[p].patchset
        /\ c.branch = call[p].branch /\ c.stolen = call[p].stolen
    BY <1>0 DEF Calls
  <2>2. Update(p, "create", c)
    BY <1>3
  <2> HIDE DEF c
  <2>3. Moves(p) /\ pc'[p] = "create" /\ call'[p] = c
    BY <1>0, <1>1, <1>3, <2>1, <2>2, UpdateMoves DEF Labels
  <2>4. /\ base' \in Refs /\ RefsOK(base', up[Main])
        /\ \A br \in Branches : (base'[br] = base[br] /\ up[br] = None) \/ (base'[br] = up[br] /\ up[br] # None)
    <3>1. Branches \in SUBSET Branches
      OBVIOUS
    <3>2. /\ Fetched(Branches) \in Refs /\ RefsOK(Fetched(Branches), up[Main])
          /\ \A br \in Branches : \/ Fetched(Branches)[br] = base[br] /\ (br \in Branches => up[br] = None)
                                  \/ Fetched(Branches)[br] = up[br] /\ up[br] # None
      BY <1>0, <3>1, FetchedIs
    <3>3. base' = Fetched(Branches)
      BY <1>3
    <3>4. ASSUME NEW br \in Branches
          PROVE  (base'[br] = base[br] /\ up[br] = None) \/ (base'[br] = up[br] /\ up[br] # None)
      BY <3>2, <3>3
    <3>5. base' \in Refs /\ RefsOK(base', up[Main])
      BY <3>2, <3>3
    <3> QED BY <3>4, <3>5
  <2>5. LockAt(p)' /\ PreAt(p)'
    BY <1>3, <2>3 DEF LockAt, PreAt, Holding
  <2>6. CallAt(p)'
    BY <1>0, <1>1, <2>1, <2>3 DEF CallAt
  <2>7. HeldAt(p)'
    <3>1. \A br \in Branches : c.refs[br] # None => base'[br] = c.refs[br]
      BY <2>1, <2>4
    <3>2. c.patchset # None => base'[Review] = c.patchset \/ c.stolen \/ c.refs[Review] # None
      BY <1>0, <1>1, <2>1, <2>4, NoneFacts DEF PreAt
    <3> QED BY <2>3, <3>1, <3>2 DEF HeldAt
  <2>8. TrailAt(p)'
    BY <1>0, <1>1, <2>1, <2>3 DEF TrailAt
  <2>9. BaseIsReady'
    BY <1>0, <1>1, <1>3, <2>3, FetchedReady
  <2>10. OwnAt(p)'
    BY <2>5, <2>6, <2>7 DEF OwnAt
  <2>11. base'[Review] = base[Review] \/ up[Review] # None
    BY <2>4, NoneFacts
  <2> QED BY <1>1, <1>2, <2>3, <2>4, <2>8, <2>9, <2>10, <2>11, BaseKeeps
<1>4. ASSUME ~Refuses(up), UnlockReturn(p), NEW got \in SUBSET Branches, base' = Fetched(got) PROVE GitInv'
  <2>1. Moves(p) /\ OwnAt(p)' /\ TrailAt(p)'
    BY <1>0, <1>4, ReturnOwn
  <2>2. base' \in Refs /\ RefsOK(base', up[Main]) /\ (base'[Review] = base[Review] \/ up[Review] # None)
    BY <1>0, <1>4, FetchedIs, NoneFacts
  <2>3. BaseIsReady'
    BY <1>0, <1>1, <1>4, <2>1, FetchedReady
  <2> QED BY <1>1, <1>2, <2>1, <2>2, <2>3, BaseKeeps
<1>5. CASE UnlockReturn(p) /\ UNCHANGED base
  <2>1. Moves(p) /\ OwnAt(p)' /\ TrailAt(p)'
    BY <1>0, <1>5, ReturnOwn
  <2> QED BY <1>1, <1>5, <2>1, LocalKeeps
<1> QED BY <1>3, <1>4, <1>5 DEF PreLock, Fail

\* The sandbox gets its clone.
LEMMA CreateKeeps ==
    ASSUME GitInv, NEW p \in Procs, Create(p)
    PROVE  GitInv'
<1>0. /\ TypeInv /\ ProcInv /\ TrailInv /\ BaseIsReady /\ PrInv /\ CallAt(p)
      /\ base \in Refs /\ up \in Refs /\ RefsOK(up, up[Main]) /\ RefsOK(base, up[Main])
  BY DEF GitInv, ProcInv, OwnAt, TypeInv, TrailInv
<1>1. pc[p] = "create" /\ UnlockReturn(p) /\ UNCHANGED <<made, base, up, changes, prs, cut>>
  BY DEF Create, Fail, disk, remote, node
<1>2. Moves(p) /\ OwnAt(p)' /\ TrailAt(p)'
  BY <1>0, <1>1, ReturnOwn
<1>3. CASE box' = [box EXCEPT ![call[p].box] = Clone(call[p].branch)]
  <2> DEFINE c == Clone(call[p].branch)
  <2>1. call[p].box \in Boxes /\ call[p].branch \in Branches
    BY <1>0, <1>1 DEF CallAt
  <2>2. c \in Clones /\ c.refs = base /\ c # None
    <3>1. c \in Clones /\ c.refs = base
      BY <1>0, <2>1 DEF Clone, Clones
    <3> QED BY <3>1, NoneFacts
  <2>3. box \in [Boxes -> Clones \cup {None}]
    BY <1>0 DEF TypeInv
  <2> HIDE DEF c
  <2>4. /\ box' \in [Boxes -> Clones \cup {None}] /\ box'[call[p].box] = c
        /\ \A b \in Boxes : b # call[p].box => box'[b] = box[b]
    BY <1>3, <2>1, <2>2, <2>3 DEF c
  <2>5. \A b \in Boxes : box[b] # None => box'[b] # None
    BY <2>2, <2>4
  <2>6. \A b \in Boxes : BoxAt(b)'
    BY <1>0, <1>1, <2>2, <2>4 DEF BoxAt, TrailInv
  <2>7. PrInv' /\ BaseIsReady' /\ ChangesInv'
    BY <1>0, <1>1, <1>2, ReadyStays DEF PrInv, ChangesInv, TrailInv
  <2>8. /\ made \in {"absent", "attached", "ready"} /\ cut \in BOOLEAN
        /\ changes \in [ChangeIds -> Hist \cup {None}] /\ prs \in [Branches -> Nat]
    BY <1>0 DEF TypeInv
  <2> QED BY <1>0, <1>1, <1>2, <2>4, <2>5, <2>6, <2>7, <2>8, StepKeeps
<1>4. CASE UNCHANGED box
  BY <1>1, <1>2, <1>4, LocalKeeps
<1> QED BY <1>3, <1>4 DEF Create

-----------------------------------------------------------------------------
(***************************************************************************)
(* doPublish and PublishWork                                               *)
(***************************************************************************)
\* The branches to publish are known.
LEMMA SourceBranchKeeps ==
    ASSUME GitInv, NEW p \in Procs, SourceBranch(p)
    PROVE  GitInv'
<1>0. TypeInv /\ ProcInv /\ TrailInv /\ CallAt(p) /\ LockAt(p) /\ call[p] \in Calls /\ TrailAt(p)
  BY DEF GitInv, ProcInv, OwnAt, TypeInv, TrailInv
<1>1. pc[p] = "head" /\ UNCHANGED <<mu, made, base, up, changes, prs, box, cut>>
  BY DEF SourceBranch, disk, remote, node
<1>2. mu # p /\ call[p].box \in Boxes /\ box[call[p].box] # None
  BY <1>0, <1>1 DEF LockAt, Holding, CallAt
<1>3. box[call[p].box] \in Clones
  BY <1>0, <1>2 DEF TypeInv
<1>4. CASE Goto(p, "bundle")
  <2>1. Moves(p) /\ pc'[p] = "bundle" /\ call'[p] = call[p]
    BY <1>0, <1>1, <1>4, GotoMoves DEF Labels
  <2>2. LockAt(p)' /\ PreAt(p)' /\ HeldAt(p)' /\ CallAt(p)'
    BY <1>1, <1>2, <2>1 DEF LockAt, PreAt, HeldAt, CallAt, Holding
  <2>3. TrailAt(p)' /\ OwnAt(p)'
    BY <1>0, <1>1, <2>1, <2>2, SameTrail DEF OwnAt
  <2> QED BY <1>1, <2>1, <2>3, LocalKeeps
<1>5. ASSUME NEW source \in SUBSET Branches, NEW l \in {"ensure", "bundle"}, l = "ensure" => call[p].kind = "work",
             Update(p, l, [call[p] EXCEPT !.todo = source]), call[p].patchset = None
      PROVE  GitInv'
  <2> DEFINE c == [call[p] EXCEPT !.todo = source]
  <2>1. /\ c \in Calls /\ c.box = call[p].box /\ c.refs = call[p].refs /\ c.patchset = call[p].patchset
        /\ c.kind = call[p].kind
    BY <1>0 DEF Calls
  <2>2. Update(p, l, c)
    BY <1>5
  <2> HIDE DEF c
  <2>3. Moves(p) /\ pc'[p] = l /\ call'[p] = c
    BY SMTT(60), <1>0, <1>1, <1>5, <2>1, <2>2, UpdateMoves DEF Labels
  <2>4. LockAt(p)' /\ PreAt(p)' /\ HeldAt(p)'
    BY <1>1, <1>2, <2>3 DEF LockAt, PreAt, HeldAt, Holding
  <2>5. CallAt(p)'
    BY <1>1, <1>2, <1>5, <2>1, <2>3 DEF CallAt
  <2>6. TrailAt(p)' /\ OwnAt(p)'
    BY <1>0, <1>1, <2>1, <2>3, <2>4, <2>5, SameTrail DEF OwnAt
  <2> QED BY <1>1, <2>3, <2>6, LocalKeeps
<1>6. CASE Return(p)
  <2>1. UnlockReturn(p)
    BY <1>1, <1>2, <1>6 DEF UnlockReturn
  <2>2. Moves(p) /\ OwnAt(p)' /\ TrailAt(p)'
    BY <1>0, <2>1, ReturnOwn
  <2> QED BY <1>1, <2>2, LocalKeeps
<1>7. call[p].patchset = None
  BY <1>0, <1>1 DEF CallAt
<1>8. /\ box[call[p].box].branch \in Branches
      /\ box[call[p].box].head # None => box[call[p].box].head \in Branches
  BY <1>3 DEF Clones
<1>9. CASE call[p].todo = {} /\ box[call[p].box].head # None /\
           Update(p, IF call[p].kind = "work" THEN "ensure" ELSE "bundle", [call[p] EXCEPT !.todo = {box[call[p].box].head}])
  BY <1>5, <1>7, <1>8, <1>9
<1>10. CASE call[p].kind = "work" /\ Update(p, "ensure", [call[p] EXCEPT !.todo = {box[call[p].box].branch}])
  BY <1>5, <1>7, <1>8, <1>10
<1> QED BY <1>4, <1>6, <1>9, <1>10 DEF SourceBranch

\* The bundle is made and copied.
LEMMA BundleBranchesKeeps ==
    ASSUME GitInv, NEW p \in Procs, BundleBranches(p)
    PROVE  GitInv'
<1> DEFINE refs == box[call[p].box].refs
<1> DEFINE taken == [br \in Branches |-> IF br \in call[p].todo THEN refs[br] ELSE None]
<1> DEFINE c == [call[p] EXCEPT !.refs = taken]
<1>0. /\ TypeInv /\ ProcInv /\ TrailInv /\ CallAt(p) /\ LockAt(p) /\ call[p] \in Calls /\ TrailAt(p)
      /\ call[p].todo \in SUBSET Branches
  BY CallFacts DEF GitInv, ProcInv, OwnAt, TypeInv, TrailInv
<1>1. pc[p] = "bundle" /\ UNCHANGED <<made, base, up, changes, prs, box, cut>>
  BY DEF BundleBranches, disk, remote, node
<1>2. mu # p /\ call[p].box \in Boxes /\ box[call[p].box] # None
  BY <1>0, <1>1 DEF LockAt, Holding, CallAt
<1>3. box[call[p].box] \in Clones /\ RefsOK(refs, up[Main])
  BY <1>0, <1>2 DEF TypeInv, TrailInv, BoxAt
<1>4. refs \in Refs
  BY <1>3 DEF Clones
<1>5. CASE (\A br \in call[p].todo : refs[br] # None) /\ Update(p, "fetch", c) /\ UNCHANGED mu
  <2>1. taken \in Refs /\ RefsOK(taken, up[Main]) /\ \A br \in call[p].todo : taken[br] = refs[br]
    <3> HIDE DEF refs
    <3>1. \A br \in Branches : taken[br] \in Hist \cup {None} /\ (taken[br] = refs[br] \/ taken[br] = None)
      BY <1>4 DEF Refs
    <3>2. taken \in Refs
      BY <3>1 DEF Refs
    <3>3. RefsOK(taken, up[Main])
      BY <1>3, <3>1 DEF RefsOK, RefOK
    <3>4. \A br \in call[p].todo : taken[br] = refs[br]
      BY <1>0
    <3> QED BY <3>2, <3>3, <3>4
  <2> HIDE DEF taken, refs
  <2>2. c \in Calls /\ c.box = call[p].box /\ c.refs = taken /\ c.patchset = call[p].patchset /\ c.todo = call[p].todo
    BY <1>0, <2>1 DEF Calls
  <2>3. Update(p, "fetch", c)
    BY <1>5
  <2> HIDE DEF c
  <2>4. Moves(p) /\ pc'[p] = "fetch" /\ call'[p] = c
    BY <1>0, <1>5, <2>2, <2>3, UpdateMoves DEF Labels
  <2>5. LockAt(p)' /\ PreAt(p)' /\ HeldAt(p)'
    BY <1>2, <1>5, <2>4 DEF LockAt, PreAt, HeldAt, Holding
  <2>6. CallAt(p)'
    BY <1>2, <1>5, <2>1, <2>2, <2>4 DEF CallAt
  <2>7. TrailAt(p)'
    BY <1>0, <1>1, <2>1, <2>2, <2>4 DEF TrailAt
  <2>8. OwnAt(p)'
    BY <2>5, <2>6 DEF OwnAt
  <2> QED BY <1>1, <2>4, <2>7, <2>8, LocalKeeps
<1>6. CASE UnlockReturn(p)
  <2>1. Moves(p) /\ OwnAt(p)' /\ TrailAt(p)'
    BY <1>0, <1>6, ReturnOwn
  <2> QED BY <1>1, <2>1, LocalKeeps
<1> QED BY <1>5, <1>6 DEF BundleBranches, Fail

\* The bundle's branch goes into the base.
LEMMA FetchFromBundleKeeps ==
    ASSUME GitInv, NEW p \in Procs, NEW br \in Branches, FetchFromBundle(p, br)
    PROVE  GitInv'
<1> DEFINE refused == Refuses([NoRefs EXCEPT ![br] = call[p].refs[br]])
<1>0. /\ TypeInv /\ ProcInv /\ TrailInv /\ BaseIsReady /\ CallAt(p) /\ LockAt(p) /\ call[p] \in Calls /\ TrailAt(p)
      /\ call[p].refs \in Refs /\ base \in Refs
  BY CallFacts DEF GitInv, ProcInv, OwnAt, TypeInv, TrailInv
<1>1. pc[p] = "fetch" /\ mu = None /\ br \in call[p].todo /\ UNCHANGED <<made, up, changes, prs, box, cut>>
  BY DEF FetchFromBundle, remote, node
<1>2. call[p].refs[br] # None /\ call[p].box \in Boxes /\ \A x \in call[p].todo : call[p].refs[x] # None
  BY <1>0, <1>1 DEF CallAt
<1>3. CASE /\ ~refused /\ mu' = p /\ base' = [base EXCEPT ![br] = call[p].refs[br]]
           /\ pc' = [pc EXCEPT ![p] = "push"] /\ call' = [Overwritten(br) EXCEPT ![p].branch = br]
  <2>1. Overwritten(br)[p] \in Calls
    BY <1>0, OverwrittenIs
  <2> DEFINE o == Overwritten(br)
  <2> DEFINE c == [o[p] EXCEPT !.branch = br]
  <2>2. /\ c \in Calls /\ c.box = o[p].box /\ c.refs = o[p].refs
        /\ c.patchset = o[p].patchset /\ c.todo = o[p].todo /\ c.branch = br
    <3> HIDE DEF o
    <3> QED BY <2>1 DEF o, Calls
  <2>3. /\ c \in Calls /\ c.box = call[p].box /\ c.refs = call[p].refs
        /\ c.patchset = call[p].patchset /\ c.todo = call[p].todo /\ c.branch = br
    <3>1. /\ o[p].box = call[p].box /\ o[p].refs = call[p].refs
          /\ o[p].patchset = call[p].patchset /\ o[p].todo = call[p].todo
      BY <1>0, OverwrittenIs
    <3> HIDE DEF o, c
    <3> QED BY <2>2, <3>1
  <2>4. call' = [o EXCEPT ![p] = c] /\ o \in [Procs -> Calls]
    BY <1>0, <1>3, OverwrittenIs
  <2> HIDE DEF c
  <2>5. call'[p] = c /\ call' \in [Procs -> Calls] /\ \A q \in Procs \ {p} : call'[q] = o[q]
    <3> HIDE DEF o
    <3> QED BY <2>3, <2>4
  <2>6. ASSUME NEW q \in Procs \ {p}
        PROVE  SameCall(q) /\ (br = Review /\ pc[q] = "pre" /\ call[q].patchset # None => call'[q].stolen)
    <3>1. call'[q] = Overwritten(br)[q]
      BY <2>5
    <3>2. /\ o[q].kind = call[q].kind /\ o[q].box = call[q].box /\ o[q].branch = call[q].branch
          /\ o[q].todo = call[q].todo /\ o[q].refs = call[q].refs /\ o[q].patchset = call[q].patchset
          /\ call[q].stolen => o[q].stolen
          /\ br = Review /\ pc[q] = "pre" /\ call[q].patchset # None => o[q].stolen
      BY <1>0, OverwrittenIs
    <3>3. call'[q] = o[q]
      BY <3>1
    <3> HIDE DEF o
    <3> QED BY <3>2, <3>3 DEF SameCall
  <2>7. pc' \in [Procs -> Labels] /\ pc'[p] = "push" /\ \A q \in Procs \ {p} : pc'[q] = pc[q]
    <3>1. pc \in [Procs -> Labels] /\ "push" \in Labels
      BY <1>0 DEF TypeInv, Labels
    <3> QED BY <1>3, <3>1
  <2>8. Moves(p)
    BY <1>1, <1>3, <2>5, <2>6, <2>7 DEF Moves
  <2>9. /\ base' \in Refs /\ base'[br] = call[p].refs[br]
        /\ \A x \in Branches : x # br => base'[x] = base[x]
    BY <1>0, <1>3 DEF Refs
  <2>10. RefsOK(base', up[Main])
    BY <1>0, <2>9 DEF TrailInv, TrailAt, RefsOK
  <2>11. LockAt(p)' /\ PreAt(p)'
    BY <1>3, <2>7 DEF LockAt, PreAt, Holding
  <2>12. CallAt(p)'
    BY <1>2, <2>3, <2>5, <2>7 DEF CallAt
  <2>13. HeldAt(p)'
    BY <1>2, <2>3, <2>5, <2>7, <2>9 DEF HeldAt
  <2>14. TrailAt(p)'
    BY <1>0, <1>1, <2>3, <2>5, SameTrail
  <2>15. BaseIsReady'
    <3>1. base'[Main] = base[Main] \/ made # "attached"
      <4>1. CASE br = Main
        <5>1. [NoRefs EXCEPT ![br] = call[p].refs[br]][Main] = call[p].refs[br]
          BY <4>1, NoneFacts DEF NoRefs
        <5> QED BY <1>2, <1>3, <5>1 DEF Refuses
      <4>2. CASE br # Main
        BY <2>9, <4>2, NoneFacts
      <4> QED BY <4>1, <4>2
    <3> QED BY <1>0, <1>1, <2>8, <3>1, ReadyStays
  <2>16. OwnAt(p)'
    BY <2>11, <2>12, <2>13 DEF OwnAt
  <2>17. made \in {"absent", "attached", "ready"} /\ cut \in BOOLEAN
    BY <1>0 DEF TypeInv
  <2>18. \A q \in Procs \ {p} : base'[Review] = base[Review] \/ call'[q].stolen \/ pc[q] # "pre" \/ call[q].patchset = None
    BY <2>6, <2>9, NoneFacts
  <2> QED BY <1>1, <2>8, <2>9, <2>10, <2>14, <2>15, <2>16, <2>17, <2>18, BaseKeeps
<1>4. CASE Done(p, br) /\ UNCHANGED base
  <2>1. Moves(p) /\ OwnAt(p)' /\ TrailAt(p)'
    BY <1>0, <1>1, <1>4, DoneOwn
  <2> QED BY <1>1, <1>4, <2>1, LocalKeeps
<1> QED BY <1>3, <1>4 DEF FetchFromBundle

\* What a goroutine has at the push.
LEMMA PushFacts ==
    ASSUME GitInv, NEW p \in Procs, pc[p] \in {"push", "list", "open"}
    PROVE  /\ TypeInv /\ ProcInv /\ TrailInv /\ BaseIsReady /\ PrInv /\ mu = p /\ p # None
           /\ call[p].branch \in Branches /\ base[call[p].branch] = call[p].refs[call[p].branch]
           /\ base[call[p].branch] \in Hist /\ base[call[p].branch] # None
           /\ base \in Refs /\ up \in Refs /\ RefsOK(base, up[Main]) /\ RefsOK(up, up[Main])
           /\ Dest(call[p]) \in {call[p].branch, Main}
<1>0. TypeInv /\ ProcInv /\ TrailInv /\ BaseIsReady /\ PrInv /\ HeldAt(p) /\ LockAt(p) /\ call[p] \in Calls
  BY DEF GitInv, ProcInv, OwnAt, TypeInv
<1>1. mu = p /\ p # None
  BY <1>0, NoneFacts DEF LockAt, Holding
<1>2. /\ call[p].branch \in Branches /\ base[call[p].branch] = call[p].refs[call[p].branch]
      /\ call[p].refs[call[p].branch] # None
  BY <1>0 DEF HeldAt
<1>3. base \in Refs /\ up \in Refs /\ RefsOK(base, up[Main]) /\ RefsOK(up, up[Main])
  BY <1>0 DEF TypeInv, TrailInv
<1>4. base[call[p].branch] \in Hist
  BY <1>2, <1>3 DEF Refs
<1>5. Dest(call[p]) \in {call[p].branch, Main}
  BY <1>0, CallFacts DEF Dest
<1> QED BY <1>0, <1>1, <1>2, <1>3, <1>4, <1>5

\* git push.
LEMMA PushKeeps ==
    ASSUME GitInv, NEW p \in Procs, Push(p)
    PROVE  GitInv'
<1> DEFINE d == Dest(call[p])
<1> DEFINE h == base[call[p].branch]
<1>0. pc[p] = "push" /\ UNCHANGED <<made, base, changes, prs, box, cut>>
  BY DEF Push, disk, node
<1>1. /\ TypeInv /\ ProcInv /\ TrailInv /\ BaseIsReady /\ PrInv /\ mu = p /\ p # None
      /\ call[p].branch \in Branches /\ h \in Hist /\ h # None
      /\ base \in Refs /\ up \in Refs /\ RefsOK(base, up[Main]) /\ RefsOK(up, up[Main])
      /\ d \in {call[p].branch, Main}
  BY <1>0, PushFacts
<1>2. d \in Branches /\ RefOK(call[p].branch, h, up[Main])
  BY <1>1, NoneFacts DEF RefsOK
<1>3. \/ UNCHANGED up /\ Done(p, call[p].branch)
      \/ /\ FastForward(up[d], h) /\ up' = [up EXCEPT ![d] = h]
         /\ Done(p, call[p].branch) \/ (Goto(p, "list") /\ UNCHANGED mu)
  BY DEF Push
<1> HIDE DEF d, h
<1>4. CASE UNCHANGED up /\ Done(p, call[p].branch)
  <2>1. Moves(p) /\ OwnAt(p)' /\ TrailAt(p)'
    BY <1>0, <1>1, <1>4, DoneOwn
  <2> QED BY <1>0, <1>4, <2>1, LocalKeeps
<1>5. CASE /\ FastForward(up[d], h) /\ up' = [up EXCEPT ![d] = h]
           /\ Done(p, call[p].branch) \/ (Goto(p, "list") /\ UNCHANGED mu)
  <2>1. up' \in Refs /\ up'[d] = h /\ \A br \in Branches : br # d => up'[br] = up[br]
    BY <1>1, <1>2, <1>5 DEF Refs
  <2>2. up[Review] # None => up'[Review] # None
    BY <1>1, <2>1, NoneFacts
  <2>3. Merged(up[Main]) => Merged(up'[Main])
    <3>1. CASE d # Main
      BY <2>1, <3>1, NoneFacts
    <3>2. ASSUME d = Main, Merged(up[Main]) PROVE Merged(up'[Main])
      <4>1. up[Main] \in Seq(Commits) /\ h \in Seq(Commits)
        BY <1>1, <3>2, NoneFacts DEF Refs, Hist, Merged
      <4>2. IsPrefix(up[Main], h) /\ Has(up[Main])
        BY <1>5, <3>2 DEF FastForward, Merged
      <4>3. Has(h)
        BY <4>1, <4>2, PrefixHas
      <4> QED BY <1>1, <2>1, <3>2, <4>3 DEF Merged
    <3> QED BY <3>1, <3>2
  <2>4. Moves(p) /\ OwnAt(p)' /\ TrailAt(p)'
    <3>1. CASE Done(p, call[p].branch)
      BY <1>0, <1>1, <2>3, <3>1, DoneOwn
    <3>2. CASE Goto(p, "list") /\ UNCHANGED mu
      <4>1. Moves(p) /\ pc'[p] = "list" /\ call'[p] = call[p] /\ mu' = p
        BY <1>1, <3>2, GotoMoves DEF Labels
      <4>2. LockAt(p)' /\ PreAt(p)'
        BY <4>1 DEF LockAt, PreAt, Holding
      <4>3. CallAt(p) /\ HeldAt(p)
        BY <1>1 DEF ProcInv, OwnAt
      <4>4. CallAt(p)'
        BY <1>0, <4>1, <4>3 DEF CallAt
      <4>5. HeldAt(p)'
        BY <1>0, <4>1, <4>3 DEF HeldAt
      <4>6. TrailAt(p)'
        BY <1>1, <2>3, <4>1, SameTrail
      <4> QED BY <4>1, <4>2, <4>4, <4>5, <4>6 DEF OwnAt
    <3> QED BY <1>5, <3>1, <3>2
  <2>5. RefsOK(base, up'[Main])
    BY <1>1, <2>3, RefsGrow
  <2>6. RefsOK(up', up'[Main])
    <3>1. ASSUME NEW br \in Branches, br # d PROVE RefOK(br, up'[br], up'[Main])
      BY <1>1, <2>1, <2>3, <3>1, RefGrows DEF RefsOK
    <3>2. RefOK(d, h, up'[Main])
      <4>1. CASE d # Main
        BY <1>1, <1>2, <2>3, <4>1, RefGrows
      <4>2. CASE d = Main
        <5>1. up'[Main] = h /\ Main # Review
          BY <2>1, <4>2, NoneFacts
        <5> QED BY <1>1, <1>2, <4>2, <5>1 DEF RefOK, Merged
      <4> QED BY <4>1, <4>2
    <3> QED BY <2>1, <3>1, <3>2 DEF RefsOK
  <2>7. ChangesInv'
    BY <1>0, <1>1, <2>3, RefGrows DEF ChangesInv, TrailInv
  <2>8. \A b \in Boxes : BoxAt(b)'
    BY <1>0, <1>1, <2>3, RefsGrow DEF BoxAt, TrailInv
  <2>9. PrInv' /\ BaseIsReady'
    BY <1>0, <1>1, <2>4, ReadyStays DEF PrInv
  <2>10. /\ made \in {"absent", "attached", "ready"} /\ cut \in BOOLEAN
         /\ changes \in [ChangeIds -> Hist \cup {None}] /\ prs \in [Branches -> Nat]
         /\ box \in [Boxes -> Clones \cup {None}]
    BY <1>1 DEF TypeInv
  <2> QED BY <1>0, <1>1, <2>1, <2>2, <2>3, <2>4, <2>5, <2>6, <2>7, <2>8, <2>9, <2>10, StepKeeps
<1> QED BY <1>3, <1>4, <1>5

\* Patch, and what is refused.
LEMMA PatchOrRefuseKeeps ==
    ASSUME GitInv, NEW p \in Procs, PatchOrRefuse(p)
    PROVE  GitInv'
<1>0. pc[p] = "push" /\ Done(p, call[p].branch) /\ UNCHANGED <<made, base, up, changes, prs, box, cut>>
  BY DEF PatchOrRefuse, disk, remote, node
<1>1. TypeInv /\ ProcInv /\ TrailInv /\ call[p].branch \in Branches
  BY <1>0, PushFacts
<1>2. Moves(p) /\ OwnAt(p)' /\ TrailAt(p)'
  BY <1>0, <1>1, DoneOwn
<1> QED BY <1>0, <1>2, LocalKeeps

\* The open requests are listed.
LEMMA ListRequestsKeeps ==
    ASSUME GitInv, NEW p \in Procs, ListRequests(p)
    PROVE  GitInv'
<1>0. pc[p] = "list" /\ UNCHANGED <<made, base, up, changes, prs, box, cut>>
  BY DEF ListRequests, disk, remote, node
<1>1. TypeInv /\ ProcInv /\ TrailInv /\ call[p].branch \in Branches /\ mu = p /\ CallAt(p) /\ HeldAt(p)
  BY <1>0, PushFacts DEF ProcInv, OwnAt
<1>2. CASE Done(p, call[p].branch)
  <2>1. Moves(p) /\ OwnAt(p)' /\ TrailAt(p)'
    BY <1>0, <1>1, <1>2, DoneOwn
  <2> QED BY <1>0, <2>1, LocalKeeps
<1>3. CASE prs[call[p].branch] = 0 /\ Goto(p, "open") /\ UNCHANGED mu
  <2>1. Moves(p) /\ pc'[p] = "open" /\ call'[p] = call[p] /\ mu' = p
    BY <1>1, <1>3, GotoMoves DEF Labels
  <2>2. LockAt(p)' /\ PreAt(p)'
    BY <2>1 DEF LockAt, PreAt, Holding
  <2>3. CallAt(p)'
    BY <1>0, <1>1, <2>1 DEF CallAt
  <2>4. HeldAt(p)'
    BY <1>0, <1>1, <1>3, <2>1 DEF HeldAt
  <2>5. TrailAt(p)' /\ OwnAt(p)'
    BY <1>0, <1>1, <2>1, <2>2, <2>3, <2>4, SameTrail DEF OwnAt
  <2> QED BY <1>0, <2>1, <2>5, LocalKeeps
<1> QED BY <1>2, <1>3 DEF ListRequests

\* A request is opened.
LEMMA OpenRequestKeeps ==
    ASSUME GitInv, NEW p \in Procs, OpenRequest(p)
    PROVE  GitInv'
<1> DEFINE br == call[p].branch
<1>0. /\ pc[p] = "open" /\ Done(p, br) /\ UNCHANGED <<made, base, up, changes, box, cut>>
      /\ UNCHANGED prs \/ prs' = [prs EXCEPT ![br] = @ + 1]
  BY DEF OpenRequest, disk, node
<1>1. /\ TypeInv /\ ProcInv /\ TrailInv /\ BaseIsReady /\ PrInv /\ br \in Branches /\ mu = p /\ HeldAt(p)
      /\ base \in Refs /\ up \in Refs /\ RefsOK(base, up[Main]) /\ RefsOK(up, up[Main])
  BY <1>0, PushFacts DEF ProcInv, OwnAt
<1>2. prs[br] = 0
  BY <1>0, <1>1 DEF HeldAt
<1> HIDE DEF br
<1>3. Moves(p) /\ OwnAt(p)' /\ TrailAt(p)'
  BY <1>0, <1>1, DoneOwn
<1>4. prs \in [Branches -> Nat]
  BY <1>1 DEF TypeInv
<1>5. prs' \in [Branches -> Nat] /\ PrInv'
  <2>1. CASE UNCHANGED prs
    BY <1>1, <1>4, <2>1 DEF PrInv
  <2>2. CASE prs' = [prs EXCEPT ![br] = @ + 1]
    <3>1. 0 + 1 \in Nat /\ 0 + 1 <= 1
      BY SMTT(60)
    <3>2. prs' = [prs EXCEPT ![br] = 0 + 1]
      BY <1>1, <1>2, <1>4, <2>2
    <3> QED BY <1>1, <1>4, <3>1, <3>2 DEF PrInv
  <2> QED BY <1>0, <2>1, <2>2
<1>6. ChangesInv' /\ \A b \in Boxes : BoxAt(b)'
  BY <1>0, <1>1 DEF ChangesInv, BoxAt, TrailInv
<1>7. BaseIsReady'
  BY <1>0, <1>1, <1>3, ReadyStays
<1>8. /\ made \in {"absent", "attached", "ready"} /\ cut \in BOOLEAN
      /\ changes \in [ChangeIds -> Hist \cup {None}] /\ box \in [Boxes -> Clones \cup {None}]
  BY <1>1 DEF TypeInv
<1> QED BY <1>0, <1>1, <1>3, <1>5, <1>6, <1>7, <1>8, StepKeeps

\* The natural numbers are well-founded.
LEMMA LeastNatural ==
    ASSUME NEW T \in SUBSET Nat, T # {}
    PROVE  \E x \in T : \A y \in T : x <= y
<1>1. IsWellFoundedOn(OpToRel(<, Nat), Nat)
  BY NatLessThanWellFounded
<1>2. PICK x \in T : \A y \in T : ~(<<y, x>> \in OpToRel(<, Nat))
  BY <1>1, WFMin
<1>3. ASSUME NEW y \in T PROVE x <= y
  <2>1. ~(<<y, x>> \in OpToRel(<, Nat))
    BY <1>2, <1>3
  <2>2. ~(y < x)
    BY <2>1 DEF OpToRel
  <2> QED BY SMTT(60), <2>2
<1> QED BY <1>3

\* Some places in a branch have a last one.
LEMMA MaxExists ==
    ASSUME NEW n \in Nat, NEW T \in SUBSET (1 .. n), T # {}
    PROVE  Max(T) \in T
<1> DEFINE D == {n - i : i \in T}
<1>0. \A i \in T : i \in Nat /\ n - i \in Nat
  BY SMTT(60)
<1>1. D \in SUBSET Nat /\ D # {}
  BY <1>0
<1>2. PICK d \in D : \A y \in D : d <= y
  BY <1>1, LeastNatural
<1>3. PICK i \in T : d = n - i
  BY <1>2
<1>4. ASSUME NEW j \in T PROVE i >= j
  <2>1. n - i <= n - j
    BY <1>2, <1>3
  <2>2. i \in Nat /\ j \in Nat
    BY <1>0
  <2> QED BY SMTT(60), <2>1, <2>2
<1> QED BY <1>3, <1>4 DEF Max

\* existingChangeID finds the review's change in what is to be published from
\* the review's branch, unless the change is merged.
LEMMA ChangeIdIs ==
    ASSUME TypeInv, TrailInv, NEW source \in Branches, base[source] # None, base[Main] # None
    PROVE  /\ ChangeId(source, Main) \in ChangeIds
           /\ ChangeId(source, Main) = Review => Merged(up[Main])
<1> DEFINE s == base[source]
<1> DEFINE new == {i \in DOMAIN s : ~IsPrefix(SubSeq(s, 1, i), base[Main])}
<1> DEFINE trailers == {i \in new : s[i].id # None}
<1>0. /\ s \in Seq(Commits) /\ base[Main] \in Seq(Commits)
      /\ RefOK(source, s, up[Main]) /\ RefOK(Main, base[Main], up[Main])
  BY NoneFacts DEF TypeInv, TrailInv, RefsOK, Refs, Hist
<1>1. ChangeId(source, Main) = IF trailers = {} THEN source ELSE s[Max(trailers)].id
  BY DEF ChangeId
<1>2. Len(s) \in Nat /\ DOMAIN s = 1 .. Len(s)
  BY SMTT(60), <1>0
<1>3. CASE trailers # {}
  <2>1. trailers \in SUBSET (1 .. Len(s))
    BY <1>2
  <2>2. Max(trailers) \in trailers
    BY <1>2, <1>3, <2>1, MaxExists
  <2>3. s[Max(trailers)].id = Change
    BY <1>0, <2>2 DEF RefOK
  <2> QED BY <1>1, <1>3, <2>3, NoneFacts
<1>4. CASE trailers = {}
  <2>1. ChangeId(source, Main) = source
    BY <1>1, <1>4
  <2>2. ASSUME source = Review PROVE Merged(up[Main])
    <3>1. PICK i \in DOMAIN s : s[i].id = Change
      BY <1>0, <2>2 DEF RefOK, Has
    <3>2. IsPrefix(SubSeq(s, 1, i), base[Main])
      BY <1>4, <3>1, NoneFacts
    <3>3. /\ SubSeq(s, 1, i) \in Seq(Commits) /\ i \in DOMAIN SubSeq(s, 1, i)
          /\ SubSeq(s, 1, i)[i] = s[i]
      <4> HIDE DEF s
      <4> QED BY SMTT(60), <1>0, <1>2, <3>1
    <3>4. Has(SubSeq(s, 1, i))
      BY <3>1, <3>3 DEF Has
    <3>5. Has(base[Main])
      BY <1>0, <3>2, <3>3, <3>4, PrefixHas
    <3> QED BY <1>0, <3>5 DEF RefOK
  <2> QED BY <2>1, <2>2, NoneFacts
<1> QED BY <1>3, <1>4

\* What GerritChange pushes is a change that has its Change-Id.
LEMMA SquashedIs ==
    ASSUME GitInv, NEW p \in Procs, pc[p] = "push", base[Main] # None, NEW id \in ChangeIds
    PROVE  LET c == Commit(Last(base[call[p].branch]).by, id) IN
           /\ c \in Commits /\ c.id = id /\ c.by = Last(base[call[p].branch]).by
           /\ base[Main] \in Seq(Commits) /\ Append(base[Main], c) \in Hist
           /\ Last(Append(base[Main], c)) = c
           /\ id = Change => RefOK(Review, Append(base[Main], c), up[Main])
<1> DEFINE h == base[call[p].branch]
<1> DEFINE c == Commit(Last(h).by, id)
<1>0. /\ h \in Hist /\ base \in Refs /\ RefsOK(base, up[Main])
  BY PushFacts
<1>1. Last(h).by \in Boxes \cup {Upstream}
  <2>1. h \in Seq(Commits) /\ h # <<>>
    BY <1>0 DEF Hist
  <2> HIDE DEF h
  <2>2. Len(h) \in Nat /\ Len(h) # 0 /\ DOMAIN h = 1 .. Len(h)
    BY SMTT(60), <2>1
  <2>3. Len(h) \in DOMAIN h
    BY SMTT(60), <2>2
  <2>4. h[Len(h)] \in Commits
    BY SMTT(60), <2>1, <2>2, <2>3
  <2> QED BY <2>4 DEF Last, Commits
<1>2. c \in Commits /\ c.id = id /\ c.by = Last(h).by
  BY <1>1, CommitIs
<1>3. base[Main] \in Seq(Commits) /\ RefOK(Main, base[Main], up[Main])
  BY <1>0, NoneFacts DEF Refs, Hist, RefsOK
<1> HIDE DEF c
<1>4. /\ Append(base[Main], c) \in Hist /\ Last(Append(base[Main], c)) = c
      /\ DOMAIN Append(base[Main], c) = DOMAIN base[Main] \cup {Len(base[Main]) + 1}
      /\ \A i \in DOMAIN base[Main] : Append(base[Main], c)[i] = base[Main][i]
      /\ Append(base[Main], c)[Len(base[Main]) + 1] = c
  BY <1>2, <1>3, Appended
<1>5. ASSUME id = Change PROVE RefOK(Review, Append(base[Main], c), up[Main])
  <2>1. \A i \in DOMAIN Append(base[Main], c) : Append(base[Main], c)[i].id \in {None, Change}
    BY <1>2, <1>3, <1>4, <1>5 DEF RefOK
  <2>2. Has(Append(base[Main], c))
    BY <1>2, <1>4, <1>5 DEF Has
  <2> QED BY <2>1, <2>2, NoneFacts DEF RefOK
<1> QED BY <1>2, <1>3, <1>4, <1>5 DEF c

\* GerritChange.
LEMMA GerritChangeKeeps ==
    ASSUME GitInv, NEW p \in Procs, GerritChange(p)
    PROVE  GitInv'
<1> DEFINE id == ChangeId(call[p].branch, Main)
<1> DEFINE squashed == Append(base[Main], Commit(Last(base[call[p].branch]).by, id))
<1>0. pc[p] = "push" /\ call[p].target # None /\ Done(p, call[p].branch) /\ UNCHANGED <<made, base, up, prs, box, cut>>
  BY DEF GerritChange, disk, node
<1>1. /\ TypeInv /\ ProcInv /\ TrailInv /\ BaseIsReady /\ PrInv /\ mu = p /\ call[p].branch \in Branches
      /\ base[call[p].branch] # None
      /\ base \in Refs /\ up \in Refs /\ RefsOK(base, up[Main]) /\ RefsOK(up, up[Main])
  BY <1>0, PushFacts
<1>2. call[p].target = Main
  BY <1>0, <1>1, CallFacts DEF TypeInv
<1>3. UNCHANGED changes \/ (base[Main] # None /\ changes' = [changes EXCEPT ![id] = squashed])
  BY <1>2 DEF GerritChange
<1>4. Moves(p) /\ OwnAt(p)' /\ TrailAt(p)'
  BY <1>0, <1>1, DoneOwn
<1>5. CASE UNCHANGED changes
  BY <1>0, <1>4, <1>5, LocalKeeps
<1>6. CASE base[Main] # None /\ changes' = [changes EXCEPT ![id] = squashed]
  <2>1. id \in ChangeIds /\ (id = Review => Merged(up[Main]))
    BY <1>1, <1>6, ChangeIdIs
  <2>2. squashed \in Hist /\ (id = Change => RefOK(Review, squashed, up[Main]))
    <3> HIDE DEF id
    <3> QED BY <1>0, <1>6, <2>1, SquashedIs
  <2> HIDE DEF id, squashed
  <2>3. changes \in [ChangeIds -> Hist \cup {None}] /\ ChangesInv
    BY <1>1 DEF TypeInv, TrailInv
  <2>4. /\ changes' \in [ChangeIds -> Hist \cup {None}] /\ changes'[id] = squashed
        /\ \A x \in ChangeIds : x # id => changes'[x] = changes[x]
    BY <1>6, <2>1, <2>2, <2>3
  <2>5. ChangesInv'
    <3>1. RefOK(Review, changes'[Change], up[Main])
      BY <2>2, <2>3, <2>4, NoneFacts DEF ChangesInv
    <3>2. changes'[Review] # None => Merged(up[Main])
      BY <2>1, <2>3, <2>4, NoneFacts DEF ChangesInv
    <3> QED BY <1>0, <3>1, <3>2 DEF ChangesInv
  <2>6. \A b \in Boxes : BoxAt(b)'
    BY <1>0, <1>1 DEF BoxAt, TrailInv
  <2>7. PrInv' /\ BaseIsReady'
    BY <1>0, <1>1, <1>4, ReadyStays DEF PrInv
  <2>8. /\ made \in {"absent", "attached", "ready"} /\ cut \in BOOLEAN
        /\ prs \in [Branches -> Nat] /\ box \in [Boxes -> Clones \cup {None}]
    BY <1>1 DEF TypeInv
  <2> QED BY <1>0, <1>1, <1>4, <2>4, <2>5, <2>6, <2>7, <2>8, StepKeeps
<1> QED BY <1>3, <1>5, <1>6

-----------------------------------------------------------------------------
(***************************************************************************)
(* The agents, the upstream, and the node's crash and restart              *)
(***************************************************************************)
\* A step outside the node.
LEMMA WorldKeeps ==
    ASSUME GitInv, UNCHANGED <<mu, made, base, changes, prs, pc, call, cut>>, up' \in Refs,
           box' \in [Boxes -> Clones \cup {None}], \A b \in Boxes : box[b] # None => box'[b] # None,
           up[Review] # None => up'[Review] # None, Merged(up[Main]) => Merged(up'[Main]),
           RefsOK(up', up'[Main]), \A b \in Boxes : BoxAt(b)'
    PROVE  GitInv'
<1>0. TypeInv /\ ProcInv /\ TrailInv /\ PrInv /\ BaseIsReady
  BY DEF GitInv
<1>1. TypeInv'
  BY <1>0 DEF TypeInv
<1>2. ASSUME NEW q \in Procs PROVE OwnAt(q)'
  <2>0. LockAt(q) /\ CallAt(q) /\ PreAt(q) /\ HeldAt(q)
    BY <1>0 DEF ProcInv, OwnAt
  <2>1. LockAt(q)' /\ HeldAt(q)'
    BY <2>0 DEF LockAt, HeldAt
  <2>2. PreAt(q)'
    BY <2>0 DEF PreAt
  <2>3. CallAt(q)'
    <3>1. pc[q] # "idle" => (box[call[q].box] # None => box'[call[q].box] # None)
      BY <2>0 DEF CallAt
    <3> QED BY <2>0, <3>1 DEF CallAt
  <2> QED BY <2>1, <2>2, <2>3 DEF OwnAt
<1>3. ASSUME NEW q \in Procs PROVE TrailAt(q)'
  BY <1>0, SameTrail
<1>4. RefsOK(base, up'[Main]) /\ ChangesInv'
  BY <1>0, RefsGrow, RefGrows DEF TrailInv, ChangesInv
<1>5. PrInv' /\ BaseIsReady'
  BY <1>0 DEF PrInv, BaseIsReady
<1>6. ProcInv' /\ TrailInv'
  BY <1>2, <1>3, <1>4 DEF ProcInv, TrailInv
<1> QED BY <1>1, <1>5, <1>6 DEF GitInv

\* An agent commits.
LEMMA AgentCommitKeeps ==
    ASSUME GitInv, NEW b \in Boxes, NEW br \in Branches, AgentCommit(b, br)
    PROVE  GitInv'
<1>0. /\ TypeInv /\ TrailInv /\ up \in Refs /\ RefsOK(up, up[Main]) /\ box \in [Boxes -> Clones \cup {None}]
      /\ BoxAt(b)
  BY DEF GitInv, TypeInv, TrailInv
<1>1. box[b] # None /\ UNCHANGED <<mu, made, base, up, changes, prs, pc, call, cut>>
  BY DEF AgentCommit, disk, remote, Committed
<1>2. PICK from \in Branches :
        /\ box[b].refs[from] # None
        /\ from = br \/ (br \in Features /\ box[b].refs[br] = None)
        /\ box' = [box EXCEPT ![b].refs[br] = Append(box[b].refs[from], Commit(b, None)), ![b].head = br]
  BY DEF AgentCommit
<1> DEFINE refs == box[b].refs
<1> DEFINE h == Append(box[b].refs[from], Commit(b, None))
<1> DEFINE c == [box[b] EXCEPT !.refs[br] = h, !.head = br]
<1>3. box[b] \in Clones /\ refs \in Refs /\ RefsOK(refs, up[Main])
  <2>1. box[b] \in Clones
    BY <1>0, <1>1
  <2>2. refs \in Refs
    BY <2>1 DEF Clones
  <2> QED BY <1>0, <1>1, <2>1, <2>2 DEF BoxAt
<1>4. h \in Hist /\ RefOK(br, h, up[Main])
  <2>1. refs[from] \in Hist /\ RefOK(from, refs[from], up[Main])
    BY <1>2, <1>3 DEF Refs, RefsOK
  <2>2. Commit(b, None) \in Commits
    BY CommitIs
  <2>3. h \in Hist
    BY <2>1, <2>2, Appended DEF Hist
  <2>4. RefOK(from, h, up[Main])
    BY <2>1, RefAppended
  <2>5. CASE from = br
    BY <2>3, <2>4, <2>5
  <2>6. CASE br \in Features
    <3>1. br # Main /\ br # Review
      BY <2>6, NoneFacts
    <3> HIDE DEF h
    <3> QED BY <2>3, <2>4, <3>1 DEF RefOK
  <2> QED BY <1>2, <2>5, <2>6
<1> HIDE DEF h
<1>5. [refs EXCEPT ![br] = h] \in Refs /\ RefsOK([refs EXCEPT ![br] = h], up[Main])
  <2> HIDE DEF refs
  <2>1. [refs EXCEPT ![br] = h] \in Refs
    BY <1>3, <1>4 DEF Refs
  <2>2. \A x \in Branches : [refs EXCEPT ![br] = h][x] = IF x = br THEN h ELSE refs[x]
    BY <1>3 DEF Refs
  <2> QED BY <1>3, <1>4, <2>1, <2>2 DEF RefsOK
<1>6. c \in Clones /\ c.refs = [refs EXCEPT ![br] = h] /\ c # None
  <2>1. c \in Clones /\ c.refs = [refs EXCEPT ![br] = h]
    BY <1>3, <1>5 DEF Clones
  <2> QED BY <2>1, NoneFacts
<1>7. box' = [box EXCEPT ![b] = c]
  BY <1>0, <1>2 DEF h
<1> HIDE DEF c, refs
<1>8. box' \in [Boxes -> Clones \cup {None}] /\ box'[b] = c /\ \A x \in Boxes : x # b => box'[x] = box[x]
  BY <1>0, <1>6, <1>7
<1>9. \A x \in Boxes : BoxAt(x)'
  BY <1>0, <1>1, <1>5, <1>6, <1>8 DEF BoxAt, TrailInv
<1>10. \A x \in Boxes : box[x] # None => box'[x] # None
  BY <1>6, <1>8
<1> QED BY <1>0, <1>1, <1>8, <1>9, <1>10, WorldKeeps

\* What a commit upstream does.
LEMMA UpstreamCommitIs ==
    ASSUME TypeInv, TrailInv, NEW br \in Branches, UpstreamCommit(br)
    PROVE  /\ up' \in Refs /\ up'[br] # None /\ RefOK(br, up'[br], up'[Main])
           /\ \A x \in Branches : x # br => up'[x] = up[x]
           /\ FastForward(up[br], up'[br]) /\ (Merged(up[Main]) => Merged(up'[Main]))
<1> DEFINE c == Commit(Upstream, None)
<1>0. up \in Refs /\ RefsOK(up, up[Main]) /\ up[br] \in Hist \cup {None}
  BY DEF TypeInv, TrailInv, Refs
<1>1. c \in Commits /\ c.id = None
  BY CommitIs
<1>2. up' = [up EXCEPT ![br] = Append(IF up[br] = None THEN <<>> ELSE up[br], c)] /\ (up[br] # None \/ br = Main)
  BY <1>0 DEF UpstreamCommit, Refs
<1>3. /\ up'[br] = Append(IF up[br] = None THEN <<>> ELSE up[br], c)
      /\ \A x \in Branches : x # br => up'[x] = up[x]
  BY <1>0, <1>2 DEF Refs
<1>4. CASE up[br] # None
  <2>1. up[br] \in Hist /\ up[br] \in Seq(Commits) /\ up'[br] = Append(up[br], c) /\ RefOK(br, up[br], up[Main])
    BY <1>0, <1>3, <1>4 DEF Hist, RefsOK
  <2>2. up'[br] \in Hist /\ IsPrefix(up[br], up'[br])
    BY <1>1, <2>1, Appended
  <2>3. RefOK(br, up'[br], up[Main])
    BY <2>1, RefAppended
  <2>4. Merged(up[Main]) => Merged(up'[Main])
    <3>1. CASE br = Main
      <4>1. up'[br] \in Seq(Commits) /\ up'[br] # None
        BY <2>2, NoneFacts DEF Hist
      <4> QED BY <2>1, <2>2, <3>1, <4>1, PrefixHas DEF Merged
    <3>2. CASE br # Main
      BY <1>3, <3>2, NoneFacts
    <3> QED BY <3>1, <3>2
  <2>5. up' \in Refs
    BY <1>0, <1>2, <1>3, <2>2 DEF Refs
  <2> QED BY <1>3, <2>2, <2>3, <2>4, <2>5, RefGrows, NoneFacts DEF FastForward
<1>5. CASE up[br] = None
  <2> DEFINE e == <<>>
  <2>1. br = Main /\ up'[br] = Append(e, c)
    BY <1>2, <1>3, <1>5
  <2>2. e \in Seq(Commits) /\ DOMAIN e = {}
    BY SMTT(60)
  <2> HIDE DEF e
  <2>3. \A i \in DOMAIN up'[br] : up'[br][i].id = None
    <3> HIDE DEF c
    <3>1. up'[br] \in Hist /\ DOMAIN Append(e, c) = DOMAIN e \cup {Len(e) + 1} /\ Append(e, c)[Len(e) + 1] = c
      BY <1>1, <2>1, <2>2, Appended
    <3>2. DOMAIN Append(e, c) = {Len(e) + 1}
      BY <2>2, <3>1
    <3> QED BY <1>1, <2>1, <3>1, <3>2
  <2>8. up'[br] \in Hist
    BY <1>1, <2>1, <2>2, Appended
  <2>4. ~Has(up'[br])
    BY <2>3, NoneFacts DEF Has
  <2>5. RefOK(br, up'[br], up'[Main])
    BY <2>1, <2>3, <2>4, NoneFacts DEF RefOK
  <2>6. up' \in Refs
    BY <1>0, <1>2, <1>3, <2>8 DEF Refs
  <2>7. ~Merged(up[Main])
    BY <1>5, <2>1 DEF Merged
  <2> QED BY <1>3, <1>5, <2>5, <2>6, <2>7, <2>8, NoneFacts DEF FastForward
<1> QED BY <1>4, <1>5

\* Others commit upstream.
LEMMA UpstreamCommitKeeps ==
    ASSUME GitInv, NEW br \in Branches, UpstreamCommit(br)
    PROVE  GitInv'
<1>0. TypeInv /\ TrailInv /\ up \in Refs /\ RefsOK(up, up[Main]) /\ box \in [Boxes -> Clones \cup {None}]
  BY DEF GitInv, TypeInv, TrailInv
<1>1. UNCHANGED <<mu, made, base, changes, prs, box, pc, call, cut>>
  BY DEF UpstreamCommit, disk, Committed
<1>2. /\ up' \in Refs /\ up'[br] # None /\ RefOK(br, up'[br], up'[Main])
      /\ \A x \in Branches : x # br => up'[x] = up[x]
      /\ Merged(up[Main]) => Merged(up'[Main])
  BY <1>0, UpstreamCommitIs
<1>3. RefsOK(up', up'[Main])
  BY <1>0, <1>2, RefGrows DEF RefsOK
<1>4. \A b \in Boxes : BoxAt(b)'
  BY <1>0, <1>1, <1>2, RefsGrow DEF BoxAt, TrailInv
<1>5. up[Review] # None => up'[Review] # None
  BY <1>2, NoneFacts
<1> QED BY <1>0, <1>1, <1>2, <1>3, <1>4, <1>5, WorldKeeps

\* The node dies and comes back.
LEMMA CrashKeeps ==
    ASSUME GitInv, Crash
    PROVE  GitInv'
<1>0. TypeInv /\ ProcInv /\ TrailInv /\ PrInv /\ BaseIsReady
  BY DEF GitInv
<1>1. /\ mu' = None /\ pc' = [p \in Procs |-> "idle"] /\ call' = [p \in Procs |-> Idle]
      /\ UNCHANGED <<base, up, changes, prs, box>>
      /\ \/ made' = "attached" /\ cut' = TRUE
         \/ UNCHANGED made /\ cut' = (cut \/ \E p \in Procs : pc[p] = "detach" /\ base[Main] # None)
  BY DEF Crash, remote
<1>2. pc' \in [Procs -> Labels] /\ call' \in [Procs -> Calls] /\ \A p \in Procs : pc'[p] = "idle" /\ call'[p] = Idle
  BY <1>1, IdleIs DEF Labels
<1>3. made' \in {"absent", "attached", "ready"} /\ cut' \in BOOLEAN
  BY <1>0, <1>1 DEF TypeInv
<1>4. TypeInv'
  BY <1>0, <1>1, <1>2, <1>3 DEF TypeInv
<1>5. ASSUME NEW p \in Procs PROVE OwnAt(p)' /\ TrailAt(p)'
  <2>1. mu' # p
    BY <1>1, NoneFacts
  <2> QED BY <1>2, <2>1, IdleHolds
<1>6. PrInv' /\ RefsOK(base', up'[Main]) /\ RefsOK(up', up'[Main]) /\ ChangesInv' /\ \A b \in Boxes : BoxAt(b)'
  BY <1>0, <1>1 DEF PrInv, TrailInv, ChangesInv, BoxAt
<1>7. BaseIsReady'
  <2>1. CASE made' = "attached" /\ cut' = TRUE
    BY <2>1 DEF BaseIsReady
  <2>2. CASE UNCHANGED made /\ cut' = (cut \/ \E p \in Procs : pc[p] = "detach" /\ base[Main] # None)
    <3>1. mu # None => mu \in Procs
      BY <1>0 DEF TypeInv
    <3> QED BY <1>0, <1>1, <2>2, <3>1 DEF BaseIsReady
  <2> QED BY <1>1, <2>1, <2>2
<1>8. ProcInv' /\ TrailInv'
  BY <1>5, <1>6 DEF ProcInv, TrailInv
<1> QED BY <1>4, <1>6, <1>7, <1>8 DEF GitInv

-----------------------------------------------------------------------------
(***************************************************************************)
(* The invariant                                                           *)
(***************************************************************************)
\* The node starts with the invariant.
LEMMA InitHolds ==
    ASSUME Init
    PROVE  GitInv
<1> DEFINE c == Commit(Upstream, None)
<1> DEFINE d == Commit(Upstream, Change)
<1> DEFINE root == <<c>>
<1> DEFINE patch == Append(root, d)
<1>0. /\ mu = None /\ made \in {"absent", "ready"} /\ cut = FALSE
      /\ up = [NoRefs EXCEPT ![Main] = root] \/ up = NoRefs
      /\ base = up \/ base = NoRefs
      /\ changes = [id \in ChangeIds |-> IF id = Change /\ provider = "gerrit" THEN patch ELSE None]
      /\ prs = [br \in Branches |-> 0]
      /\ box = [b \in Boxes |-> IF b \in Old /\ made = "ready" THEN Clone(Main) ELSE None]
      /\ pc = [p \in Procs |-> "idle"] /\ call = [p \in Procs |-> Idle]
  BY DEF Init
<1>1. c \in Commits /\ c.id = None /\ d \in Commits /\ d.id = Change
  BY CommitIs, NoneFacts
<1> HIDE DEF c, d
<1>2. root \in Hist /\ root \in Seq(Commits) /\ DOMAIN root = {1} /\ root[1] = c /\ Len(root) + 1 = 2
  BY SMTT(60), <1>1 DEF Hist
<1>3. patch \in Hist /\ DOMAIN patch = {1, 2} /\ patch[1] = c /\ patch[2] = d
  <2> HIDE DEF root
  <2> QED BY SMTT(60), <1>1, <1>2, Appended
<1> HIDE DEF root, patch
<1>4. \A i \in DOMAIN root : root[i].id = None
  BY <1>1, <1>2
<1>5. \A main : RefOK(Main, root, main)
  BY <1>4, NoneFacts DEF RefOK, Has
<1>6. \A main : RefOK(Review, patch, main)
  BY <1>1, <1>3, NoneFacts DEF RefOK, Has
<1>7. NoRefs \in Refs /\ \A main : RefsOK(NoRefs, main)
  BY DEF NoRefs, Refs, RefsOK, RefOK
<1>8. up \in Refs /\ \A main : RefsOK(up, main)
  <2>1. CASE up = [NoRefs EXCEPT ![Main] = root]
    <3>1. up \in Refs /\ \A br \in Branches : up[br] = IF br = Main THEN root ELSE None
      BY <1>2, <1>7, <2>1, NoneFacts DEF Refs, NoRefs
    <3> QED BY <1>5, <3>1 DEF RefsOK, RefOK
  <2> QED BY <1>0, <1>7, <2>1
<1>9. base \in Refs /\ \A main : RefsOK(base, main)
  BY <1>0, <1>7, <1>8
<1>10. /\ changes \in [ChangeIds -> Hist \cup {None}] /\ changes[Review] = None
       /\ changes[Change] = patch \/ changes[Change] = None
  BY <1>0, <1>3, NoneFacts
<1>11. Clone(Main) \in Clones /\ Clone(Main).refs = base
  BY <1>9, NoneFacts DEF Clones, Clone
<1>12. /\ box \in [Boxes -> Clones \cup {None}]
       /\ \A b \in Boxes : box[b] # None => box[b] = Clone(Main)
  BY <1>0, <1>11
<1>13. prs \in [Branches -> Nat] /\ PrInv
  BY SMTT(60), <1>0 DEF PrInv
<1>14. TypeInv
  <2>1. pc \in [Procs -> Labels] /\ call \in [Procs -> Calls]
    BY <1>0, IdleIs DEF Labels
  <2>2. mu \in Procs \cup {None} /\ made \in {"absent", "attached", "ready"} /\ cut \in BOOLEAN
    BY <1>0
  <2> QED BY <1>8, <1>9, <1>10, <1>12, <1>13, <2>1, <2>2 DEF TypeInv
<1>15. ASSUME NEW p \in Procs PROVE OwnAt(p) /\ TrailAt(p)
  <2>0. pc[p] = "idle" /\ call[p] = Idle /\ mu # p
    BY <1>0, NoneFacts
  <2>1. LockAt(p)
    BY <2>0 DEF LockAt, Holding
  <2>2. CallAt(p) /\ PreAt(p) /\ HeldAt(p)
    BY <2>0 DEF CallAt, PreAt, HeldAt
  <2>3. TrailAt(p)
    BY <2>0, IdleIs DEF TrailAt, RefsOK, RefOK
  <2> QED BY <2>1, <2>2, <2>3 DEF OwnAt
<1>16. ChangesInv /\ \A b \in Boxes : BoxAt(b)
  BY <1>6, <1>9, <1>10, <1>11, <1>12 DEF ChangesInv, BoxAt, RefOK
<1>17. BaseIsReady
  BY <1>0 DEF BaseIsReady
<1>18. ProcInv /\ TrailInv
  BY <1>8, <1>9, <1>15, <1>16 DEF ProcInv, TrailInv
<1> QED BY <1>13, <1>14, <1>17, <1>18 DEF GitInv

\* A request starts.
LEMMA RequestKeeps ==
    ASSUME GitInv, NEW p \in Procs, Request(p)
    PROVE  GitInv'
<1>1. UNCHANGED cut
  BY DEF Request
<1>2. PICK b \in Boxes : \/ \E review \in BOOLEAN : Provision(p, b, review)
                         \/ \E branches \in Selections : Publish(p, b, branches)
                         \/ \E strategy \in Strategies, target \in {Main, None} : PublishWork(p, b, strategy, target)
  BY DEF Request
<1> QED BY <1>1, <1>2, ProvisionKeeps, PublishKeeps, PublishWorkKeeps

\* A handler takes a step.
LEMMA ServeKeeps ==
    ASSUME GitInv, NEW p \in Procs, Serve(p)
    PROVE  GitInv'
BY EnsureBaseKeeps, CloneBaseKeeps, DetachKeeps, ResolveReviewHeadKeeps, FetchRefKeeps, PreLockKeeps,
   CreateKeeps, SourceBranchKeeps, BundleBranchesKeeps, FetchFromBundleKeeps, PushKeeps,
   PatchOrRefuseKeeps, ListRequestsKeeps, OpenRequestKeeps, GerritChangeKeeps DEF Serve

\* Nothing happens.
LEMMA StutterKeeps ==
    ASSUME GitInv, UNCHANGED vars
    PROVE  GitInv'
<1>1. UNCHANGED <<mu, made, base, up, changes, prs, box, pc, call, cut>>
  BY DEF vars, disk, remote, node
<1>2. TypeInv /\ TrailInv /\ up \in Refs /\ RefsOK(up, up[Main]) /\ \A b \in Boxes : BoxAt(b)
  BY DEF GitInv, TypeInv, TrailInv
<1>3. \A b \in Boxes : BoxAt(b)'
  BY <1>1, <1>2 DEF BoxAt
<1> QED BY <1>1, <1>2, <1>3, WorldKeeps DEF TypeInv

\* Every step keeps the invariant.
LEMMA NextKeeps ==
    ASSUME GitInv, [Next]_vars
    PROVE  GitInv'
BY RequestKeeps, ServeKeeps, AgentCommitKeeps, UpstreamCommitKeeps, CrashKeeps, StutterKeeps DEF Next

\* In every reachable state the holder of the lock works on the base it
\* fetched, and every branch carries the trailers its origin gives it.
THEOREM GitInvariant == Spec => []GitInv
<1>1. Init => GitInv
  BY InitHolds
<1>2. GitInv /\ [Next]_vars => GitInv'
  BY NextKeeps
<1> QED BY <1>1, <1>2, PTL DEF Spec

\* There is never a second pull request for a branch, and work on a review
\* never opens another change before the review's is merged (createOrUpdate,
\* existingChangeID).
THEOREM WorkIsDeliveredOnce == Spec => []OneDeliverable
<1>1. GitInv => OneDeliverable
  BY DEF GitInv, PrInv, TrailInv, ChangesInv, Merged, Has, OneDeliverable
<1> QED BY <1>1, GitInvariant, PTL

\* Only an interrupted EnsureBase leaves a base that is not detached.
THEOREM BasesAreDetached == Spec => []BaseIsReady
<1>1. GitInv => BaseIsReady
  BY DEF GitInv
<1> QED BY <1>1, GitInvariant, PTL

-----------------------------------------------------------------------------
(***************************************************************************)
(* What a step does to the upstream and to the clones                      *)
(***************************************************************************)
\* A step in which no handler pushes, and none creates a sandbox, leaves the
\* branches upstream and the set of sandboxes alone, but for commits there.
LEMMA QuietSteps ==
    ASSUME NEW p \in Procs, Request(p) \/ Serve(p)
    PROVE  /\ Push(p) \/ UNCHANGED up
           /\ GerritChange(p) \/ UNCHANGED changes
           /\ Create(p) \/ UNCHANGED box
<1>1. CASE Request(p)
  BY <1>1 DEF Request, Provision, Publish, PublishWork, remote
<1>2. CASE EnsureBase(p) \/ CloneBase(p) \/ Detach(p) \/ ResolveReviewHead(p) \/ FetchRef(p) \/ PreLock(p)
  BY <1>2 DEF EnsureBase, CloneBase, Detach, ResolveReviewHead, FetchRef, PreLock, remote
<1>3. CASE SourceBranch(p) \/ BundleBranches(p) \/ \E br \in Branches : FetchFromBundle(p, br)
  BY <1>3 DEF SourceBranch, BundleBranches, FetchFromBundle, remote
<1>4. CASE PatchOrRefuse(p) \/ ListRequests(p) \/ OpenRequest(p)
  BY <1>4 DEF PatchOrRefuse, ListRequests, OpenRequest, remote
<1>5. CASE Push(p) \/ GerritChange(p) \/ Create(p)
  BY <1>5 DEF Push, GerritChange, Create, remote
<1> QED BY <1>1, <1>2, <1>3, <1>4, <1>5 DEF Serve

\* A push puts the source branch of the base on its destination, if anything.
LEMMA PushIs ==
    ASSUME GitInv, NEW p \in Procs, Push(p), NEW br \in Branches
    PROVE  \/ up'[br] = up[br]
           \/ up'[br] = base[call[p].branch] /\ FastForward(up[br], up'[br])
<1> DEFINE dest == Dest(call[p])
<1> DEFINE new == base[call[p].branch]
<1>0. pc[p] = "push"
  BY DEF Push
<1>1. up \in Refs /\ dest \in Branches
  BY <1>0, PushFacts, NoneFacts
<1>2. (FastForward(up[dest], new) /\ up' = [up EXCEPT ![dest] = new]) \/ UNCHANGED up
  BY DEF Push
<1> HIDE DEF dest, new
<1>3. CASE UNCHANGED up
  BY <1>3
<1>4. CASE FastForward(up[dest], new) /\ up' = [up EXCEPT ![dest] = new]
  <2>1. up'[br] = IF br = dest THEN new ELSE up[br]
    BY <1>1, <1>4 DEF Refs
  <2> QED BY <1>4, <2>1 DEF new
<1> QED BY <1>2, <1>3, <1>4

\* A branch of a repository is None or a sequence of commits.
LEMMA BranchIs ==
    ASSUME TypeInv, NEW br \in Branches
    PROVE  /\ up[br] = None \/ up[br] \in Seq(Commits)
           /\ base[br] = None \/ base[br] \in Seq(Commits)
BY DEF TypeInv, Refs, Hist

\* No step takes a commit off a branch upstream: every push is a fast-forward.
LEMMA UpstreamIsKept ==
    ASSUME GitInv, [Next]_vars, NEW br \in Branches, up[br] # None
    PROVE  up'[br] # None /\ IsPrefix(up[br], up'[br])
<1>0. up[br] \in Seq(Commits)
  BY BranchIs DEF GitInv
<1>1. up'[br] = up[br] => up'[br] # None /\ IsPrefix(up[br], up'[br])
  BY <1>0, PrefixOfItself
<1>2. CASE \E p \in Procs : Request(p) \/ Serve(p)
  <2>1. PICK p \in Procs : Request(p) \/ Serve(p)
    BY <1>2
  <2>2. Push(p) => base[call[p].branch] # None
    BY PushFacts DEF Push
  <2> QED BY <1>1, <2>1, <2>2, QuietSteps, PushIs DEF FastForward
<1>3. CASE \E x \in Branches : UpstreamCommit(x)
  BY <1>1, <1>3, UpstreamCommitIs DEF GitInv, FastForward
<1>4. CASE (\E b \in Boxes, x \in Branches : AgentCommit(b, x)) \/ Crash \/ UNCHANGED vars
  BY <1>1, <1>4 DEF AgentCommit, Crash, vars, remote
<1> QED BY <1>2, <1>3, <1>4 DEF Next

-----------------------------------------------------------------------------
(***************************************************************************)
(* A branch of the base that was not overwritten is behind the upstream's  *)
(***************************************************************************)
BehindAt(br) ==
    base[br] = None \/ br \in overlaid \/ (up[br] # None /\ IsPrefix(base[br], up[br]))

Behind == \A br \in Branches : BehindAt(br)

\* What is behind a branch is behind what the branch becomes.
LEMMA PrefixOfMore ==
    ASSUME NEW f \in Seq(Commits), NEW g \in Seq(Commits), NEW h \in Seq(Commits),
           IsPrefix(f, g), IsPrefix(g, h)
    PROVE  IsPrefix(f, h)
<1>1. /\ Len(f) \in Nat /\ Len(g) \in Nat /\ Len(h) \in Nat /\ Len(f) <= Len(g) /\ Len(g) <= Len(h)
      /\ SubSeq(g, 1, Len(f)) = f /\ SubSeq(h, 1, Len(g)) = g
  BY SMTT(60) DEF IsPrefix
<1>2. /\ SubSeq(h, 1, Len(f)) \in Seq(Commits) /\ Len(SubSeq(h, 1, Len(f))) = Len(f)
      /\ \A i \in 1 .. Len(f) : SubSeq(h, 1, Len(f))[i] = h[i]
  BY SMTT(60), <1>1
<1>3. \A i \in 1 .. Len(f) : f[i] = g[i]
  BY SMTT(60), <1>1
<1>4. \A i \in 1 .. Len(g) : g[i] = h[i]
  BY SMTT(60), <1>1
<1>5. \A i \in 1 .. Len(f) : SubSeq(h, 1, Len(f))[i] = f[i]
  BY SMTT(60), <1>1, <1>2, <1>3, <1>4
<1>6. SubSeq(h, 1, Len(f)) = f
  BY SMTT(60), <1>2, <1>5
<1> QED BY SMTT(60), <1>1, <1>6 DEF IsPrefix

\* What a handler's step does to a branch of the base: it leaves it, brings
\* the upstream's, or records that it was written from elsewhere.
LEMMA BaseSteps ==
    ASSUME GitInv, NEW p \in Procs, Request(p) \/ Serve(p), NEW br \in Branches
    PROVE  \/ base'[br] = base[br] /\ (br \in overlaid => br \in overlaid')
           \/ base'[br] = up[br] /\ up' = up
           \/ br \in overlaid'
           \/ Push(p)
<1>0. base \in Refs /\ Main \in Branches /\ TypeInv /\ TrailInv
  BY NoneFacts DEF GitInv, TypeInv
<1>1. CASE UNCHANGED disk
  BY <1>1 DEF disk
<1>2. CASE CloneBase(p)
  <2>1. (base' = [base EXCEPT ![Main] = up[Main]] \/ UNCHANGED base) /\ UNCHANGED <<overlaid, up>>
    BY <1>2 DEF CloneBase, remote
  <2> QED BY <1>0, <2>1 DEF Refs
<1>3. CASE Detach(p)
  BY <1>3 DEF Detach
<1>4. CASE FetchRef(p)
  <2>1. \/ base' = [base EXCEPT ![Review] = call[p].patchset] /\ overlaid' = overlaid \cup {Review}
        \/ UNCHANGED <<base, overlaid>>
    BY <1>4 DEF FetchRef
  <2> QED BY <1>0, <2>1 DEF Refs
<1>5. CASE PreLock(p)
  <2>1. \/ UNCHANGED <<base, overlaid>>
        \/ up' = up /\ \E got \in SUBSET Branches : base' = Fetched(got) /\ overlaid' = Uncovered(got)
    BY <1>5 DEF PreLock, remote
  <2>2. ASSUME NEW got \in SUBSET Branches, base' = Fetched(got), overlaid' = Uncovered(got), up' = up
        PROVE  \/ base'[br] = base[br] /\ (br \in overlaid => br \in overlaid')
               \/ base'[br] = up[br] /\ up' = up
    <3>1. \/ base'[br] = base[br] /\ (br \in got => up[br] = None)
          \/ base'[br] = up[br]
      BY <1>0, <2>2, FetchedIs
    <3> QED BY <2>2, <3>1 DEF Uncovered
  <2> QED BY <2>1, <2>2
<1>6. CASE \E x \in Branches : FetchFromBundle(p, x)
  <2>1. PICK x \in Branches : FetchFromBundle(p, x)
    BY <1>6
  <2>2. \/ base' = [base EXCEPT ![x] = call[p].refs[x]] /\ overlaid' = overlaid \cup {x}
        \/ UNCHANGED <<base, overlaid>>
    BY <2>1 DEF FetchFromBundle
  <2> QED BY <1>0, <2>2 DEF Refs
<1>7. CASE Request(p)
  BY <1>1, <1>7 DEF Request, Provision, Publish, PublishWork
<1>8. CASE EnsureBase(p) \/ ResolveReviewHead(p) \/ Create(p) \/ SourceBranch(p) \/ BundleBranches(p)
  BY <1>1, <1>8 DEF EnsureBase, ResolveReviewHead, Create, SourceBranch, BundleBranches
<1>9. CASE PatchOrRefuse(p) \/ ListRequests(p) \/ OpenRequest(p) \/ GerritChange(p)
  BY <1>1, <1>9 DEF PatchOrRefuse, ListRequests, OpenRequest, GerritChange
<1> QED BY <1>2, <1>3, <1>4, <1>5, <1>6, <1>7, <1>8, <1>9 DEF Serve

\* The invariant of a branch follows its upstream.
LEMMA BehindGrows ==
    ASSUME GitInv, [Next]_vars, NEW br \in Branches, BehindAt(br),
           base'[br] = base[br], br \in overlaid => br \in overlaid'
    PROVE  BehindAt(br)'
<1>1. CASE base[br] = None \/ br \in overlaid
  BY <1>1 DEF BehindAt
<1>2. CASE base[br] # None /\ br \notin overlaid
  <2>1. up[br] # None /\ IsPrefix(base[br], up[br])
    BY <1>2 DEF BehindAt
  <2>2. up'[br] # None /\ IsPrefix(up[br], up'[br])
    BY <2>1, UpstreamIsKept
  <2>3. up'[br] \in Hist \cup {None}
    BY NextKeeps DEF GitInv, TypeInv, Refs
  <2>4. base[br] \in Seq(Commits) /\ up[br] \in Seq(Commits) /\ up'[br] \in Seq(Commits)
    BY <1>2, <2>1, <2>2, <2>3, BranchIs DEF GitInv, Hist
  <2>5. IsPrefix(base[br], up'[br])
    BY <2>1, <2>2, <2>4, PrefixOfMore
  <2> QED BY <2>2, <2>5 DEF BehindAt
<1> QED BY <1>1, <1>2

\* A push of a branch to its own name brings the upstream to the base.
LEMMA PushBehind ==
    ASSUME GitInv, NEW p \in Procs, Push(p), NEW br \in Branches
    PROVE  /\ base'[br] = base[br]
           /\ \/ br \in overlaid => br \in overlaid'
              \/ up'[br] = base[br] /\ base[br] \in Hist /\ base[br] # None
<1>0. pc[p] = "push" /\ base' = base
  BY DEF Push
<1>1. /\ up \in Refs /\ base[call[p].branch] \in Hist /\ base[call[p].branch] # None
  BY <1>0, PushFacts
<1>2. \/ UNCHANGED overlaid
      \/ /\ up' = [up EXCEPT ![Dest(call[p])] = base[call[p].branch]]
         /\ overlaid' = overlaid \ ({call[p].branch} \cap {Dest(call[p])})
  BY DEF Push
<1>3. CASE UNCHANGED overlaid
  BY <1>0, <1>3
<1>4. CASE /\ up' = [up EXCEPT ![Dest(call[p])] = base[call[p].branch]]
           /\ overlaid' = overlaid \ ({call[p].branch} \cap {Dest(call[p])})
  <2>1. CASE br = call[p].branch /\ br = Dest(call[p])
    <3>1. up'[br] = base[br]
      BY <1>1, <1>4, <2>1 DEF Refs
    <3> QED BY <1>0, <1>1, <2>1, <3>1
  <2>2. CASE ~(br = call[p].branch /\ br = Dest(call[p]))
    BY <1>0, <1>4, <2>2
  <2> QED BY <2>1, <2>2
<1> QED BY <1>2, <1>3, <1>4

\* Every step keeps the branches behind that no bundle overwrote.
LEMMA NextBehind ==
    ASSUME GitInv, [Next]_vars, Behind
    PROVE  Behind'
<1> SUFFICES ASSUME NEW br \in Branches PROVE BehindAt(br)'
  BY DEF Behind
<1>0. BehindAt(br) /\ (up[br] = None \/ up[br] \in Seq(Commits)) /\ (base[br] = None \/ base[br] \in Seq(Commits))
  BY BranchIs DEF Behind, GitInv
<1>1. CASE \E p \in Procs : Request(p) \/ Serve(p)
  <2>0. PICK p \in Procs : Request(p) \/ Serve(p)
    BY <1>1
  <2>1. CASE base'[br] = base[br] /\ (br \in overlaid => br \in overlaid')
    BY <1>0, <2>1, BehindGrows
  <2>2. CASE base'[br] = up[br] /\ up' = up
    BY <1>0, <2>2, PrefixOfItself DEF BehindAt
  <2>3. CASE br \in overlaid'
    BY <2>3 DEF BehindAt
  <2>4. CASE Push(p)
    <3>1. CASE up'[br] = base[br] /\ base'[br] = base[br] /\ base[br] # None
      BY <1>0, <3>1, PrefixOfItself DEF BehindAt
    <3> QED BY <2>1, <2>4, <3>1, PushBehind
  <2> QED BY <2>0, <2>1, <2>2, <2>3, <2>4, BaseSteps
<1>2. CASE (\E b \in Boxes, x \in Branches : AgentCommit(b, x)) \/ (\E x \in Branches : UpstreamCommit(x))
           \/ Crash \/ UNCHANGED vars
  <2>1. UNCHANGED <<base, overlaid>>
    BY <1>2 DEF AgentCommit, UpstreamCommit, Crash, vars, disk
  <2> QED BY <1>0, <2>1, BehindGrows
<1> QED BY <1>1, <1>2 DEF Next

\* The base starts as a copy of the upstream, or empty.
LEMMA InitBehind ==
    ASSUME Init
    PROVE  Behind
<1> SUFFICES ASSUME NEW br \in Branches PROVE BehindAt(br)
  BY DEF Behind
<1>1. base = up \/ base[br] = None
  BY DEF Init, NoRefs
<1>2. base[br] = None \/ base[br] \in Seq(Commits)
  BY InitHolds, BranchIs DEF GitInv
<1> QED BY <1>1, <1>2, PrefixOfItself DEF BehindAt

\* A branch of the base is behind the upstream's unless a bundle, or a
\* patchset, has overwritten it since it was fetched.
THEOREM BaseIsBehind == Spec => []Behind
<1>1. Init => Behind
  BY InitBehind
<1>2. GitInv /\ Behind /\ [Next]_vars => Behind'
  BY NextBehind
<1> QED BY <1>1, <1>2, GitInvariant, PTL DEF Spec

\* What is left of a branch without the commit that was put on it.
LEMMA FrontOfAppend ==
    ASSUME NEW h \in Seq(Commits), NEW c \in Commits
    PROVE  Front(Append(h, c)) = h
BY SMTT(60) DEF Front

\* A squashed commit is by the author of the source branch's last one, and
\* sits on the base's target.
LEMMA GerritChangeIs ==
    ASSUME GitInv, NEW p \in Procs, GerritChange(p), NEW i \in ChangeIds, changes'[i] # changes[i]
    PROVE  /\ Last(changes'[i]).by = Last(base[call[p].branch]).by
           /\ call[p].target = Main /\ base[Main] # None /\ Front(changes'[i]) = base[Main]
<1> DEFINE id == ChangeId(call[p].branch, Main)
<1> DEFINE author == Last(base[call[p].branch]).by
<1> DEFINE squashed == Append(base[Main], Commit(author, id))
<1>0. pc[p] = "push" /\ call[p].target # None
  BY DEF GerritChange
<1>1. /\ TypeInv /\ TrailInv /\ call[p].branch \in Branches /\ base[call[p].branch] # None
      /\ changes \in [ChangeIds -> Hist \cup {None}]
  BY <1>0, PushFacts DEF TypeInv
<1>2. call[p].target = Main
  BY <1>0, <1>1, CallFacts DEF TypeInv
<1>3. (base[Main] # None /\ changes' = [changes EXCEPT ![id] = squashed]) \/ UNCHANGED changes
  BY <1>2 DEF GerritChange
<1>4. CASE UNCHANGED changes
  BY <1>4
<1>5. CASE base[Main] # None /\ changes' = [changes EXCEPT ![id] = squashed]
  <2>1. id \in ChangeIds
    BY <1>1, <1>5, ChangeIdIs
  <2> HIDE DEF id
  <2>2. /\ Commit(author, id) \in Commits /\ Commit(author, id).by = author
        /\ base[Main] \in Seq(Commits) /\ Last(squashed) = Commit(author, id)
    BY <1>0, <1>5, <2>1, SquashedIs
  <2>3. changes'[i] = squashed
    BY <1>1, <1>5
  <2>4. Last(squashed).by = author
    BY <2>2
  <2>5. Front(squashed) = base[Main]
    BY <2>2, FrontOfAppend
  <2> QED BY <1>2, <1>5, <2>3, <2>4, <2>5
<1> QED BY <1>3, <1>4, <1>5

\* Of the goroutines at a push, or creating a sandbox, there is one.
LEMMA OneHolder ==
    ASSUME GitInv, NEW p \in Procs, NEW q \in Procs, pc[p] \in Holding, pc[q] \in Holding
    PROVE  p = q
BY DEF GitInv, ProcInv, OwnAt, LockAt

\* What a publish puts upstream is what its sandbox had when it was bundled,
\* as the base's branch is still the bundle's when it is pushed; and a change
\* is one commit of its own on what the target has upstream, unless a bundle
\* overwrote the target in the base.
THEOREM PublishesOwnWork == Spec => DeliversOwn
<1> DEFINE Own(p) ==
      pc[p] = "push" /\ pc'[p] # "push" =>
        LET own == call[p].refs[call[p].branch]
            target == call[p].target IN
        /\ \A br \in Branches : up'[br] # up[br] => up'[br] = own
        /\ \A id \in ChangeIds : changes'[id] # changes[id] =>
               /\ Last(changes'[id]).by = Last(own).by
               /\ target \in overlaid \/ IsPrefix(Front(changes'[id]), up[target])
<1>1. ASSUME GitInv, Behind, [Next]_vars, NEW p \in Procs, pc[p] = "push", pc'[p] # "push"
      PROVE  /\ \A br \in Branches : up'[br] # up[br] => up'[br] = base[call[p].branch]
             /\ \A id \in ChangeIds : changes'[id] # changes[id] =>
                    /\ Last(changes'[id]).by = Last(base[call[p].branch]).by
                    /\ call[p].target \in overlaid \/ IsPrefix(Front(changes'[id]), up[call[p].target])
  <2>1. CASE \E q \in Procs : Request(q) \/ Serve(q)
    <3>0. PICK q \in Procs : Request(q) \/ Serve(q)
      BY <2>1
    <3>1. Push(q) \/ GerritChange(q) => q = p
      <4>1. Push(q) \/ GerritChange(q) => pc[q] = "push"
        BY DEF Push, GerritChange
      <4> QED BY <1>1, <4>1, OneHolder DEF Holding
    <3>2. CASE Push(q)
      BY <1>1, <3>0, <3>1, <3>2, PushIs DEF Push
    <3>3. CASE GerritChange(q)
      <4>1. q = p /\ UNCHANGED up
        BY <3>1, <3>3 DEF GerritChange
      <4>2. BehindAt(Main)
        BY <1>1, NoneFacts DEF Behind
      <4>3. ASSUME NEW id \in ChangeIds, changes'[id] # changes[id]
            PROVE  /\ Last(changes'[id]).by = Last(base[call[p].branch]).by
                   /\ call[p].target \in overlaid \/ IsPrefix(Front(changes'[id]), up[call[p].target])
        <5>1. /\ Last(changes'[id]).by = Last(base[call[p].branch]).by
              /\ call[p].target = Main /\ base[Main] # None /\ Front(changes'[id]) = base[Main]
          BY <1>1, <3>3, <4>1, <4>3, GerritChangeIs
        <5> QED BY <4>2, <5>1 DEF BehindAt
      <4> QED BY <4>1, <4>3
    <3> QED BY <3>0, <3>2, <3>3, QuietSteps
  <2>2. CASE \E x \in Branches : UpstreamCommit(x)
    BY <1>1, <2>2 DEF UpstreamCommit
  <2>3. CASE (\E b \in Boxes, x \in Branches : AgentCommit(b, x)) \/ Crash \/ UNCHANGED vars
    BY <2>3 DEF AgentCommit, Crash, vars, remote
  <2> QED BY <1>1, <2>1, <2>2, <2>3 DEF Next
<1>2. ASSUME GitInv, Behind, [Next]_vars, NEW p \in Procs PROVE Own(p)
  <2>1. pc[p] = "push" => base[call[p].branch] = call[p].refs[call[p].branch]
    BY <1>2, PushFacts
  <2> QED BY <1>1, <1>2, <2>1
<1>3. GitInv /\ Behind /\ [Next]_vars => [\A p \in Procs : Own(p)]_vars
  <2> HIDE DEF Own
  <2> QED BY <1>2
<1> QED BY <1>3, GitInvariant, BaseIsBehind, PTL DEF Spec, DeliversOwn

\* The daemon clones the base, and the base has what its maker fetched.
LEMMA CreateIs ==
    ASSUME GitInv, NEW p \in Procs, Create(p), NEW b \in Boxes, box[b] = None, box'[b] # None
    PROVE  b = call[p].box /\ box'[b].refs = base
<1>0. box \in [Boxes -> Clones \cup {None}]
  BY DEF GitInv, TypeInv
<1>1. box' = [box EXCEPT ![call[p].box] = Clone(call[p].branch)]
  BY DEF Create
<1>2. b = call[p].box /\ box'[b] = Clone(call[p].branch)
  BY <1>0, <1>1
<1> QED BY SMTT(60), <1>2 DEF Clone

\* A new sandbox has what the upstream had at its fetch, and a review's the
\* patchset it asked for: the base does not move under a provision that has
\* the lock.
THEOREM ClonesAreFetched == Spec => CloneIsUpstream
<1> DEFINE Cloned(p) ==
      pc[p] = "create" /\ box' # box =>
        LET b == call[p].box IN
        box[b] = None /\ box'[b] # None =>
            /\ \A br \in Branches : call[p].refs[br] # None => box'[b].refs[br] = call[p].refs[br]
            /\ call[p].patchset # None =>
                   \/ box'[b].refs[Review] = call[p].patchset
                   \/ call[p].stolen \/ call[p].refs[Review] # None
<1>1. ASSUME GitInv, [Next]_vars, NEW p \in Procs, pc[p] = "create", box[call[p].box] = None,
             box'[call[p].box] # None
      PROVE  box'[call[p].box].refs = base
  <2>0. call[p].box \in Boxes /\ box \in [Boxes -> Clones \cup {None}]
    BY <1>1 DEF GitInv, TypeInv, ProcInv, OwnAt, CallAt
  <2>1. CASE \E q \in Procs : Request(q) \/ Serve(q)
    <3>0. PICK q \in Procs : Request(q) \/ Serve(q)
      BY <2>1
    <3>1. Create(q)
      BY <1>1, <3>0, QuietSteps
    <3> QED BY <1>1, <2>0, <3>1, CreateIs
  <2>2. CASE \E b \in Boxes, x \in Branches : AgentCommit(b, x)
    <3>1. PICK b \in Boxes, x \in Branches : AgentCommit(b, x)
      BY <2>2
    <3>2. box[b] # None /\ \A y \in Boxes : y # b => box'[y] = box[y]
      BY <2>0, <3>1 DEF AgentCommit
    <3> QED BY <1>1, <2>0, <3>2
  <2>3. CASE (\E x \in Branches : UpstreamCommit(x)) \/ Crash \/ UNCHANGED vars
    BY <1>1, <2>3 DEF UpstreamCommit, Crash, vars
  <2> QED BY <1>1, <2>1, <2>2, <2>3 DEF Next
<1>2. ASSUME GitInv, [Next]_vars, NEW p \in Procs PROVE Cloned(p)
  <2>1. HeldAt(p)
    BY <1>2 DEF GitInv, ProcInv, OwnAt
  <2>2. SUFFICES ASSUME pc[p] = "create", box[call[p].box] = None, box'[call[p].box] # None
                 PROVE  /\ \A br \in Branches : call[p].refs[br] # None => box'[call[p].box].refs[br] = call[p].refs[br]
                        /\ call[p].patchset # None =>
                               \/ box'[call[p].box].refs[Review] = call[p].patchset
                               \/ call[p].stolen \/ call[p].refs[Review] # None
    OBVIOUS
  <2>3. box'[call[p].box].refs = base
    BY <1>1, <1>2, <2>2
  <2> QED BY <2>1, <2>2, <2>3 DEF HeldAt
<1>3. GitInv /\ [Next]_vars => [\A p \in Procs : Cloned(p)]_vars
  <2> HIDE DEF Cloned
  <2> QED BY <1>2
<1> QED BY <1>3, GitInvariant, PTL DEF Spec, CloneIsUpstream

=============================================================================
