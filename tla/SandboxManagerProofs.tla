------------------------ MODULE SandboxManagerProofs ------------------------
(***************************************************************************)
(* Machine-checked proofs about SandboxManager, for every number of        *)
(* callers, sweepers and ids, every set of failing calls and every bound:  *)
(* the inductive invariant IInv, that Init establishes it and every step   *)
(* preserves it, and what follows from it.                                 *)
(***************************************************************************)
EXTENDS SandboxManager, TLAPS

\* Most leaves are first-order; those that need more name SMTT.
\* The times are generous, so that no proof depends on how busy a machine is.
USE ZenonT(60)

\* What a goroutine's locals hold at each of its steps.
ControlOf(p) ==
    /\ pc[p] \in {"idle", "listrecs", "mark", "sweep"} => op[p] = None
    /\ pc[p] \in {"create", "save"} => op[p] = "create" /\ copy[p] \in Records
    /\ pc[p] \in {"release", "list", "commit"} => op[p] = "create"
    /\ pc[p] \in {"notify", "owned"} => op[p] \in {"create", "delete"}
    /\ pc[p] = "rpc" => op[p] \in {"start", "stop"}
    /\ pc[p] \in {"lock", "write"} => op[p] \in {"start", "stop", "bump", "exec", "lost"}
    /\ pc[p] \in {"reap", "remove", "unrecord"} => op[p] = "delete"
    /\ pc[p] \in {"save", "rpc", "lock", "write", "exec", "reap", "remove", "unrecord"}
          => arg[p] \in Ids
    /\ op[p] = "lost" => /\ p = Ticker /\ pc[p] \in {"lock", "write"}
                         /\ snap[p] \in Stores /\ snap[p][arg[p]] # None
    /\ pc[p] = "exec" => op[p] = "exec"
    /\ op[p] \in {"create", "delete"} => p \in Callers
    /\ p = Ticker /\ pc[p] # "idle" => pc[p] = "listrecs" \/ snap[p] \in Stores
    /\ p = Ticker => /\ pc[p] \in {"idle", "listrecs", "mark", "lock", "write"}
                     /\ op[p] \in {None, "lost"}
    /\ p = Ticker /\ todo[p] # {} => pc[p] \in {"mark", "lock", "write"}
    /\ p = Ticker => \A id \in todo[p] : id \in Ids /\ snap[p][id] # None

Control == \A p \in Procs : ControlOf(p)

\* Manager.mu is held exactly by the goroutine between mutate's read and its save.
Locking ==
    /\ \A p \in Procs : mu = p <=> pc[p] = "write"
    /\ \A p \in Procs : pc[p] = "write" => copy[p] = records[arg[p]] /\ copy[p] # None

\* An id is used once: a create about to save owns its id alone.
FreshIds ==
    /\ removed \subseteq issued
    /\ \A id \in Ids : records[id] # None \/ daemon[id] # "absent" => id \in issued
    /\ \A p \in Procs : pc[p] = "save" =>
        /\ arg[p] \in issued \ removed
        /\ records[arg[p]] = None
        /\ \A q \in Procs : pc[q] = "save" /\ arg[q] = arg[p] => q = p
    /\ \A p \in Procs : pc[p] \in {"remove", "unrecord"} =>
        /\ arg[p] \in issued
        /\ \A q \in Procs : pc[q] = "save" => arg[q] # arg[p]
    /\ \A p \in Procs : pc[p] = "unrecord" => daemon[arg[p]] = "absent"

IInv ==
    /\ TypeOK /\ Control /\ Locking /\ FreshIds
    /\ NoReservationLeak /\ NoResurrection /\ DeletedIsGone /\ OrphanOnlyFromCreate

\* Where a goroutine goes on after an operation.
LEMMA ResumeLabel ==
    ASSUME NEW p
    PROVE  (Resume(p) = "mark" /\ p = Ticker) \/ (Resume(p) \in {"idle", "sweep"} /\ p # Ticker)
BY DEF Resume

\* The state New builds satisfies the invariant.
LEMMA InitInv == Init => IInv
<1> SUFFICES ASSUME Init PROVE IInv OBVIOUS
<1> USE ManagerAssumption DEF Init, NewCapacity
<1>1. TypeOK
    BY DEF TypeOK, Stores, Labels
<1>2. Control
    BY DEF Control, ControlOf, Ops
<1>3. Locking /\ FreshIds
    BY DEF Locking, FreshIds
<1>4. NoReservationLeak
    BY DEF NoReservationLeak
<1>5. NoResurrection /\ DeletedIsGone /\ OrphanOnlyFromCreate
    BY DEF NoResurrection, DeletedIsGone, OrphanOnlyFromCreate
<1> QED BY <1>1, <1>2, <1>3, <1>4, <1>5 DEF IInv

-----------------------------------------------------------------------------
\* What the goroutines other than p hold stays as it is.
Others(p) ==
    \A q \in Procs : q # p =>
        /\ pc'[q] = pc[q] /\ op'[q] = op[q] /\ arg'[q] = arg[q] /\ copy'[q] = copy[q]
        /\ snap'[q] = snap[q] /\ todo'[q] = todo[q] /\ resv'[q] = resv[q]

\* The reservation of one goroutine.
ReservedOf(p) ==
    resv[p] # None <=>
        op[p] = "create" /\ pc[p] \in {"create", "save", "release", "notify", "owned", "list", "commit"}

\* A goroutine's step: its own control and reservation are to be looked at.
LEMMA StepControl ==
    ASSUME Control, NEW p \in Procs, Others(p), ControlOf(p)'
    PROVE  Control'
<1> SUFFICES ASSUME NEW q \in Procs, q # p PROVE ControlOf(q)' BY DEF Control
<1>1. ControlOf(q) BY DEF Control
<1>2. /\ pc'[q] = pc[q] /\ op'[q] = op[q] /\ arg'[q] = arg[q] /\ copy'[q] = copy[q]
      /\ snap'[q] = snap[q] /\ todo'[q] = todo[q]
  BY DEF Others
<1> QED BY <1>1, <1>2 DEF ControlOf

\* The reservations of the others stay as they are.
LEMMA StepReserved ==
    ASSUME NoReservationLeak, NEW p \in Procs, Others(p), ReservedOf(p)'
    PROVE  NoReservationLeak'
<1> SUFFICES ASSUME NEW q \in Procs, q # p PROVE ReservedOf(q)' BY DEF NoReservationLeak, ReservedOf
<1>1. ReservedOf(q) BY DEF NoReservationLeak, ReservedOf
<1>2. pc'[q] = pc[q] /\ op'[q] = op[q] /\ resv'[q] = resv[q]
  BY DEF Others
<1> QED BY <1>1, <1>2 DEF ReservedOf

\* A step of p that writes neither the store nor an id's history, makes no
\* container appear, and neither enters the steps that rely on them nor leaves
\* a create that is about to save.
Calm(p) ==
    /\ UNCHANGED <<records, issued, removed, leaked>>
    /\ \A id \in Ids : daemon[id] = "absent" => daemon'[id] = "absent"
    /\ Others(p)
    /\ \/ pc'[p] = pc[p] /\ arg'[p] = arg[p]
       \/ pc[p] # "save" /\ pc'[p] \notin {"save", "remove", "unrecord"}

\* A calm step keeps everything but types, p's control and reservation, and the lock.
LEMMA CalmInv ==
    ASSUME IInv, NEW p \in Procs, Calm(p), TypeOK', ControlOf(p)', ReservedOf(p)', Locking'
    PROVE  IInv'
<1> USE DEF IInv
<1>0. /\ UNCHANGED <<records, issued, removed, leaked>>
      /\ \A id \in Ids : daemon[id] = "absent" => daemon'[id] = "absent"
      /\ \A q \in Procs :
            \/ pc'[q] = pc[q] /\ arg'[q] = arg[q]
            \/ pc[q] # "save" /\ pc'[q] \notin {"save", "remove", "unrecord"}
    BY DEF Calm, Others
<1>1. \A q \in Procs : pc[q] = "unrecord" => arg[q] \in Ids
    BY DEF Control, ControlOf
<1>2. FreshIds'
    BY SMTT(60), <1>0, <1>1 DEF FreshIds
<1>3. NoResurrection' /\ DeletedIsGone'
    BY <1>0 DEF NoResurrection, DeletedIsGone, TypeOK
<1>4. OrphanOnlyFromCreate'
    BY SMTT(60), <1>0, ManagerAssumption DEF OrphanOnlyFromCreate
<1>5. Control' /\ NoReservationLeak'
    BY StepControl, StepReserved DEF Calm
<1> QED BY <1>2, <1>3, <1>4, <1>5

\* A calm step that has nothing to do with the lock either.
Busy == {"save", "write", "remove", "unrecord"}
Inert(p) ==
    /\ Calm(p) /\ mu' = mu
    /\ \/ pc'[p] = pc[p] /\ arg'[p] = arg[p] /\ copy'[p] = copy[p]
       \/ pc[p] \notin {"save", "write"} /\ pc'[p] \notin Busy

\* An inert step keeps everything but types, p's control and its reservation.
LEMMA InertInv ==
    ASSUME IInv, NEW p \in Procs, Inert(p), TypeOK', ControlOf(p)', ReservedOf(p)'
    PROVE  IInv'
<1>1. /\ records' = records /\ mu' = mu
      /\ \A q \in Procs :
            \/ pc'[q] = pc[q] /\ arg'[q] = arg[q] /\ copy'[q] = copy[q]
            \/ pc[q] # "write" /\ pc'[q] # "write"
    BY DEF Inert, Calm, Others, Busy
<1>2. Locking'
    BY <1>1 DEF IInv, Locking
<1> QED BY <1>2, CalmInv DEF Inert

\* A step of p's call changes p's call alone, and keeps the types.
Stepped(p) ==
    /\ pc' \in [Procs -> Labels] /\ op' \in [Procs -> Ops \cup {None}]
    /\ arg' \in [Procs -> Ids \cup {None}] /\ copy' \in [Procs -> Records \cup {None}]
    /\ \A q \in Procs : q # p =>
        pc'[q] = pc[q] /\ op'[q] = op[q] /\ arg'[q] = arg[q] /\ copy'[q] = copy[q]

\* The locals that are not a call's stay with their goroutines.
LEMMA SteppedOthers ==
    ASSUME NEW p \in Procs, Stepped(p), UNCHANGED <<snap, todo, resv>>
    PROVE  Others(p)
BY DEF Stepped, Others

\* What is left of the types when a step changes p's call, the store and the daemon.
LEMMA SteppedType ==
    ASSUME TypeOK, NEW p \in Procs, Stepped(p),
           records' \in Stores, daemon' \in [Ids -> {"absent", "running", "stopped"}],
           mu' \in Procs \cup {None}, issued' \subseteq Ids, removed' \subseteq Ids, leaked' \subseteq Ids,
           UNCHANGED <<owned, snap, alive, todo, resv, phase, now, crashes, losses>>
    PROVE  TypeOK'
BY DEF TypeOK, Stepped

\* A call that returns to its goroutine.
Returned(p) == pc'[p] = Resume(p) /\ op'[p] = None /\ arg'[p] = None /\ copy'[p] = None

\* What Return does to p's call.
LEMMA Returning ==
    ASSUME TypeOK, NEW p \in Procs, Return(p)
    PROVE  Stepped(p) /\ Returned(p) /\ pc'[p] \notin Busy
<1>1. Resume(p) \in Labels \ Busy
    BY ResumeLabel DEF Labels, Busy
<1>2. pc' \in [Procs -> Labels] /\ op' \in [Procs -> Ops \cup {None}]
    BY <1>1 DEF TypeOK, Return, Goto
<1>3. arg' \in [Procs -> Ids \cup {None}] /\ copy' \in [Procs -> Records \cup {None}]
    BY DEF TypeOK, Return
<1>4. \A q \in Procs : q # p =>
        pc'[q] = pc[q] /\ op'[q] = op[q] /\ arg'[q] = arg[q] /\ copy'[q] = copy[q]
    BY DEF TypeOK, Return, Goto
<1>5. Returned(p)
    BY DEF TypeOK, Return, Goto, Returned
<1> QED BY <1>1, <1>2, <1>3, <1>4, <1>5 DEF Stepped, Returned

\* A goroutine that moves on with what it holds.
LEMMA Moving ==
    ASSUME TypeOK, NEW p \in Procs, NEW label \in Labels, Goto(p, label), UNCHANGED <<op, arg, copy>>
    PROVE  Stepped(p) /\ pc'[p] = label
BY DEF TypeOK, Goto, Stepped

\* Whoever returned is between two operations; for the ticker, its loop goes on.
LEMMA ReturnedControl ==
    ASSUME NEW p \in Procs, p # Ticker, Returned(p)
    PROVE  ControlOf(p)' /\ (resv'[p] = None => ReservedOf(p)')
<1>1. pc'[p] \in {"idle", "sweep"} /\ op'[p] = None
    BY ResumeLabel DEF Returned
<1>2. ControlOf(p)'
    BY <1>1, ManagerAssumption DEF ControlOf, Ops
<1>3. resv'[p] = None => ReservedOf(p)'
    BY <1>1 DEF ReservedOf
<1> QED BY <1>2, <1>3

(***************************************************************************)
(* Every action of Next keeps the invariant.                               *)
(***************************************************************************)

\* AdmitAndCreate up to its reservation.
LEMMA AdmitAndCreateInv ==
    ASSUME IInv, NEW p \in Callers, NEW s \in Specs, AdmitAndCreate(p, s)
    PROVE  IInv'
<1> USE ManagerAssumption, CapacityAssumption DEF IInv
<1> DEFINE rec == [status |-> "running", spec |-> s, last |-> 0]
<1>1. rec \in Records
    BY SMTT(60) DEF Records, Statuses
<1>2. /\ copy' = [copy EXCEPT ![p] = rec] /\ resv' = [resv EXCEPT ![p] = Cost[s]]
      /\ op' = [op EXCEPT ![p] = "create"] /\ arg' = [arg EXCEPT ![p] = None]
      /\ pc' = [pc EXCEPT ![p] = "create"] /\ pc[p] = "idle"
      /\ UNCHANGED <<records, daemon, mu, owned, issued, snap, alive, todo, removed, leaked,
                     phase, now, crashes, losses>>
    BY DEF AdmitAndCreate, Begin, Goto, TryReserve, history, world
<1> HIDE DEF rec
<1>3. TypeOK'
    BY <1>1, <1>2 DEF TypeOK, Labels, Ops
<1>4. /\ p \in Procs /\ p # Ticker /\ resv'[p] # None
      /\ pc'[p] = "create" /\ op'[p] = "create" /\ copy'[p] = rec
    <2>1. Cost[s] \in Amounts
        OBVIOUS
    <2>2. Cost[s] # None
        BY <2>1
    <2>3. p \in Procs /\ p # Ticker
        OBVIOUS
    <2>4. resv'[p] = Cost[s] /\ pc'[p] = "create" /\ op'[p] = "create" /\ copy'[p] = rec
        BY <1>2, <2>3 DEF TypeOK
    <2> QED BY <2>2, <2>3, <2>4
<1>5. Inert(p)
    BY <1>2, <1>4 DEF Inert, Calm, Busy, Others, TypeOK
<1>6. ControlOf(p)'
    BY <1>1, <1>4 DEF ControlOf
<1>7. ReservedOf(p)'
    BY <1>4 DEF ReservedOf
<1> QED BY <1>3, <1>4, <1>5, <1>6, <1>7, InertInv

\* The Get at the head of lifecycle.
LEMMA StartStopInv ==
    ASSUME IInv, NEW p \in Callers, NEW id \in Ids, NEW o \in {"start", "stop"}, StartStop(p, id, o)
    PROVE  IInv'
<1> USE ManagerAssumption DEF IInv
<1>1. TypeOK'
    BY DEF TypeOK, Labels, Ops, StartStop, Begin, Goto, capacityVars, history, world
<1>2. /\ p \in Procs /\ p # Ticker /\ pc[p] = "idle" /\ resv'[p] = resv[p]
      /\ pc'[p] = "rpc" /\ op'[p] = o /\ arg'[p] = id
    BY DEF TypeOK, StartStop, Begin, Goto, capacityVars
<1>3. Inert(p)
    BY <1>2 DEF Inert, Calm, Busy, Others, TypeOK, StartStop, Begin, Goto, capacityVars, history, world
<1>4. ControlOf(p)'
    BY <1>2 DEF ControlOf
<1>5. ReservedOf(p)'
    BY <1>2 DEF ReservedOf, NoReservationLeak
<1> QED BY <1>1, <1>2, <1>3, <1>4, <1>5, InertInv

\* The head of BumpActivity and of Exec.
LEMMA TouchInv ==
    ASSUME IInv, NEW p \in Callers, NEW id \in Ids, NEW o \in {"bump", "exec"}, Touch(p, id, o)
    PROVE  IInv'
<1> USE ManagerAssumption DEF IInv
<1>1. TypeOK'
    BY DEF TypeOK, Labels, Ops, Touch, Begin, Goto, capacityVars, history, world
<1>2. /\ p \in Procs /\ p # Ticker /\ pc[p] = "idle" /\ resv'[p] = resv[p]
      /\ pc'[p] = "lock" /\ op'[p] = o /\ arg'[p] = id
    BY DEF TypeOK, Touch, Begin, Goto, capacityVars
<1>3. Inert(p)
    BY <1>2 DEF Inert, Calm, Busy, Others, TypeOK, Touch, Begin, Goto, capacityVars, history, world
<1>4. ControlOf(p)'
    BY <1>2 DEF ControlOf
<1>5. ReservedOf(p)'
    BY <1>2 DEF ReservedOf, NoReservationLeak
<1> QED BY <1>1, <1>2, <1>3, <1>4, <1>5, InertInv

\* AdmitAndCreate gives its reservation back, in one way or the other, and returns.
LEMMA ReleasedInv ==
    ASSUME IInv, NEW p \in Callers, pc[p] \in {"release", "list", "commit"}, Return(p),
           resv' = [resv EXCEPT ![p] = None],
           snap' = [snap EXCEPT ![p] = None] \/ UNCHANGED snap,
           UNCHANGED <<records, daemon, mu, owned, issued, alive, todo, removed, leaked,
                       phase, now, crashes, losses>>
    PROVE  IInv'
<1> USE ManagerAssumption DEF IInv
<1>1. p \in Procs /\ p # Ticker
    OBVIOUS
<1>2. Stepped(p) /\ Returned(p) /\ pc'[p] \notin Busy
    BY <1>1, Returning
<1>3. /\ snap' \in [Procs -> Stores \cup {None}] /\ resv' \in [Procs -> Amounts \cup {None}]
      /\ resv'[p] = None
      /\ \A q \in Procs : q # p => snap'[q] = snap[q] /\ resv'[q] = resv[q]
    BY <1>1 DEF TypeOK
<1>4. TypeOK'
    BY <1>2, <1>3 DEF TypeOK, Stepped
<1>5. Others(p)
    BY <1>2, <1>3 DEF Others, Stepped
<1>6. Inert(p)
    BY <1>2, <1>5 DEF Inert, Calm, Busy
<1>7. ControlOf(p)' /\ ReservedOf(p)'
    BY <1>1, <1>2, <1>3, ReturnedControl
<1> QED BY <1>1, <1>4, <1>6, <1>7, InertInv

\* AdmitAndCreate's error path.
LEMMA ReleaseOnErrorInv ==
    ASSUME IInv, NEW p \in Callers, ReleaseOnError(p)
    PROVE  IInv'
<1>1. /\ pc[p] = "release" /\ Return(p) /\ resv' = [resv EXCEPT ![p] = None]
      /\ UNCHANGED <<records, daemon, mu, owned, issued, snap, alive, todo, removed, leaked,
                     phase, now, crashes, losses>>
    BY DEF ReleaseOnError, Release, history, world
<1> QED BY <1>1, ReleasedInv

\* What follows notifyOwnedChanged, and where the goroutine goes on.
LEMMA Notified ==
    ASSUME IInv, NEW p \in Callers, pc[p] \in {"notify", "owned"}, AfterNotify(p), resv' = resv
    PROVE  Stepped(p) /\ pc'[p] \notin Busy /\ ControlOf(p)' /\ ReservedOf(p)'
<1> USE ManagerAssumption DEF IInv
<1>1. p \in Procs /\ p # Ticker /\ ControlOf(p) /\ ReservedOf(p)
    BY DEF Control, NoReservationLeak, ReservedOf
<1>2. CASE op[p] = "create" /\ Goto(p, "list") /\ UNCHANGED <<op, arg, copy>>
    <2>1. Stepped(p) /\ pc'[p] = "list" /\ op'[p] = "create" /\ resv'[p] = resv[p]
        BY <1>1, <1>2, Moving DEF Labels
    <2>2. ControlOf(p)'
        BY <1>1, <2>1 DEF ControlOf
    <2>3. ReservedOf(p)'
        BY <1>1, <1>2, <2>1 DEF ReservedOf
    <2> QED BY <2>1, <2>2, <2>3 DEF Busy
<1>3. CASE op[p] = "delete" /\ Return(p)
    <2>1. Stepped(p) /\ Returned(p) /\ pc'[p] \notin Busy
        BY <1>1, <1>3, Returning
    <2>2. resv'[p] = None
        BY <1>1, <1>3 DEF ReservedOf
    <2> QED BY <1>1, <2>1, <2>2, ReturnedControl
<1> QED BY <1>2, <1>3 DEF AfterNotify

\* The listing of notifyOwnedChanged.
LEMMA NotifyListInv ==
    ASSUME IInv, NEW p \in Callers, NotifyList(p)
    PROVE  IInv'
<1> USE ManagerAssumption DEF IInv
<1>0. /\ p \in Procs /\ p # Ticker /\ pc[p] = "notify"
      /\ UNCHANGED <<records, daemon, mu, owned, issued, alive, todo, base, resv, removed, leaked,
                     phase, now, crashes, losses>>
    BY DEF NotifyList, capacityVars, history, world
<1>1. CASE List(p, "owned") /\ UNCHANGED <<op, arg, copy>>
    <2>1. /\ pc'[p] = "owned" /\ op'[p] = op[p] /\ resv'[p] = resv[p] /\ Inert(p)
          /\ pc' \in [Procs -> Labels] /\ snap' \in [Procs -> Stores \cup {None}]
        BY <1>0, <1>1 DEF Inert, Calm, Busy, Others, TypeOK, List, Goto, Labels
    <2>2. TypeOK'
        BY <1>0, <1>1, <2>1 DEF TypeOK
    <2>3. ControlOf(p)'
        BY <1>0, <2>1 DEF Control, ControlOf
    <2>4. ReservedOf(p)'
        BY <1>0, <2>1 DEF NoReservationLeak, ReservedOf
    <2> QED BY <1>0, <2>1, <2>2, <2>3, <2>4, InertInv
<1>2. CASE AfterNotify(p) /\ UNCHANGED snap
    <2>1. Stepped(p) /\ pc'[p] \notin Busy /\ ControlOf(p)' /\ ReservedOf(p)'
        BY <1>0, <1>2, Notified
    <2>2. Others(p) /\ TypeOK'
        BY <1>0, <1>2, <2>1, SteppedOthers, SteppedType DEF TypeOK
    <2>3. Inert(p)
        BY <1>0, <2>1, <2>2 DEF Inert, Calm, Busy
    <2> QED BY <1>0, <2>1, <2>2, <2>3, InertInv
<1> QED BY <1>1, <1>2 DEF NotifyList

\* The publication of notifyOwnedChanged.
LEMMA NotifyOwnedInv ==
    ASSUME IInv, NEW p \in Callers, NotifyOwned(p)
    PROVE  IInv'
<1> USE ManagerAssumption DEF IInv
<1>1. /\ p \in Procs /\ p # Ticker /\ pc[p] = "owned" /\ AfterNotify(p) /\ owned' \subseteq Ids
      /\ snap' = [snap EXCEPT ![p] = None]
      /\ UNCHANGED <<records, daemon, mu, issued, alive, todo, base, resv, removed, leaked,
                     phase, now, crashes, losses>>
    BY DEF NotifyOwned, Stored, capacityVars, history, world
<1>2. \A q \in Procs : q # p => snap'[q] = snap[q]
    BY <1>1 DEF TypeOK
<1>3. Stepped(p) /\ pc'[p] \notin Busy /\ ControlOf(p)' /\ ReservedOf(p)'
    BY <1>1, Notified
<1>4. Others(p)
    BY <1>1, <1>2, <1>3 DEF Others, Stepped
<1>5. Inert(p)
    BY <1>1, <1>3, <1>4 DEF Inert, Calm, Busy
<1>6. snap' \in [Procs -> Stores \cup {None}]
    BY <1>1 DEF TypeOK
<1>7. TypeOK'
    BY <1>1, <1>3, <1>6 DEF TypeOK, Stepped
<1> QED BY <1>1, <1>3, <1>5, <1>7, InertInv

\* AdmitAndCreate's listing, or its incremental commit.
LEMMA CommitListInv ==
    ASSUME IInv, NEW p \in Callers, CommitList(p)
    PROVE  IInv'
<1> USE ManagerAssumption DEF IInv
<1>0. /\ p \in Procs /\ p # Ticker /\ pc[p] = "list"
      /\ UNCHANGED <<records, daemon, mu, owned, issued, alive, todo, removed, leaked,
                     phase, now, crashes, losses>>
    BY DEF CommitList, history, world
<1>1. CASE List(p, "commit") /\ UNCHANGED <<op, arg, copy, capacityVars>>
    <2>1. /\ pc'[p] = "commit" /\ op'[p] = op[p] /\ resv'[p] = resv[p] /\ Inert(p)
          /\ pc' \in [Procs -> Labels] /\ snap' \in [Procs -> Stores \cup {None}]
        BY <1>0, <1>1 DEF Inert, Calm, Busy, Others, TypeOK, List, Goto, Labels, capacityVars
    <2>2. TypeOK'
        BY <1>0, <1>1, <2>1 DEF TypeOK, capacityVars
    <2>3. ControlOf(p)'
        BY <1>0, <2>1 DEF Control, ControlOf
    <2>4. ReservedOf(p)'
        BY <1>0, <2>1 DEF NoReservationLeak, ReservedOf
    <2> QED BY <1>0, <2>1, <2>2, <2>3, <2>4, InertInv
<1>2. CASE Commit(p) /\ Return(p) /\ UNCHANGED snap
    <2> QED BY <1>0, <1>2, ReleasedInv DEF Commit
<1> QED BY <1>1, <1>2 DEF CommitList

\* AdmitAndCreate's absolute commit.
LEMMA CommitCreateInv ==
    ASSUME IInv, NEW p \in Callers, CommitCreate(p)
    PROVE  IInv'
<1>1. /\ pc[p] = "commit" /\ Return(p) /\ resv' = [resv EXCEPT ![p] = None]
      /\ snap' = [snap EXCEPT ![p] = None]
      /\ UNCHANGED <<records, daemon, mu, owned, issued, alive, todo, removed, leaked,
                     phase, now, crashes, losses>>
    BY DEF CommitCreate, CommitBase, history, world
<1> QED BY <1>1, ReleasedInv

-----------------------------------------------------------------------------
\* The Get at the head of Delete: a record that exists is nobody's new one.
LEMMA DeleteInv ==
    ASSUME IInv, NEW p \in Callers, NEW id \in Ids, Delete(p, id)
    PROVE  IInv'
<1> USE DEF IInv
<1>0. p \in Procs /\ p # Ticker
    BY ManagerAssumption
<1>1. TypeOK'
    BY ManagerAssumption DEF TypeOK, Labels, Ops, Delete, Begin, Goto, capacityVars, history, world
<1>2. /\ pc[p] = "idle" /\ resv'[p] = resv[p] /\ id \in issued
      /\ op'[p] = "delete" /\ arg'[p] = id
      /\ pc'[p] = "reap" \/ (pc'[p] = "remove" /\ records[id] # None)
      /\ UNCHANGED <<records, daemon, mu, issued, removed, leaked>>
    BY <1>0 DEF TypeOK, Delete, Begin, Goto, capacityVars, history
<1>3. Others(p)
    BY <1>2 DEF Others, TypeOK, Delete, Begin, Goto, capacityVars
<1>4. ControlOf(p)'
    BY <1>0, <1>2 DEF ControlOf
<1>5. ReservedOf(p)'
    BY <1>0, <1>2 DEF ReservedOf, NoReservationLeak
<1>6. Control' /\ NoReservationLeak'
    BY <1>0, <1>3, <1>4, <1>5, StepControl, StepReserved
<1>7. Locking'
    BY SMTT(60), <1>0, <1>2, <1>3 DEF Locking, Others
<1>8. FreshIds'
    BY SMTT(60), <1>0, <1>2, <1>3 DEF FreshIds, Others
<1>9. NoResurrection' /\ DeletedIsGone'
    BY <1>2 DEF NoResurrection, DeletedIsGone
<1>10. OrphanOnlyFromCreate'
    BY SMTT(60), <1>2, <1>3, ManagerAssumption DEF OrphanOnlyFromCreate, Others
<1> QED BY <1>1, <1>6, <1>7, <1>8, <1>9, <1>10

\* Create's daemon call: the id it picks was never issued.
LEMMA BackendCreateInv ==
    ASSUME IInv, NEW p \in Callers, BackendCreate(p)
    PROVE  IInv'
<1> USE DEF IInv
<1>0. p \in Procs /\ p # Ticker
    BY ManagerAssumption
<1>1. /\ pc[p] = "create" /\ op[p] = "create" /\ copy[p] \in Records
      /\ ReservedOf(p)
      /\ UNCHANGED <<records, mu, owned, op, snap, alive, todo, resv, removed,
                     phase, now, crashes, losses>>
    BY <1>0 DEF BackendCreate, Control, ControlOf, NoReservationLeak, ReservedOf, capacityVars, world
<1>2. PICK id \in Ids \ issued :
        /\ issued' = issued \cup {id} /\ arg' = [arg EXCEPT ![p] = id]
        /\ \/ /\ daemon' = [daemon EXCEPT ![id] = "running"]
              /\ copy' = [copy EXCEPT ![p].last = now]
              /\ pc' = [pc EXCEPT ![p] = "save"] /\ leaked' = leaked
           \/ /\ pc' = [pc EXCEPT ![p] = "release"] /\ copy' = copy
              /\ \/ daemon' = [daemon EXCEPT ![id] = "running"] /\ leaked' = leaked \cup {id}
                 \/ UNCHANGED <<daemon, leaked>>
    BY DEF BackendCreate, Goto
<1> DEFINE fresh == [copy[p] EXCEPT !.last = now]
<1>3. fresh \in Records
    BY <1>1 DEF TypeOK, Records
<1>4. copy' = [copy EXCEPT ![p] = fresh] \/ copy' = copy
    BY <1>2
<1> HIDE DEF fresh
<1>5. /\ copy' \in [Procs -> Records \cup {None}] /\ copy'[p] \in Records
      /\ \A q \in Procs : q # p => copy'[q] = copy[q]
    BY SMTT(60), <1>0, <1>1, <1>3, <1>4 DEF TypeOK
<1>6. /\ pc' \in [Procs -> Labels] /\ arg' \in [Procs -> Ids \cup {None}]
      /\ arg'[p] = id /\ pc'[p] \in {"save", "release"}
      /\ \A q \in Procs : q # p => pc'[q] = pc[q] /\ arg'[q] = arg[q]
    BY SMTT(60), <1>0, <1>2 DEF TypeOK, Labels
<1>7. /\ daemon' \in [Ids -> {"absent", "running", "stopped"}]
      /\ leaked' \subseteq Ids /\ issued' \subseteq Ids
      /\ \A i \in Ids : i # id => daemon'[i] = daemon[i]
      /\ \A i \in leaked : i \in leaked'
      /\ daemon'[id] # "absent" => \/ id \in leaked' \/ pc'[p] = "save"
                                   \/ daemon[id] # "absent"
    BY SMTT(60), <1>0, <1>2 DEF TypeOK
<1>8. Stepped(p) /\ Others(p)
    BY <1>0, <1>1, <1>5, <1>6 DEF Stepped, Others, TypeOK
<1>9. TypeOK'
    BY <1>0, <1>1, <1>7, <1>8, SteppedType DEF TypeOK
<1>10. ControlOf(p)' /\ ReservedOf(p)'
    BY <1>0, <1>1, <1>2, <1>5, <1>6 DEF ControlOf, ReservedOf
<1>11. Control' /\ NoReservationLeak'
    BY <1>0, <1>8, <1>10, StepControl, StepReserved
<1>12. Locking'
    BY SMTT(60), <1>0, <1>1, <1>6, <1>8 DEF Locking, Others
<1>13. /\ removed \subseteq issued /\ records[id] = None /\ daemon[id] = "absent"
       /\ \A q \in Procs : pc[q] \in {"save", "remove", "unrecord"} => arg[q] \in issued
    BY DEF FreshIds
<1>14. FreshIds'
    <2>1. records' = records /\ removed' = removed /\ issued' = issued \cup {id}
        BY <1>1, <1>2
    <2> QED BY SMTT(60), <1>6, <1>7, <1>13, <2>1 DEF FreshIds
<1>15. NoResurrection' /\ DeletedIsGone'
    BY SMTT(60), <1>1, <1>7, <1>13 DEF NoResurrection, DeletedIsGone, TypeOK
<1>16. OrphanOnlyFromCreate'
    <2>1. records' = records /\ pc[p] = "create"
        BY <1>1
    <2> QED BY SMTT(60), <1>6, <1>7, <1>13, <2>1, ManagerAssumption DEF OrphanOnlyFromCreate
<1> QED BY <1>9, <1>11, <1>12, <1>14, <1>15, <1>16

\* Create's save: nobody else can hold a copy of a record that did not exist.
LEMMA SaveNewInv ==
    ASSUME IInv, NEW p \in Callers, SaveNew(p)
    PROVE  IInv'
<1> USE DEF IInv
<1>0. p \in Procs /\ p # Ticker
    BY ManagerAssumption
<1>1. /\ pc[p] = "save" /\ op[p] = "create" /\ copy[p] \in Records
      /\ arg[p] \in Ids /\ ReservedOf(p)
      /\ UNCHANGED <<daemon, mu, owned, issued, op, arg, copy, snap, alive, todo, resv, removed,
                     phase, now, crashes, losses>>
    BY <1>0 DEF SaveNew, Control, ControlOf, NoReservationLeak, ReservedOf, capacityVars, world
<1>2. /\ arg[p] \in issued \ removed /\ records[arg[p]] = None
      /\ \A q \in Procs : pc[q] = "save" /\ arg[q] = arg[p] => q = p
      /\ \A q \in Procs : pc[q] \in {"remove", "unrecord"} => arg[q] # arg[p]
    BY <1>0, <1>1 DEF FreshIds
<1>3. \/ /\ records' = [records EXCEPT ![arg[p]] = copy[p]]
         /\ pc' = [pc EXCEPT ![p] = "notify"] /\ leaked' = leaked
      \/ /\ leaked' = leaked \cup {arg[p]}
         /\ pc' = [pc EXCEPT ![p] = "release"] /\ records' = records
    BY DEF SaveNew, Goto
<1>4. /\ pc' \in [Procs -> Labels] /\ pc'[p] \in {"notify", "release"}
      /\ \A q \in Procs : q # p => pc'[q] = pc[q]
    BY SMTT(60), <1>0, <1>3 DEF TypeOK, Labels
<1>5. /\ records' \in Stores /\ leaked' \subseteq Ids
      /\ \A id \in Ids : id # arg[p] => records'[id] = records[id]
      /\ \A id \in leaked : id \in leaked'
      /\ arg[p] \in leaked' \/ records'[arg[p]] # None
    <2>1. copy[p] # None
        BY <1>1, ManagerAssumption
    <2>2. CASE records' = [records EXCEPT ![arg[p]] = copy[p]] /\ leaked' = leaked
        BY <1>1, <2>1, <2>2 DEF TypeOK, Stores
    <2>3. CASE leaked' = leaked \cup {arg[p]} /\ records' = records
        BY <1>1, <2>3 DEF TypeOK
    <2> QED BY <1>3, <2>2, <2>3
<1>6. Stepped(p) /\ Others(p)
    BY <1>0, <1>1, <1>4 DEF Stepped, Others, TypeOK
<1>7. TypeOK'
    BY <1>0, <1>1, <1>5, <1>6, SteppedType DEF TypeOK
<1>8. ControlOf(p)' /\ ReservedOf(p)'
    BY <1>0, <1>1, <1>4 DEF ControlOf, ReservedOf
<1>9. Control' /\ NoReservationLeak'
    BY <1>0, <1>6, <1>8, StepControl, StepReserved
<1>10. \A q \in Procs : pc[q] \in {"save", "write", "remove", "unrecord"} => arg[q] \in Ids
    BY DEF Control, ControlOf
<1>11. /\ UNCHANGED <<daemon, mu, issued, arg, copy, removed>>
       /\ pc[p] = "save" /\ pc'[p] \notin Busy
       /\ \A q \in Procs : q # p => pc'[q] = pc[q]
    BY <1>1, <1>4 DEF Busy
<1>12. Locking'
    BY SMTT(60), <1>2, <1>5, <1>10, <1>11 DEF Locking, Busy
<1>13. FreshIds'
    BY SMTT(60), <1>2, <1>5, <1>10, <1>11 DEF FreshIds, Busy
<1>14. NoResurrection' /\ DeletedIsGone'
    BY <1>1, <1>2, <1>5 DEF NoResurrection, DeletedIsGone, TypeOK
<1>15. OrphanOnlyFromCreate'
    BY SMTT(60), <1>5, <1>11, ManagerAssumption DEF OrphanOnlyFromCreate
<1> QED BY <1>7, <1>9, <1>12, <1>13, <1>14, <1>15

-----------------------------------------------------------------------------
\* Reconcile's return.
LEMMA Ending ==
    ASSUME IInv, EndReconcile, pc[Ticker] \in {"listrecs", "mark", "write"}, resv' = resv,
           UNCHANGED <<records, daemon, owned, issued, removed, leaked, now, crashes, losses>>,
           mu' \in Procs \cup {None}
    PROVE  /\ Stepped(Ticker) /\ TypeOK' /\ Others(Ticker) /\ pc'[Ticker] = "idle"
           /\ ControlOf(Ticker)' /\ ReservedOf(Ticker)'
<1> USE DEF IInv
<1>1. Ticker \in Procs
    BY ManagerAssumption
<1>2. /\ Stepped(Ticker) /\ pc'[Ticker] = "idle" /\ op'[Ticker] = None
    BY <1>1 DEF EndReconcile, Goto, TypeOK, Stepped, Labels
<1>3. /\ snap' \in [Procs -> Stores \cup {None}] /\ todo' \in [Procs -> SUBSET Ids]
      /\ todo'[Ticker] = {} /\ alive' = {} /\ phase' = "serving"
      /\ \A q \in Procs : q # Ticker => snap'[q] = snap[q] /\ todo'[q] = todo[q]
    BY <1>1 DEF EndReconcile, TypeOK
<1>4. TypeOK'
    BY <1>2, <1>3 DEF TypeOK, Stepped
<1>5. Others(Ticker)
    BY <1>2, <1>3 DEF Others, Stepped
<1>6. ControlOf(Ticker)'
    BY <1>2, <1>3, ManagerAssumption DEF ControlOf, Ops
<1>7. op[Ticker] # "create"
    BY <1>1, ManagerAssumption DEF Control, ControlOf, Ops
<1>8. ReservedOf(Ticker)'
    BY <1>1, <1>2, <1>7 DEF ReservedOf, NoReservationLeak
<1> QED BY <1>2, <1>4, <1>5, <1>6, <1>8

\* Reconcile's return, from one of its own steps, keeps the invariant.
LEMMA EndInv ==
    ASSUME IInv, EndReconcile, pc[Ticker] \in {"listrecs", "mark"},
           UNCHANGED <<records, daemon, mu, owned, issued, resv, removed, leaked, now, crashes, losses>>
    PROVE  IInv'
<1>1. Ticker \in Procs /\ mu' \in Procs \cup {None}
    BY ManagerAssumption DEF IInv, TypeOK
<1>2. /\ TypeOK' /\ Others(Ticker) /\ pc'[Ticker] = "idle"
      /\ ControlOf(Ticker)' /\ ReservedOf(Ticker)'
    BY <1>1, Ending
<1>3. Inert(Ticker)
    BY <1>2 DEF Inert, Calm, Busy
<1> QED BY <1>1, <1>2, <1>3, InertInv

-----------------------------------------------------------------------------
\* What follows mutate, and where the goroutine goes on.
LEMMA Mutating ==
    ASSUME IInv, NEW p \in Procs, pc[p] \in {"lock", "write"}, AfterMutate(p),
           resv' = resv, todo' = todo,
           snap[p] \in Stores =>
              snap'[p] \in Stores /\ \A id \in Ids : snap[p][id] # None => snap'[p][id] # None
    PROVE  Stepped(p) /\ pc'[p] \notin Busy /\ ControlOf(p)' /\ ReservedOf(p)'
<1> USE DEF IInv
<1>1. ControlOf(p) /\ ReservedOf(p)
    BY DEF Control, NoReservationLeak, ReservedOf
<1>2. /\ op[p] \in {"start", "stop", "bump", "exec", "lost"} /\ arg[p] \in Ids
      /\ resv'[p] = None /\ todo'[p] = todo[p]
    BY <1>1 DEF ControlOf, ReservedOf
<1>3. CASE op[p] = "exec" /\ Goto(p, "exec") /\ UNCHANGED <<op, arg, copy>>
    <2>1. Stepped(p) /\ pc'[p] = "exec" /\ op'[p] = "exec" /\ arg'[p] = arg[p]
        BY <1>3, Moving DEF Labels
    <2>2. p # Ticker
        BY <1>1, <1>3, ManagerAssumption DEF ControlOf, Ops
    <2> QED BY <1>2, <2>1, <2>2 DEF Busy, ControlOf, ReservedOf
<1>4. CASE op[p] # "exec" /\ Return(p)
    <2>1. Stepped(p) /\ Returned(p) /\ pc'[p] \notin Busy
        BY <1>4, Returning
    <2>2. CASE p # Ticker
        BY <1>2, <2>1, <2>2, ReturnedControl
    <2>3. CASE p = Ticker
        <3>1. pc'[p] = "mark" /\ op'[p] = None
            BY <2>1, <2>3 DEF Returned, Resume
        <3>2. snap'[p] \in Stores /\ \A id \in todo'[p] : id \in Ids /\ snap'[p][id] # None
            BY <1>1, <1>2, <2>3 DEF ControlOf
        <3>3. ControlOf(p)'
            BY <2>3, <3>1, <3>2, ManagerAssumption DEF ControlOf, Ops
        <3> QED BY <1>2, <2>1, <3>1, <3>3 DEF ReservedOf
    <2> QED BY <2>2, <2>3
<1> QED BY <1>3, <1>4 DEF AfterMutate

\* mutate's lock and read: no other goroutine is between its read and its save.
LEMMA MutateLockInv ==
    ASSUME IInv, NEW p \in Procs, MutateLock(p)
    PROVE  IInv'
<1> USE DEF IInv
<1>1. /\ pc[p] = "lock" /\ mu = None /\ ControlOf(p) /\ ReservedOf(p) /\ arg[p] \in Ids
      /\ UNCHANGED <<records, daemon, owned, issued, snap, alive, todo, resv, removed, leaked,
                     phase, now, crashes, losses>>
    BY DEF MutateLock, Lock, Control, ControlOf, NoReservationLeak, ReservedOf, capacityVars,
           history, world
<1>2. CASE /\ records[arg[p]] # None /\ mu' = p
           /\ copy' = [copy EXCEPT ![p] = records[arg[p]]] /\ Goto(p, "write") /\ UNCHANGED <<op, arg>>
    <2>1. records[arg[p]] \in Records
        BY <1>1, <1>2 DEF TypeOK, Stores
    <2>2. /\ Stepped(p) /\ pc'[p] = "write" /\ op'[p] = op[p] /\ arg'[p] = arg[p]
          /\ copy'[p] = records[arg[p]] /\ snap'[p] = snap[p] /\ todo'[p] = todo[p] /\ resv'[p] = resv[p]
        BY <1>1, <1>2, <2>1 DEF Stepped, TypeOK, Goto, Labels
    <2>3. TypeOK' /\ Others(p)
        BY <1>1, <1>2, <2>2, SteppedType, SteppedOthers DEF TypeOK
    <2>4. Calm(p)
        BY <1>1, <2>2, <2>3 DEF Calm
    <2>5. ControlOf(p)'
        BY <1>1, <2>2 DEF ControlOf
    <2>6. ReservedOf(p)'
        BY <1>1, <2>2 DEF ReservedOf
    <2>7. \A q \in Procs : pc[q] # "write"
        BY <1>1, ManagerAssumption DEF Locking
    <2>8. \A q \in Procs : pc'[q] = "write" <=> q = p
        BY <2>2, <2>7 DEF Stepped
    <2>9. Locking'
        BY <1>1, <1>2, <2>2, <2>8 DEF Locking
    <2> QED BY <2>3, <2>4, <2>5, <2>6, <2>9, CalmInv
<1>3. CASE records[arg[p]] = None /\ AfterMutate(p) /\ mu' = mu
    <2>1. Stepped(p) /\ pc'[p] \notin Busy /\ ControlOf(p)' /\ ReservedOf(p)'
        BY <1>1, <1>3, Mutating
    <2>2. TypeOK' /\ Others(p)
        BY <1>1, <1>3, <2>1, SteppedType, SteppedOthers DEF TypeOK
    <2>3. Inert(p)
        BY <1>1, <1>3, <2>1, <2>2 DEF Inert, Calm, Busy
    <2> QED BY <2>1, <2>2, <2>3, InertInv
<1> QED BY <1>2, <1>3 DEF MutateLock

\* mutate's save and unlock: the copy is still the stored record, so the
\* record exists and was not deleted.
LEMMA MutateSaveInv ==
    ASSUME IInv, NEW p \in Procs, MutateSave(p)
    PROVE  IInv'
<1> USE DEF IInv
<1> DEFINE rec == Mutated(op[p], copy[p])
<1>0. ControlOf(p) /\ ReservedOf(p) /\ pc[p] = "write" /\ mu = p
    BY DEF MutateSave, Control, NoReservationLeak, ReservedOf, Locking
<1>1. arg[p] \in Ids /\ records[arg[p]] \in Records /\ records[arg[p]] = copy[p]
    BY <1>0 DEF TypeOK, ControlOf, Locking, Stores
<1>2. rec \in Records
    BY <1>1 DEF Mutated, Records, Statuses, TypeOK
<1>3. /\ records' = [records EXCEPT ![arg[p]] = rec] /\ mu' = None
      /\ UNCHANGED <<daemon, owned, issued, alive, todo, resv, removed, leaked,
                     phase, now, crashes, losses>>
    BY DEF MutateSave, capacityVars, history, world
<1> HIDE DEF rec
<1>4. records' \in Stores /\ \A id \in Ids : records'[id] # None <=> records[id] # None
    BY SMTT(60), <1>1, <1>2, <1>3, ManagerAssumption DEF TypeOK, Stores
<1>5. /\ snap' \in [Procs -> Stores \cup {None}] /\ \A q \in Procs : q # p => snap'[q] = snap[q]
      /\ snap[p] \in Stores =>
            snap'[p] \in Stores /\ \A id \in Ids : snap[p][id] # None => snap'[p][id] # None
    <2>1. CASE op[p] # "lost"
        BY <2>1 DEF MutateSave, TypeOK
    <2>2. CASE op[p] = "lost"
        <3>1. snap[p] \in Stores /\ snap[p][arg[p]] \in Records
            BY <1>0, <1>1, <2>2 DEF ControlOf, Stores
        <3> DEFINE gone == [snap[p][arg[p]] EXCEPT !.status = "lost"]
                   st == [snap[p] EXCEPT ![arg[p]] = gone]
        <3>2. gone \in Records
            BY <3>1 DEF Records, Statuses
        <3>3. st \in Stores /\ \A id \in Ids : snap[p][id] # None => st[id] # None
            <4> HIDE DEF gone
            <4> QED BY <1>1, <3>1, <3>2, ManagerAssumption DEF Stores
        <3>4. snap' = [snap EXCEPT ![p] = st]
            BY <2>2 DEF MutateSave
        <3> HIDE DEF st
        <3> QED BY <3>3, <3>4 DEF TypeOK
    <2> QED BY <2>1, <2>2
<1>6. /\ Stepped(p) /\ pc'[p] \notin Busy /\ ControlOf(p)' /\ ReservedOf(p)'
    <2>1. CASE op[p] # "start" /\ AfterMutate(p)
        BY <1>0, <1>3, <1>5, <2>1, Mutating
    <2>2. CASE /\ op[p] = "start" /\ op' = [op EXCEPT ![p] = "bump"]
               /\ Goto(p, "lock") /\ copy' = [copy EXCEPT ![p] = None] /\ UNCHANGED arg
        <3>1. /\ Stepped(p) /\ pc'[p] = "lock" /\ op'[p] = "bump" /\ arg'[p] = arg[p] /\ resv'[p] = resv[p]
            BY <1>3, <2>2 DEF TypeOK, Goto, Labels, Ops, Stepped
        <3>2. p # Ticker
            BY <1>0, <2>2, ManagerAssumption DEF ControlOf, Ops
        <3>3. ControlOf(p)'
            BY <1>1, <3>1, <3>2 DEF ControlOf
        <3>4. ReservedOf(p)'
            BY <1>0, <3>1 DEF ReservedOf
        <3> QED BY <3>1, <3>3, <3>4 DEF Busy
    <2> QED BY <2>1, <2>2 DEF MutateSave
<1>7. TypeOK'
    BY <1>3, <1>4, <1>5, <1>6 DEF TypeOK, Stepped
<1>8. Others(p)
    BY <1>3, <1>5, <1>6 DEF Others, Stepped
<1>9. Control' /\ NoReservationLeak'
    BY <1>6, <1>8, StepControl, StepReserved
<1>10. \A q \in Procs : pc'[q] # "write" /\ (pc'[q] \in Busy => pc'[q] = pc[q] /\ arg'[q] = arg[q])
    BY <1>0, <1>6, <1>8 DEF Locking, Others, Busy
<1>11. Locking'
    BY <1>3, <1>10, ManagerAssumption DEF Locking
<1>12. \A q \in Procs : pc[q] \in {"save", "remove", "unrecord"} => arg[q] \in Ids
    BY DEF Control, ControlOf
<1>13. FreshIds'
    BY SMTT(60), <1>3, <1>4, <1>10, <1>12 DEF FreshIds, Busy
<1>14. NoResurrection' /\ DeletedIsGone'
    BY <1>3, <1>4 DEF NoResurrection, DeletedIsGone, TypeOK
<1>15. \A q \in Procs : pc[q] = "save" => pc'[q] = "save" /\ arg'[q] = arg[q]
    BY <1>0, <1>8 DEF Others
<1>16. OrphanOnlyFromCreate'
    BY SMTT(60), <1>3, <1>4, <1>15, ManagerAssumption DEF OrphanOnlyFromCreate
<1> QED BY <1>7, <1>9, <1>11, <1>13, <1>14, <1>16

\* mutate's failed save.
LEMMA MutateErrorInv ==
    ASSUME IInv, NEW p \in Procs, MutateError(p)
    PROVE  IInv'
<1> USE DEF IInv
<1>1. /\ pc[p] = "write" /\ mu = p /\ mu' = None
      /\ UNCHANGED <<records, daemon, owned, issued, resv, removed, leaked, now, crashes, losses>>
    BY DEF MutateError, Locking, capacityVars, history
<1>2. ASSUME Stepped(p), TypeOK', Others(p), pc'[p] \notin Busy, ControlOf(p)', ReservedOf(p)'
      PROVE  IInv'
    <2>1. Calm(p)
        BY <1>1, <1>2 DEF Calm, Busy
    <2>2. \A q \in Procs : pc'[q] # "write"
        BY <1>1, <1>2 DEF Locking, Others, Busy
    <2>3. Locking'
        BY <1>1, <2>2, ManagerAssumption DEF Locking
    <2> QED BY <1>2, <2>1, <2>3, CalmInv
<1>3. CASE p # Ticker
    <2>1. AfterMutate(p) /\ UNCHANGED <<snap, alive, todo, phase>>
        BY <1>3 DEF MutateError
    <2>2. Stepped(p) /\ pc'[p] \notin Busy /\ ControlOf(p)' /\ ReservedOf(p)'
        BY <1>1, <2>1, Mutating
    <2>3. TypeOK' /\ Others(p)
        BY <1>1, <2>1, <2>2, SteppedType, SteppedOthers DEF TypeOK
    <2> QED BY <1>2, <2>2, <2>3
<1>4. CASE p = Ticker
    <2>1. EndReconcile
        BY <1>4 DEF MutateError
    <2> QED BY <1>1, <1>2, <1>4, <2>1, Ending DEF Busy
<1> QED BY <1>3, <1>4

-----------------------------------------------------------------------------
\* A call that returns, whatever it did to the daemon, short of reviving a container.
LEMMA ReturnInv ==
    ASSUME IInv, NEW p \in Procs, p # Ticker, pc[p] \notin {"save", "write"}, resv[p] = None, Return(p),
           daemon' \in [Ids -> {"absent", "running", "stopped"}],
           \A id \in Ids : daemon[id] = "absent" => daemon'[id] = "absent",
           UNCHANGED <<records, mu, owned, issued, snap, alive, todo, resv, removed, leaked,
                       phase, now, crashes, losses>>
    PROVE  IInv'
<1> USE DEF IInv
<1>1. Stepped(p) /\ Returned(p) /\ pc'[p] \notin Busy
    BY Returning
<1>2. Others(p)
    BY <1>1, SteppedOthers
<1>3. TypeOK'
    BY <1>1, SteppedType DEF TypeOK
<1>4. Inert(p)
    BY <1>1, <1>2 DEF Inert, Calm, Busy
<1>5. ControlOf(p)' /\ ReservedOf(p)'
    BY <1>1, ReturnedControl
<1> QED BY <1>3, <1>4, <1>5, InertInv

\* lifecycle's daemon call: it cannot revive a removed container.
LEMMA BackendStartStopInv ==
    ASSUME IInv, NEW p \in Procs, BackendStartStop(p)
    PROVE  IInv'
<1> USE DEF IInv
<1>1. /\ pc[p] = "rpc" /\ ControlOf(p) /\ ReservedOf(p)
      /\ UNCHANGED <<records, mu, owned, issued, snap, alive, todo, resv, removed, leaked,
                     phase, now, crashes, losses>>
    BY DEF BackendStartStop, Control, NoReservationLeak, ReservedOf, capacityVars, history, world
<1>2. arg[p] \in Ids /\ op[p] \in {"start", "stop"} /\ p # Ticker /\ resv[p] = None
    BY <1>1 DEF ControlOf, ReservedOf
<1>3. CASE /\ daemon[arg[p]] # "absent"
           /\ daemon' = [daemon EXCEPT ![arg[p]] = IF op[p] = "start" THEN "running" ELSE "stopped"]
           /\ Goto(p, "lock") /\ UNCHANGED <<op, arg, copy>>
    <2>1. Stepped(p) /\ pc'[p] = "lock" /\ op'[p] = op[p] /\ arg'[p] = arg[p] /\ resv'[p] = resv[p]
        BY <1>1, <1>3, Moving DEF Labels
    <2>2. /\ daemon' \in [Ids -> {"absent", "running", "stopped"}]
          /\ \A id \in Ids : daemon[id] = "absent" => daemon'[id] = "absent"
        BY <1>2, <1>3 DEF TypeOK
    <2>3. TypeOK' /\ Others(p)
        BY <1>1, <2>1, <2>2, SteppedType, SteppedOthers DEF TypeOK
    <2>4. Inert(p)
        BY <1>1, <2>1, <2>2, <2>3 DEF Inert, Calm, Busy
    <2>5. ControlOf(p)' /\ ReservedOf(p)'
        BY <1>2, <2>1 DEF ControlOf, ReservedOf
    <2> QED BY <2>3, <2>4, <2>5, InertInv
<1>4. CASE Return(p) /\ UNCHANGED daemon
    BY <1>1, <1>2, <1>4, ReturnInv DEF TypeOK
<1> QED BY <1>3, <1>4 DEF BackendStartStop

\* Exec's daemon call: it cannot revive a removed container.
LEMMA BackendExecInv ==
    ASSUME IInv, NEW p \in Callers, BackendExec(p)
    PROVE  IInv'
<1> USE DEF IInv
<1>0. p \in Procs /\ p # Ticker
    BY ManagerAssumption
<1>1. /\ pc[p] = "exec" /\ ControlOf(p) /\ ReservedOf(p) /\ Return(p)
      /\ UNCHANGED <<records, mu, owned, issued, snap, alive, todo, resv, removed, leaked,
                     phase, now, crashes, losses>>
    BY <1>0 DEF BackendExec, Control, NoReservationLeak, ReservedOf, capacityVars, history, world
<1>2. arg[p] \in Ids /\ resv[p] = None
    BY <1>1 DEF ControlOf, ReservedOf
<1>3. \/ daemon[arg[p]] # "absent" /\ daemon' = [daemon EXCEPT ![arg[p]] = "running"]
      \/ daemon' = daemon
    BY DEF BackendExec
<1>4. /\ daemon' \in [Ids -> {"absent", "running", "stopped"}]
      /\ \A id \in Ids : daemon[id] = "absent" => daemon'[id] = "absent"
    BY <1>2, <1>3 DEF TypeOK
<1> QED BY <1>0, <1>1, <1>2, <1>4, ReturnInv

\* Delete's daemon call: the id was issued, so no create can use it again.
LEMMA BackendRemoveInv ==
    ASSUME IInv, NEW p \in Callers, BackendRemove(p)
    PROVE  IInv'
<1> USE DEF IInv
<1>0. p \in Procs /\ p # Ticker
    BY ManagerAssumption
<1>1. /\ pc[p] \in {"reap", "remove"} /\ ControlOf(p) /\ ReservedOf(p)
      /\ UNCHANGED <<records, mu, owned, issued, snap, alive, todo, resv, removed, leaked,
                     phase, now, crashes, losses>>
    BY <1>0 DEF BackendRemove, Control, NoReservationLeak, ReservedOf, capacityVars, history, world
<1>2. arg[p] \in Ids /\ op[p] = "delete" /\ resv[p] = None
    BY <1>1 DEF ControlOf, ReservedOf
<1>3. daemon' = [daemon EXCEPT ![arg[p]] = "absent"] \/ daemon' = daemon
    BY DEF BackendRemove
<1>4. /\ daemon' \in [Ids -> {"absent", "running", "stopped"}]
      /\ \A id \in Ids : daemon[id] = "absent" => daemon'[id] = "absent"
    BY <1>2, <1>3 DEF TypeOK
<1>5. CASE Return(p)
    BY <1>0, <1>1, <1>2, <1>4, <1>5, ReturnInv
<1>6. CASE /\ pc[p] = "remove" /\ daemon' = [daemon EXCEPT ![arg[p]] = "absent"]
           /\ Goto(p, "unrecord") /\ UNCHANGED <<op, arg, copy>>
    <2>1. /\ Stepped(p) /\ pc'[p] = "unrecord" /\ op'[p] = op[p] /\ arg' = arg /\ resv'[p] = resv[p]
        BY <1>0, <1>1, <1>6, Moving DEF Labels
    <2>2. TypeOK' /\ Others(p)
        BY <1>0, <1>1, <1>4, <2>1, SteppedType, SteppedOthers DEF TypeOK
    <2>3. ControlOf(p)' /\ ReservedOf(p)'
        BY <1>0, <1>2, <2>1 DEF ControlOf, ReservedOf
    <2>4. Control' /\ NoReservationLeak'
        BY <1>0, <2>2, <2>3, StepControl, StepReserved
    <2>5. /\ UNCHANGED <<records, mu, issued, removed, leaked, arg, copy>>
          /\ pc[p] = "remove" /\ pc'[p] = "unrecord" /\ \A q \in Procs : q # p => pc'[q] = pc[q]
        BY <1>1, <1>6, <2>1 DEF Stepped
    <2>6. Locking'
        BY SMTT(60), <2>5 DEF Locking
    <2>7. /\ daemon'[arg[p]] = "absent"
          /\ \A q \in Procs : pc[q] = "unrecord" => arg[q] \in Ids
        BY <1>2, <1>6 DEF TypeOK, Control, ControlOf
    <2>8. FreshIds'
        BY SMTT(60), <1>4, <2>5, <2>7 DEF FreshIds
    <2>9. NoResurrection' /\ DeletedIsGone'
        BY <1>1, <1>4 DEF NoResurrection, DeletedIsGone, TypeOK
    <2>10. OrphanOnlyFromCreate'
        BY SMTT(60), <1>4, <2>5, ManagerAssumption DEF OrphanOnlyFromCreate
    <2> QED BY <2>2, <2>4, <2>6, <2>8, <2>9, <2>10
<1> QED BY <1>5, <1>6 DEF BackendRemove

\* Delete's store.Delete under the lock: the container is gone, nobody holds
\* a copy of the record, and no create is about to save it.
LEMMA UnrecordInv ==
    ASSUME IInv, NEW p \in Callers, Unrecord(p)
    PROVE  IInv'
<1> USE DEF IInv
<1>0. p \in Procs /\ p # Ticker
    BY ManagerAssumption
<1>1. /\ pc[p] = "unrecord" /\ ControlOf(p) /\ ReservedOf(p) /\ mu = None
      /\ UNCHANGED <<daemon, mu, owned, issued, snap, alive, todo, resv, leaked,
                     phase, now, crashes, losses>>
    BY <1>0 DEF Unrecord, Lock, Control, NoReservationLeak, ReservedOf, capacityVars, world
<1>2. /\ arg[p] \in Ids /\ op[p] = "delete" /\ resv[p] = None
      /\ arg[p] \in issued /\ daemon[arg[p]] = "absent"
      /\ \A q \in Procs : pc[q] = "save" => arg[q] # arg[p]
    BY <1>0, <1>1 DEF ControlOf, ReservedOf, FreshIds
<1>3. CASE Return(p) /\ UNCHANGED <<records, removed>>
    BY <1>0, <1>1, <1>2, <1>3, ReturnInv DEF TypeOK
<1>4. CASE /\ records' = [records EXCEPT ![arg[p]] = None] /\ removed' = removed \cup {arg[p]}
           /\ Goto(p, "notify") /\ UNCHANGED <<op, arg, copy>>
    <2>1. Stepped(p) /\ pc'[p] = "notify" /\ op'[p] = op[p] /\ arg' = arg /\ resv'[p] = resv[p]
        BY <1>0, <1>1, <1>4, Moving DEF Labels
    <2>2. /\ records' \in Stores /\ removed' \subseteq Ids /\ records'[arg[p]] = None
          /\ \A id \in Ids : id # arg[p] => records'[id] = records[id]
        BY <1>2, <1>4 DEF TypeOK, Stores
    <2>3. TypeOK' /\ Others(p)
        BY <1>0, <1>1, <2>1, <2>2, SteppedType, SteppedOthers DEF TypeOK
    <2>4. ControlOf(p)' /\ ReservedOf(p)'
        BY <1>0, <1>2, <2>1 DEF ControlOf, ReservedOf
    <2>5. Control' /\ NoReservationLeak'
        BY <1>0, <2>3, <2>4, StepControl, StepReserved
    <2>6. \A q \in Procs : q # p => pc'[q] = pc[q]
        BY <2>1 DEF Stepped
    <2>7. \A q \in Procs : pc'[q] # "write"
        BY <1>1, <2>1, <2>6, ManagerAssumption DEF Locking
    <2>8. Locking'
        BY <1>1, <2>7, ManagerAssumption DEF Locking
    <2>9. /\ removed' = removed \cup {arg[p]} /\ UNCHANGED <<daemon, issued, arg, leaked>>
          /\ pc[p] = "unrecord" /\ pc'[p] = "notify" /\ \A q \in Procs : q # p => pc'[q] = pc[q]
          /\ \A q \in Procs : pc[q] = "save" => arg[q] \in Ids
        <3>1. \A q \in Procs : pc[q] = "save" => arg[q] \in Ids
            BY DEF Control, ControlOf
        <3> QED BY <1>1, <1>4, <2>1, <2>6, <3>1
    <2>10. FreshIds'
        BY SMTT(60), <1>2, <2>2, <2>9 DEF FreshIds
    <2>11. NoResurrection' /\ DeletedIsGone'
        BY <1>1, <1>2, <1>4, <2>2 DEF NoResurrection, DeletedIsGone, TypeOK
    <2>12. OrphanOnlyFromCreate'
        BY SMTT(60), <1>2, <2>2, <2>9, ManagerAssumption DEF OrphanOnlyFromCreate
    <2> QED BY <2>3, <2>5, <2>8, <2>10, <2>11, <2>12
<1> QED BY <1>3, <1>4 DEF Unrecord

-----------------------------------------------------------------------------
\* Reconcile's daemon listing.
LEMMA ReconcileInv ==
    ASSUME IInv, Reconcile
    PROVE  IInv'
<1> USE DEF IInv
<1>1. /\ Ticker \in Procs /\ ControlOf(Ticker) /\ ReservedOf(Ticker)
      /\ pc[Ticker] = "idle" /\ op[Ticker] = None /\ todo[Ticker] = {}
    BY ManagerAssumption DEF Reconcile, Control, ControlOf, NoReservationLeak, ReservedOf
<1>2. /\ UNCHANGED <<records, daemon, mu, owned, issued, op, arg, copy, snap, todo, resv,
                     removed, leaked, now, crashes, losses>>
      /\ pc' = [pc EXCEPT ![Ticker] = "listrecs"] \/ pc' = pc
      /\ alive' \subseteq Ids /\ phase' \in {"boot", "serving"}
    BY DEF Reconcile, TypeOK, Goto, capacityVars, history
<1>3. /\ pc' \in [Procs -> Labels] /\ pc'[Ticker] \in {"idle", "listrecs"}
      /\ \A q \in Procs : q # Ticker => pc'[q] = pc[q]
    BY <1>1, <1>2 DEF TypeOK, Labels
<1>4. TypeOK'
    BY <1>2, <1>3 DEF TypeOK
<1>5. Others(Ticker)
    BY <1>2, <1>3 DEF Others
<1>6. Inert(Ticker)
    BY <1>1, <1>2, <1>3, <1>5 DEF Inert, Calm, Busy
<1>7. ControlOf(Ticker)'
    BY <1>1, <1>2, <1>3, ManagerAssumption DEF ControlOf, Ops
<1>8. ReservedOf(Ticker)'
    BY <1>1, <1>2, <1>3 DEF ReservedOf
<1> QED BY <1>1, <1>4, <1>6, <1>7, <1>8, InertInv

\* Reconcile's listing of the records.
LEMMA ReconcileListInv ==
    ASSUME IInv, ReconcileList
    PROVE  IInv'
<1> USE DEF IInv
<1>1. /\ Ticker \in Procs /\ ControlOf(Ticker) /\ ReservedOf(Ticker)
      /\ pc[Ticker] = "listrecs" /\ op[Ticker] = None
      /\ UNCHANGED <<records, daemon, mu, owned, issued, resv, removed, leaked, now, crashes, losses>>
    BY ManagerAssumption DEF ReconcileList, Control, ControlOf, NoReservationLeak, ReservedOf,
       capacityVars, history
<1>2. CASE /\ List(Ticker, "mark") /\ todo' = [todo EXCEPT ![Ticker] = Missing]
           /\ UNCHANGED <<op, arg, copy, alive, phase>>
    <2>1. Stepped(Ticker) /\ pc'[Ticker] = "mark" /\ op'[Ticker] = None /\ resv'[Ticker] = resv[Ticker]
        BY <1>1, <1>2, Moving DEF List, Labels
    <2>2. Missing \subseteq Ids /\ \A id \in Missing : records[id] # None
        BY DEF Missing, Stored
    <2>3. /\ snap' \in [Procs -> Stores \cup {None}] /\ todo' \in [Procs -> SUBSET Ids]
          /\ snap'[Ticker] = records /\ records \in Stores /\ todo'[Ticker] = Missing
          /\ \A q \in Procs : q # Ticker => snap'[q] = snap[q] /\ todo'[q] = todo[q]
        BY <1>1, <1>2, <2>2 DEF TypeOK, List
    <2>4. TypeOK'
        BY <1>1, <1>2, <2>1, <2>3 DEF TypeOK, Stepped
    <2>5. Others(Ticker)
        BY <1>1, <2>1, <2>3 DEF Others, Stepped
    <2>6. Inert(Ticker)
        BY <1>1, <2>1, <2>5 DEF Inert, Calm, Busy
    <2>7. ControlOf(Ticker)'
        BY <2>1, <2>2, <2>3, ManagerAssumption DEF ControlOf, Ops
    <2>8. ReservedOf(Ticker)'
        BY <1>1, <2>1 DEF ReservedOf
    <2> QED BY <1>1, <2>4, <2>6, <2>7, <2>8, InertInv
<1>3. CASE EndReconcile
    BY <1>1, <1>3, EndInv
<1> QED BY <1>2, <1>3 DEF ReconcileList

\* Reconcile picks the next record to mark.
LEMMA MarkNextInv ==
    ASSUME IInv, MarkNext
    PROVE  IInv'
<1> USE DEF IInv
<1>1. /\ Ticker \in Procs /\ ControlOf(Ticker) /\ ReservedOf(Ticker) /\ pc[Ticker] = "mark"
      /\ UNCHANGED <<records, daemon, mu, owned, issued, copy, snap, alive, resv, removed, leaked,
                     phase, now, crashes, losses>>
    BY ManagerAssumption DEF MarkNext, Control, NoReservationLeak, ReservedOf, capacityVars,
       history, world
<1>2. PICK id \in todo[Ticker] :
        /\ op' = [op EXCEPT ![Ticker] = "lost"] /\ arg' = [arg EXCEPT ![Ticker] = id]
        /\ todo' = [todo EXCEPT ![Ticker] = @ \ {id}] /\ pc' = [pc EXCEPT ![Ticker] = "lock"]
    BY DEF MarkNext, Goto
<1>3. snap[Ticker] \in Stores /\ \A i \in todo[Ticker] : i \in Ids /\ snap[Ticker][i] # None
    BY <1>1 DEF ControlOf
<1>4. /\ Stepped(Ticker) /\ pc'[Ticker] = "lock" /\ op'[Ticker] = "lost" /\ arg'[Ticker] = id
    BY <1>1, <1>2, <1>3 DEF TypeOK, Stepped, Labels, Ops
<1>5. /\ todo' \in [Procs -> SUBSET Ids] /\ todo'[Ticker] = todo[Ticker] \ {id}
      /\ \A q \in Procs : q # Ticker => todo'[q] = todo[q]
    BY <1>1, <1>2 DEF TypeOK
<1>6. TypeOK'
    BY <1>1, <1>4, <1>5 DEF TypeOK, Stepped
<1>7. Others(Ticker)
    BY <1>1, <1>4, <1>5 DEF Others, Stepped
<1>8. Inert(Ticker)
    BY <1>1, <1>4, <1>7 DEF Inert, Calm, Busy
<1>9. ControlOf(Ticker)'
    BY <1>1, <1>3, <1>4, <1>5 DEF ControlOf
<1>10. op[Ticker] # "create"
    BY <1>1, ManagerAssumption DEF ControlOf, Ops
<1>11. ReservedOf(Ticker)'
    BY <1>1, <1>4, <1>10 DEF ReservedOf
<1> QED BY <1>1, <1>6, <1>8, <1>9, <1>11, InertInv

\* Reconcile's SetBase and return.
LEMMA ReconcileBaseInv ==
    ASSUME IInv, ReconcileBase
    PROVE  IInv'
<1>1. /\ pc[Ticker] = "mark" /\ EndReconcile
      /\ UNCHANGED <<records, daemon, mu, owned, issued, resv, removed, leaked, now, crashes, losses>>
    BY DEF ReconcileBase, SetBase, history
<1> QED BY <1>1, EndInv

\* The reaper's listing.
LEMMA ReapIdleInv ==
    ASSUME IInv, NEW p \in Sweepers, ReapIdle(p)
    PROVE  IInv'
<1> USE DEF IInv
<1>0. p \in Procs /\ p # Ticker
    BY ManagerAssumption
<1>1. /\ pc[p] = "idle" /\ ControlOf(p) /\ ReservedOf(p) /\ Goto(p, "sweep")
      /\ todo' = [todo EXCEPT ![p] = IdleRunning] /\ IdleRunning \subseteq Ids
      /\ UNCHANGED <<records, daemon, mu, owned, issued, op, arg, copy, snap, alive, resv,
                     removed, leaked, phase, now, crashes, losses>>
    BY <1>0 DEF ReapIdle, IdleRunning, Stored, Control, NoReservationLeak, ReservedOf, capacityVars,
       history, world
<1>2. Stepped(p) /\ pc'[p] = "sweep" /\ op'[p] = op[p] /\ resv'[p] = resv[p]
    BY <1>0, <1>1, Moving DEF Labels
<1>3. todo' \in [Procs -> SUBSET Ids] /\ \A q \in Procs : q # p => todo'[q] = todo[q]
    BY <1>0, <1>1 DEF TypeOK
<1>4. TypeOK'
    BY <1>1, <1>2, <1>3 DEF TypeOK, Stepped
<1>5. Others(p)
    BY <1>1, <1>2, <1>3 DEF Others, Stepped
<1>6. Inert(p)
    BY <1>1, <1>2, <1>5 DEF Inert, Calm, Busy
<1>7. ControlOf(p)' /\ ReservedOf(p)'
    BY <1>0, <1>1, <1>2, ManagerAssumption DEF ControlOf, ReservedOf, Ops
<1> QED BY <1>0, <1>4, <1>6, <1>7, InertInv

\* The reaper picks its next sandbox.
LEMMA SweepNextInv ==
    ASSUME IInv, NEW p \in Sweepers, SweepNext(p)
    PROVE  IInv'
<1> USE DEF IInv
<1>0. p \in Procs /\ p # Ticker
    BY ManagerAssumption
<1>1. /\ pc[p] = "sweep" /\ ControlOf(p) /\ ReservedOf(p)
      /\ UNCHANGED <<records, daemon, mu, owned, issued, copy, snap, alive, resv, removed, leaked,
                     phase, now, crashes, losses>>
    BY <1>0 DEF SweepNext, Control, NoReservationLeak, ReservedOf, capacityVars, history, world
<1>2. PICK id \in todo[p] :
        /\ todo' = [todo EXCEPT ![p] = @ \ {id}]
        /\ \/ /\ op' = [op EXCEPT ![p] = "stop"] /\ arg' = [arg EXCEPT ![p] = id]
              /\ pc' = [pc EXCEPT ![p] = "rpc"]
           \/ UNCHANGED <<pc, op, arg>>
    BY DEF SweepNext, Goto
<1>3. /\ id \in Ids /\ todo' \in [Procs -> SUBSET Ids]
      /\ \A q \in Procs : q # p => todo'[q] = todo[q]
    BY <1>0, <1>2 DEF TypeOK
<1>4. op[p] = None /\ op[p] # "create"
    BY <1>1, ManagerAssumption DEF ControlOf, Ops
<1>5. /\ Stepped(p)
      /\ \/ pc'[p] = "rpc" /\ op'[p] = "stop" /\ arg'[p] = id
         \/ pc'[p] = pc[p] /\ op'[p] = op[p] /\ arg'[p] = arg[p]
    <2>1. CASE /\ op' = [op EXCEPT ![p] = "stop"] /\ arg' = [arg EXCEPT ![p] = id]
               /\ pc' = [pc EXCEPT ![p] = "rpc"]
        BY <1>0, <1>1, <1>3, <2>1 DEF TypeOK, Stepped, Labels, Ops
    <2>2. CASE UNCHANGED <<pc, op, arg>>
        BY <1>1, <2>2 DEF TypeOK, Stepped
    <2> QED BY <1>2, <2>1, <2>2
<1>6. TypeOK'
    BY <1>1, <1>3, <1>5 DEF TypeOK, Stepped
<1>7. Others(p)
    BY <1>1, <1>3, <1>5 DEF Others, Stepped
<1>8. Inert(p)
    BY <1>1, <1>5, <1>7 DEF Inert, Calm, Busy
<1>9. ControlOf(p)'
    BY <1>0, <1>1, <1>3, <1>4, <1>5, ManagerAssumption DEF ControlOf, Ops
<1>10. ReservedOf(p)'
    BY <1>1, <1>4, <1>5 DEF ReservedOf
<1> QED BY <1>0, <1>6, <1>8, <1>9, <1>10, InertInv

\* The reaper's list is done.
LEMMA SweepEndInv ==
    ASSUME IInv, NEW p \in Sweepers, SweepEnd(p)
    PROVE  IInv'
<1> USE DEF IInv
<1>0. p \in Procs /\ p # Ticker
    BY ManagerAssumption
<1>1. /\ pc[p] = "sweep" /\ ControlOf(p) /\ ReservedOf(p) /\ Goto(p, "idle")
      /\ UNCHANGED <<records, daemon, mu, owned, issued, op, arg, copy, snap, alive, todo, resv,
                     removed, leaked, phase, now, crashes, losses>>
    BY <1>0 DEF SweepEnd, Control, NoReservationLeak, ReservedOf, capacityVars, history, world
<1>2. Stepped(p) /\ pc'[p] = "idle" /\ op'[p] = op[p] /\ resv'[p] = resv[p]
    BY <1>0, <1>1, Moving DEF Labels
<1>3. TypeOK' /\ Others(p)
    BY <1>0, <1>1, <1>2, SteppedType, SteppedOthers DEF TypeOK
<1>4. Inert(p)
    BY <1>1, <1>2, <1>3 DEF Inert, Calm, Busy
<1>5. ControlOf(p)' /\ ReservedOf(p)'
    BY <1>0, <1>1, <1>2, ManagerAssumption DEF ControlOf, ReservedOf, Ops
<1> QED BY <1>0, <1>3, <1>4, <1>5, InertInv

-----------------------------------------------------------------------------
\* A step of no goroutine, that makes no container appear.
LEMMA WorldInv ==
    ASSUME IInv, TypeOK', UNCHANGED <<records, mu, issued, locals, resv, removed, leaked>>,
           \A id \in Ids : daemon[id] = "absent" => daemon'[id] = "absent"
    PROVE  IInv'
<1>1. Ticker \in Procs /\ ControlOf(Ticker) /\ ReservedOf(Ticker)
    BY ManagerAssumption DEF IInv, Control, NoReservationLeak, ReservedOf
<1>2. Inert(Ticker)
    BY DEF Inert, Calm, Others, locals
<1>3. ControlOf(Ticker)' /\ ReservedOf(Ticker)'
    BY <1>1 DEF ControlOf, ReservedOf, locals
<1> QED BY <1>1, <1>2, <1>3, InertInv

\* The clock.
LEMMA TickInv ==
    ASSUME IInv, Tick
    PROVE  IInv'
<1>1. /\ now' = now + 1
      /\ UNCHANGED <<records, daemon, mu, owned, issued, locals, resv, removed, leaked,
                     phase, crashes, losses>>
    BY DEF Tick, capacityVars, history
<1>2. now \in Nat
    BY DEF IInv, TypeOK
<1>3. now' \in Nat
    BY SMTT(60), <1>1, <1>2
<1>4. TypeOK'
    BY <1>1, <1>3 DEF IInv, TypeOK, locals
<1> QED BY <1>1, <1>4, WorldInv

\* A sandbox vanishes from the daemon.
LEMMA DaemonLosesInv ==
    ASSUME IInv, NEW id \in Ids, DaemonLoses(id)
    PROVE  IInv'
<1>1. /\ daemon' = [daemon EXCEPT ![id] = "absent"] /\ losses' = losses + 1
      /\ UNCHANGED <<records, mu, owned, issued, locals, resv, removed, leaked,
                     phase, now, crashes>>
    BY DEF DaemonLoses, capacityVars, history
<1>2. losses \in Nat
    BY DEF IInv, TypeOK
<1>3. losses' \in Nat
    BY SMTT(60), <1>1, <1>2
<1>4. /\ daemon' \in [Ids -> {"absent", "running", "stopped"}]
      /\ \A i \in Ids : daemon[i] = "absent" => daemon'[i] = "absent"
    BY <1>1 DEF IInv, TypeOK
<1>5. TypeOK'
    BY <1>1, <1>3, <1>4 DEF IInv, TypeOK, locals
<1> QED BY <1>1, <1>4, <1>5, WorldInv

\* A stuttering step.
LEMMA StutterInv == ASSUME IInv, UNCHANGED vars PROVE IInv'
<1>1. UNCHANGED <<records, daemon, mu, owned, issued, locals, resv, removed, leaked,
                  phase, now, crashes, losses>>
    BY DEF vars, history, world
<1>2. TypeOK'
    BY <1>1 DEF IInv, TypeOK, locals
<1> QED BY <1>1, <1>2, WorldInv

\* A crash forgets every goroutine; the creates about to save are leaked.
LEMMA CrashInv ==
    ASSUME IInv, Crash
    PROVE  IInv'
<1> USE DEF IInv
<1>1. /\ crashes' = crashes + 1 /\ crashes \in Nat
      /\ UNCHANGED <<records, daemon, issued, removed, now, losses>>
      /\ leaked' = leaked \cup {arg[p] : p \in {q \in Procs : pc[q] = "save"}}
      /\ mu' = None /\ \A p \in Procs : pc'[p] = "idle" /\ op'[p] = None /\ todo'[p] = {} /\ resv'[p] = None
    BY DEF Crash, TypeOK
<1>2. crashes' \in Nat
    BY SMTT(60), <1>1
<1>3. /\ leaked' \subseteq Ids /\ leaked \subseteq leaked'
      /\ \A p \in Procs : pc[p] = "save" => arg[p] \in leaked'
    <2>1. leaked \subseteq Ids /\ \A p \in Procs : pc[p] = "save" => arg[p] \in Ids
        BY DEF TypeOK, Control, ControlOf
    <2>2. leaked' = leaked \cup {arg[p] : p \in {q \in Procs : pc[q] = "save"}}
        BY <1>1
    <2> QED BY SMTT(60), <2>1, <2>2
<1>4. /\ pc' \in [Procs -> Labels] /\ op' \in [Procs -> Ops \cup {None}]
      /\ arg' \in [Procs -> Ids \cup {None}] /\ copy' \in [Procs -> Records \cup {None}]
      /\ snap' \in [Procs -> Stores \cup {None}] /\ todo' \in [Procs -> SUBSET Ids]
      /\ resv' \in [Procs -> Amounts \cup {None}]
    BY DEF Crash, Labels
<1>5. phase' = "boot" /\ alive' = {} /\ owned' \subseteq Ids
    BY DEF Crash, Stored
<1>6. TypeOK'
    BY <1>1, <1>2, <1>3, <1>4, <1>5 DEF TypeOK
<1>7. Control'
    BY <1>1, ManagerAssumption DEF Control, ControlOf, Ops
<1>8. Locking' /\ FreshIds' /\ NoReservationLeak'
    <2>1. Locking'
        BY <1>1, ManagerAssumption DEF Locking
    <2>2. FreshIds'
        BY <1>1 DEF FreshIds
    <2>3. NoReservationLeak'
        BY <1>1, ManagerAssumption DEF NoReservationLeak, Ops
    <2> QED BY <2>1, <2>2, <2>3
<1>9. NoResurrection' /\ DeletedIsGone'
    BY <1>1 DEF NoResurrection, DeletedIsGone
<1>10. OrphanOnlyFromCreate'
    <2>1. UNCHANGED <<records, daemon>>
        BY <1>1
    <2> QED BY SMTT(60), <1>3, <2>1, ManagerAssumption DEF OrphanOnlyFromCreate
<1> QED BY <1>6, <1>7, <1>8, <1>9, <1>10

-----------------------------------------------------------------------------
\* Every reachable state of the manager satisfies the inductive invariant.
THEOREM Invariance == Spec => []IInv
<1>1. IInv /\ [Next]_vars => IInv'
    <2> SUFFICES ASSUME IInv, [Next]_vars PROVE IInv' OBVIOUS
    <2> USE ManagerAssumption
    <2>1. ASSUME NEW p \in Callers, CallBegin(p) PROVE IInv'
        <3>1. ASSUME NEW s \in Specs, AdmitAndCreate(p, s) PROVE IInv'
            BY SMTT(60), <3>1, AdmitAndCreateInv
        <3>2. ASSUME NEW id \in Ids, NEW o \in {"start", "stop"}, StartStop(p, id, o) PROVE IInv'
            BY SMTT(60), <3>2, StartStopInv
        <3>3. ASSUME NEW id \in Ids, NEW o \in {"bump", "exec"}, Touch(p, id, o) PROVE IInv'
            BY SMTT(60), <3>3, TouchInv
        <3>4. ASSUME NEW id \in Ids, Delete(p, id) PROVE IInv'
            BY SMTT(60), <3>4, DeleteInv
        <3> QED BY SMTT(60), <2>1, <3>1, <3>2, <3>3, <3>4 DEF CallBegin
    <2>2. ASSUME NEW p \in Procs, MutateStep(p) PROVE IInv'
        BY <2>2, MutateLockInv, MutateSaveInv, MutateErrorInv DEF MutateStep
    <2>3. ASSUME NEW p \in Callers, CreateStep(p) PROVE IInv'
        BY <2>3, BackendCreateInv, SaveNewInv, ReleaseOnErrorInv, NotifyListInv,
           NotifyOwnedInv, CommitListInv, CommitCreateInv DEF CreateStep
    <2>4. ASSUME NEW p \in Callers, CallStep(p) PROVE IInv'
        BY <2>2, <2>3, <2>4, BackendStartStopInv, BackendExecInv, BackendRemoveInv,
           UnrecordInv DEF CallStep
    <2>5. ASSUME ReconcileStep PROVE IInv'
        BY <2>2, <2>5, ReconcileInv, ReconcileListInv, MarkNextInv, ReconcileBaseInv
           DEF ReconcileStep
    <2>6. ASSUME NEW p \in Sweepers, ReapIdle(p) \/ SweepStep(p) PROVE IInv'
        BY <2>2, <2>6, ReapIdleInv, SweepNextInv, SweepEndInv, BackendStartStopInv
           DEF SweepStep
    <2> QED BY <2>1, <2>4, <2>5, <2>6, TickInv, CrashInv, DaemonLosesInv, StutterInv DEF Next
<1> QED BY InitInv, <1>1, PTL DEF Spec

\* The store, the daemon and every goroutine's locals keep their types.
THEOREM TypeCorrect == Spec => []TypeOK
<1>1. IInv => TypeOK BY DEF IInv
<1> QED BY Invariance, <1>1, PTL

\* mutate loses no update, whatever runs beside it.
THEOREM MutateIsAtomic == Spec => []NoLostUpdate
<1>1. IInv => NoLostUpdate BY DEF IInv, Locking, NoLostUpdate
<1> QED BY Invariance, <1>1, PTL

\* A deleted sandbox stays deleted: its record does not come back and its
\* container is gone.
THEOREM DeleteIsFinal == Spec => [](NoResurrection /\ DeletedIsGone)
<1>1. IInv => NoResurrection /\ DeletedIsGone BY DEF IInv
<1> QED BY Invariance, <1>1, PTL

\* Only an interrupted create leaves a container without a record.
THEOREM NoOtherOrphans == Spec => []OrphanOnlyFromCreate
<1>1. IInv => OrphanOnlyFromCreate BY DEF IInv
<1> QED BY Invariance, <1>1, PTL

\* No create leaks its reservation and none loses it early.
THEOREM ReservationsBalance == Spec => []NoReservationLeak
<1>1. IInv => NoReservationLeak BY DEF IInv
<1> QED BY Invariance, <1>1, PTL
=============================================================================
