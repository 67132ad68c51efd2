--------------------------- MODULE SandboxManager ---------------------------
(***************************************************************************)
(* One node's sandbox manager (internal/sandbox/manager.go): the durable   *)
(* records, the sbx daemon they describe, the admission accounting, and    *)
(* the goroutines that work on them - API calls, the 10s reconcile ticker  *)
(* and the idle reaper.                                                    *)
(*                                                                         *)
(* Each access to the store, the daemon, the accounting or Manager.mu is a *)
(* step of its own; what a goroutine read stays in its local variables     *)
(* until the step that uses it.  A crash loses everything but the store    *)
(* and the daemon.                                                         *)
(***************************************************************************)
EXTENDS Capacity

CONSTANTS
    Ids,        \* the sandbox ids this run can issue
    Specs,      \* the create requests clients send
    Cost,       \* [Specs -> Amounts]: costOf
    Exempt,     \* the specs labelled idle-stop: off
    Callers,    \* the goroutines that serve API calls
    Sweepers,   \* the goroutines that stop sandboxes from a list: the reaper
    Ticker,     \* the goroutine that reconciles
    CallerOps,  \* the API operations clients use
    MayFail,    \* the daemon and store calls that may return an error
    MaxTime,    \* bound on the clock
    IdleTimeout,
    MaxCrashes, \* bound on crashes of the node
    MaxLosses   \* bound on sandboxes that vanish from the daemon

Statuses == {"running", "stopped", "lost"}
Records == [status : Statuses, spec : Specs, last : Nat]
Stores == [Ids -> Records \cup {None}]
Ops == {"create", "start", "stop", "bump", "exec", "delete", "lost"}
Labels == {"idle", "create", "save", "release", "notify", "owned", "list",
           "commit", "rpc", "lock", "write", "exec", "remove", "unrecord",
           "reap", "listrecs", "mark", "sweep"}

ASSUME ManagerAssumption ==
    /\ Cost \in [Specs -> Amounts]
    /\ Callers \cup Sweepers \cup {Ticker} \subseteq Procs
    /\ Callers \cap Sweepers = {}
    /\ Ticker \notin Callers \cup Sweepers
    /\ None \notin Ids \cup Records \cup Procs \cup Ops \cup Stores
    /\ CallerOps \subseteq Ops \ {"lost"}
    /\ MayFail \subseteq {"create", "save", "rpc", "remove", "list"}
    /\ {MaxTime, IdleTimeout, MaxCrashes, MaxLosses} \subseteq Nat

VARIABLES
    records,    \* the store's "sandboxes" bucket: Ids -> record or None
    daemon,     \* the sbx daemon: Ids -> "absent", "running", "stopped"
    mu,         \* the holder of Manager.mu, or None
    owned,      \* Cluster.local.OwnedSandboxIDs, gossiped to the peers
    phase,      \* "boot" until the first Reconcile returned, then "serving"
    now,        \* the clock
    issued,     \* ids handed out by ids.Sandbox
    crashes,
    losses,
    pc, op, arg, copy, snap, alive, todo,   \* locals of the goroutines
    removed,    \* history: ids whose record Delete took out of the store
    leaked      \* history: ids whose create stopped before its record was saved

locals == <<pc, op, arg, copy, snap, alive, todo>>
history == <<removed, leaked>>
world == <<phase, now, crashes, losses>>
vars == <<records, daemon, mu, owned, issued, base, resv, locals, history, world>>

Init ==
    /\ records = [id \in Ids |-> None]
    /\ daemon = [id \in Ids |-> "absent"]
    /\ mu = None
    /\ owned = {}
    /\ phase = "boot"
    /\ now = 0 /\ crashes = 0 /\ losses = 0
    /\ issued = {} /\ removed = {} /\ leaked = {}
    /\ pc = [p \in Procs |-> "idle"]
    /\ op = [p \in Procs |-> None]
    /\ arg = [p \in Procs |-> None]
    /\ copy = [p \in Procs |-> None]
    /\ snap = [p \in Procs |-> None]
    /\ alive = {}
    /\ todo = [p \in Procs |-> {}]
    /\ NewCapacity

-----------------------------------------------------------------------------
(***************************************************************************)
(* Moving a goroutine from one step to the next.                           *)
(***************************************************************************)
\* Stored(st): the ids a listing returns.
Stored(st) == {id \in Ids : st[id] # None}

\* costSum: the cost of the records a listing returned, the lost ones left out.
CostSum(st) ==
    [r \in Resources |->
        MapThenSumSet(LAMBDA id : Cost[st[id].spec][r],
                      {id \in Stored(st) : st[id].status # "lost"})]

Goto(p, label) == pc' = [pc EXCEPT ![p] = label]

\* Where p continues when its current operation on one sandbox has returned.
Resume(p) == IF p = Ticker THEN "mark" ELSE IF p \in Sweepers THEN "sweep" ELSE "idle"

Return(p) ==
    /\ Goto(p, Resume(p))
    /\ op' = [op EXCEPT ![p] = None]
    /\ arg' = [arg EXCEPT ![p] = None]
    /\ copy' = [copy EXCEPT ![p] = None]

\* Reconcile returns, with or without an error; the boot's one opens the API.
EndReconcile ==
    /\ Goto(Ticker, "idle")
    /\ op' = [op EXCEPT ![Ticker] = None]
    /\ arg' = [arg EXCEPT ![Ticker] = None]
    /\ copy' = [copy EXCEPT ![Ticker] = None]
    /\ snap' = [snap EXCEPT ![Ticker] = None]
    /\ todo' = [todo EXCEPT ![Ticker] = {}]
    /\ alive' = {}
    /\ phase' = "serving"

Begin(p, o, id, label) ==
    /\ phase = "serving" /\ pc[p] = "idle" /\ p \in Callers /\ o \in CallerOps
    /\ op' = [op EXCEPT ![p] = o]
    /\ arg' = [arg EXCEPT ![p] = id]
    /\ Goto(p, label)

\* store.ForEach in one read transaction: the snapshot stays with p.
List(p, label) ==
    /\ snap' = [snap EXCEPT ![p] = records]
    /\ Goto(p, label)

-----------------------------------------------------------------------------
(***************************************************************************)
(* AdmitAndCreate and Create.                                              *)
(***************************************************************************)
\* Bound: a create is admitted only while an id is left for it.
IdLeft == Cardinality({q \in Procs : pc[q] = "create"}) < Cardinality(Ids \ issued)

AdmitAndCreate(p, s) ==
    /\ IdLeft
    /\ Begin(p, "create", None, "create")
    /\ TryReserve(p, Cost[s])
    /\ copy' = [copy EXCEPT ![p] = [status |-> "running", spec |-> s, last |-> 0]]
    /\ UNCHANGED <<records, daemon, mu, owned, issued, snap, alive, todo, history, world>>

\* backend.Create under a fresh id.  A failed call may have started the
\* container all the same (the daemon answered too late).
BackendCreate(p) ==
    /\ pc[p] = "create"
    /\ \E id \in Ids \ issued :
        /\ issued' = issued \cup {id}
        /\ arg' = [arg EXCEPT ![p] = id]
        /\ \/ /\ daemon' = [daemon EXCEPT ![id] = "running"]
              /\ copy' = [copy EXCEPT ![p].last = now]
              /\ Goto(p, "save")
              /\ UNCHANGED leaked
           \/ /\ "create" \in MayFail
              /\ Goto(p, "release")
              /\ \/ /\ daemon' = [daemon EXCEPT ![id] = "running"]
                    /\ leaked' = leaked \cup {id}
                 \/ UNCHANGED <<daemon, leaked>>
              /\ UNCHANGED copy
    /\ UNCHANGED <<records, mu, owned, op, snap, alive, todo, capacityVars, removed, world>>

\* An error of the save leaves the container on the daemon without a record.
SaveNew(p) ==
    /\ pc[p] = "save"
    /\ \/ /\ records' = [records EXCEPT ![arg[p]] = copy[p]]
          /\ Goto(p, "notify")
          /\ UNCHANGED leaked
       \/ /\ "save" \in MayFail
          /\ leaked' = leaked \cup {arg[p]}
          /\ Goto(p, "release")
          /\ UNCHANGED records
    /\ UNCHANGED <<daemon, mu, owned, issued, op, arg, copy, snap, alive, todo,
                   capacityVars, removed, world>>

ReturnOnError(p) ==
    /\ pc[p] = "release"
    /\ Return(p)
    /\ UNCHANGED <<records, daemon, mu, owned, issued, snap, alive, todo, capacityVars,
                   history, world>>

ReleaseOnError(p) ==
    /\ pc[p] = "release"
    /\ Release(p)
    /\ Return(p)
    /\ UNCHANGED <<records, daemon, mu, owned, issued, snap, alive, todo, history, world>>

\* What follows notifyOwnedChanged: a create still commits, a delete is done.
AfterNotify(p) ==
    \/ op[p] = "create" /\ Goto(p, "list") /\ UNCHANGED <<op, arg, copy>>
    \/ op[p] = "delete" /\ Return(p)

\* notifyOwnedChanged: list the records (on an error it gives up silently) ...
NotifyList(p) ==
    /\ pc[p] = "notify"
    /\ \/ List(p, "owned") /\ UNCHANGED <<op, arg, copy>>
       \/ "list" \in MayFail /\ AfterNotify(p) /\ UNCHANGED snap
    /\ UNCHANGED <<records, daemon, mu, owned, issued, alive, todo,
                   capacityVars, history, world>>

\* ... and hand their ids to UpdateLocalSandboxIDs.
NotifyOwned(p) ==
    /\ pc[p] = "owned"
    /\ owned' = Stored(snap[p])
    /\ snap' = [snap EXCEPT ![p] = None]
    /\ AfterNotify(p)
    /\ UNCHANGED <<records, daemon, mu, issued, alive, todo, capacityVars, history, world>>

\* Back in AdmitAndCreate: the listing the new base is computed from.
CommitList(p) ==
    /\ pc[p] = "list"
    /\ \/ List(p, "commit") /\ UNCHANGED <<op, arg, copy, capacityVars>>
       \/ "list" \in MayFail /\ Commit(p) /\ Return(p) /\ UNCHANGED snap
    /\ UNCHANGED <<records, daemon, mu, owned, issued, alive, todo, history, world>>

CommitCreate(p) ==
    /\ pc[p] = "commit"
    /\ CommitBase(p, CostSum(snap[p]))
    /\ snap' = [snap EXCEPT ![p] = None]
    /\ Return(p)
    /\ UNCHANGED <<records, daemon, mu, owned, issued, alive, todo, history, world>>

-----------------------------------------------------------------------------
(***************************************************************************)
(* lifecycle (Start, Stop), BumpActivity, Exec: a daemon call outside the  *)
(* lock and a mutate under it.                                             *)
(***************************************************************************)
\* Start and Stop: lifecycle's Get found the record; an unknown id returns.
StartStop(p, id, o) ==
    /\ o \in {"start", "stop"}
    /\ records[id] # None
    /\ Begin(p, o, id, "rpc")
    /\ UNCHANGED <<records, daemon, mu, owned, issued, copy, snap, alive, todo,
                   capacityVars, history, world>>

\* KeepAlive is a bare BumpActivity; Exec and its kin bump, then run a command.
Touch(p, id, o) ==
    /\ o \in {"bump", "exec"}
    /\ records[id] # None
    /\ Begin(p, o, id, "lock")
    /\ UNCHANGED <<records, daemon, mu, owned, issued, copy, snap, alive, todo,
                   capacityVars, history, world>>

\* backend.Start / backend.Stop: not found, an RPC error, or the transition.
BackendStartStop(p) ==
    /\ pc[p] = "rpc"
    /\ \/ /\ daemon[arg[p]] # "absent"
          /\ daemon' = [daemon EXCEPT ![arg[p]] = IF op[p] = "start" THEN "running" ELSE "stopped"]
          /\ Goto(p, "lock")
          /\ UNCHANGED <<op, arg, copy>>
       \/ /\ daemon[arg[p]] = "absent" \/ "rpc" \in MayFail
          /\ Return(p)
          /\ UNCHANGED daemon
    /\ UNCHANGED <<records, mu, owned, issued, snap, alive, todo, capacityVars, history, world>>

\* What follows mutate: an exec ignores its error and runs the command.
AfterMutate(p) ==
    \/ op[p] = "exec" /\ Goto(p, "exec") /\ UNCHANGED <<op, arg, copy>>
    \/ op[p] # "exec" /\ Return(p)

\* Manager.mu.Lock.
LockIgnored == TRUE
Lock == mu = None

\* mutate, first half: take Manager.mu and re-read the record.
MutateLock(p) ==
    /\ pc[p] = "lock" /\ Lock
    /\ \/ /\ records[arg[p]] # None
          /\ mu' = p
          /\ copy' = [copy EXCEPT ![p] = records[arg[p]]]
          /\ Goto(p, "write")
          /\ UNCHANGED <<op, arg>>
       \/ /\ records[arg[p]] = None
          /\ AfterMutate(p)
          /\ UNCHANGED mu
    /\ UNCHANGED <<records, daemon, owned, issued, snap, alive, todo, capacityVars,
                   history, world>>

\* The change each operation makes to the record it holds.
Mutated(o, rec) ==
    CASE o = "start" -> [rec EXCEPT !.status = "running"]
      [] o = "stop"  -> [rec EXCEPT !.status = "stopped"]
      [] o = "lost"  -> [rec EXCEPT !.status = "lost"]
      [] OTHER       -> [rec EXCEPT !.last = now]

\* mutate, second half: save and unlock.  Start goes on to BumpActivity, and
\* Reconcile also marks its own snapshot.
MutateSave(p) ==
    /\ pc[p] = "write"
    /\ records' = [records EXCEPT ![arg[p]] = Mutated(op[p], copy[p])]
    /\ mu' = None
    /\ snap' = IF op[p] = "lost" THEN [snap EXCEPT ![p][arg[p]].status = "lost"] ELSE snap
    /\ \/ /\ op[p] = "start"
          /\ op' = [op EXCEPT ![p] = "bump"]
          /\ Goto(p, "lock")
          /\ copy' = [copy EXCEPT ![p] = None]
          /\ UNCHANGED arg
       \/ op[p] # "start" /\ AfterMutate(p)
    /\ UNCHANGED <<daemon, owned, issued, alive, todo, capacityVars, history, world>>

\* The save failed: the record keeps its old value.  Reconcile gives up.
MutateError(p) ==
    /\ pc[p] = "write" /\ "save" \in MayFail
    /\ mu' = None
    /\ IF p = Ticker THEN EndReconcile ELSE AfterMutate(p) /\ UNCHANGED <<snap, alive, todo, phase>>
    /\ UNCHANGED <<records, daemon, owned, issued, capacityVars, history, now, crashes, losses>>

\* Backend.Exec with WithAutoStart: a stopped sandbox is started, and nothing
\* tells the record.
BackendExec(p) ==
    /\ pc[p] = "exec"
    /\ \/ daemon[arg[p]] # "absent" /\ daemon' = [daemon EXCEPT ![arg[p]] = "running"]
       \/ (daemon[arg[p]] = "absent" \/ "rpc" \in MayFail) /\ UNCHANGED daemon
    /\ Return(p)
    /\ UNCHANGED <<records, mu, owned, issued, snap, alive, todo, capacityVars, history, world>>

-----------------------------------------------------------------------------
(***************************************************************************)
(* Delete.                                                                 *)
(***************************************************************************)
\* "reap" is the path without a record: the container is removed by name.
Delete(p, id) ==
    /\ id \in issued
    /\ Begin(p, "delete", id, IF records[id] = None THEN "reap" ELSE "remove")
    /\ UNCHANGED <<records, daemon, mu, owned, issued, copy, snap, alive, todo,
                   capacityVars, history, world>>

BackendRemoveIgnoringErrors(p) ==
    /\ pc[p] \in {"reap", "remove"}
    /\ \/ daemon' = [daemon EXCEPT ![arg[p]] = "absent"]
       \/ "remove" \in MayFail /\ UNCHANGED daemon
    /\ \/ pc[p] = "remove" /\ Goto(p, "unrecord") /\ UNCHANGED <<op, arg, copy>>
       \/ pc[p] = "reap" /\ Return(p)
    /\ UNCHANGED <<records, mu, owned, issued, snap, alive, todo, capacityVars, history, world>>

BackendRemove(p) ==
    /\ pc[p] \in {"reap", "remove"}
    /\ \/ /\ daemon' = [daemon EXCEPT ![arg[p]] = "absent"]
          /\ \/ pc[p] = "remove" /\ Goto(p, "unrecord") /\ UNCHANGED <<op, arg, copy>>
             \/ pc[p] = "reap" /\ Return(p)
       \/ "remove" \in MayFail /\ Return(p) /\ UNCHANGED daemon
    /\ UNCHANGED <<records, mu, owned, issued, snap, alive, todo, capacityVars, history, world>>

\* store.Delete under Manager.mu.
Unrecord(p) ==
    /\ pc[p] = "unrecord" /\ Lock
    /\ \/ /\ records' = [records EXCEPT ![arg[p]] = None]
          /\ removed' = removed \cup {arg[p]}
          /\ Goto(p, "notify")
          /\ UNCHANGED <<op, arg, copy>>
       \/ "save" \in MayFail /\ Return(p) /\ UNCHANGED <<records, removed>>
    /\ UNCHANGED <<daemon, mu, owned, issued, snap, alive, todo, capacityVars, leaked, world>>

-----------------------------------------------------------------------------
(***************************************************************************)
(* Reconcile, run at boot and then by the ticker.                          *)
(***************************************************************************)
\* backend.List.  When the daemon does not answer, Reconcile returns.
Reconcile ==
    /\ pc[Ticker] = "idle"
    /\ \/ /\ alive' = {id \in Ids : daemon[id] # "absent"}
          /\ Goto(Ticker, "listrecs")
          /\ UNCHANGED phase
       \/ "list" \in MayFail /\ phase' = "serving" /\ UNCHANGED <<pc, alive>>
    /\ UNCHANGED <<records, daemon, mu, owned, issued, op, arg, copy, snap, todo,
                   capacityVars, history, now, crashes, losses>>

\* The listed records whose sandbox the daemon did not list.
MissingRunning == {id \in Stored(records) : records[id].status = "running" /\ id \notin alive}
Missing == {id \in Stored(records) : records[id].status # "lost" /\ id \notin alive}

\* Manager.List, and the records the loop below will mark.
ReconcileList ==
    /\ pc[Ticker] = "listrecs"
    /\ \/ /\ List(Ticker, "mark")
          /\ todo' = [todo EXCEPT ![Ticker] = Missing]
          /\ UNCHANGED <<op, arg, copy, alive, phase>>
       \/ "list" \in MayFail /\ EndReconcile
    /\ UNCHANGED <<records, daemon, mu, owned, issued, capacityVars, history,
                   now, crashes, losses>>

\* The loop body: mutate one record to "lost" (a record deleted meanwhile is skipped).
MarkNext ==
    /\ pc[Ticker] = "mark"
    /\ \E id \in todo[Ticker] :
        /\ op' = [op EXCEPT ![Ticker] = "lost"]
        /\ arg' = [arg EXCEPT ![Ticker] = id]
        /\ todo' = [todo EXCEPT ![Ticker] = @ \ {id}]
        /\ Goto(Ticker, "lock")
    /\ UNCHANGED <<records, daemon, mu, owned, issued, copy, snap, alive,
                   capacityVars, history, world>>

ReconcileBase ==
    /\ pc[Ticker] = "mark" /\ todo[Ticker] = {}
    /\ SetBase(CostSum(snap[Ticker]))
    /\ EndReconcile
    /\ UNCHANGED <<records, daemon, mu, owned, issued, history, now, crashes, losses>>

-----------------------------------------------------------------------------
(***************************************************************************)
(* ReapIdle: stop what was idle when the list was taken.  The auto-publish *)
(* before each stop writes nothing modelled here; the time it takes is the *)
(* gap between two steps.                                                  *)
(***************************************************************************)
IdleRunning ==
    {id \in Stored(records) : /\ records[id].status = "running"
                              /\ records[id].spec \notin Exempt
                              /\ now - records[id].last > IdleTimeout}

ReapIdle(p) ==
    /\ pc[p] = "idle" /\ phase = "serving"
    /\ IdleTimeout > 0 /\ IdleRunning # {}
    /\ todo' = [todo EXCEPT ![p] = IdleRunning]
    /\ Goto(p, "sweep")
    /\ UNCHANGED <<records, daemon, mu, owned, issued, op, arg, copy, snap, alive,
                   capacityVars, history, world>>

\* The next sandbox of the list: Stop it, or skip one whose record is gone.
SweepNext(p) ==
    /\ pc[p] = "sweep"
    /\ \E id \in todo[p] :
        /\ todo' = [todo EXCEPT ![p] = @ \ {id}]
        /\ \/ /\ records[id] # None
              /\ op' = [op EXCEPT ![p] = "stop"]
              /\ arg' = [arg EXCEPT ![p] = id]
              /\ Goto(p, "rpc")
           \/ records[id] = None /\ UNCHANGED <<pc, op, arg>>
    /\ UNCHANGED <<records, daemon, mu, owned, issued, copy, snap, alive,
                   capacityVars, history, world>>

SweepEnd(p) ==
    /\ pc[p] = "sweep" /\ todo[p] = {}
    /\ Goto(p, "idle")
    /\ UNCHANGED <<records, daemon, mu, owned, issued, op, arg, copy, snap, alive, todo,
                   capacityVars, history, world>>

-----------------------------------------------------------------------------
(***************************************************************************)
(* The world around the manager.                                           *)
(***************************************************************************)
Tick ==
    /\ now < MaxTime
    /\ now' = now + 1
    /\ UNCHANGED <<records, daemon, mu, owned, issued, locals, capacityVars, history,
                   phase, crashes, losses>>

\* A sandbox vanishes from the daemon behind the node's back.
DaemonLoses(id) ==
    /\ losses < MaxLosses /\ daemon[id] # "absent"
    /\ daemon' = [daemon EXCEPT ![id] = "absent"]
    /\ losses' = losses + 1
    /\ UNCHANGED <<records, mu, owned, issued, locals, capacityVars, history,
                   phase, now, crashes>>

\* The node dies and a new process starts: the store and the daemon survive,
\* and the boot snapshot of the owned ids is taken from the store.
Crash ==
    /\ crashes < MaxCrashes
    /\ crashes' = crashes + 1
    /\ phase' = "boot"
    /\ mu' = None
    /\ owned' = Stored(records)
    /\ base' = Zero /\ resv' = [p \in Procs |-> None]
    /\ pc' = [p \in Procs |-> "idle"]
    /\ op' = [p \in Procs |-> None]
    /\ arg' = [p \in Procs |-> None]
    /\ copy' = [p \in Procs |-> None]
    /\ snap' = [p \in Procs |-> None]
    /\ todo' = [p \in Procs |-> {}]
    /\ alive' = {}
    /\ leaked' = leaked \cup {arg[p] : p \in {q \in Procs : pc[q] = "save"}}
    /\ UNCHANGED <<records, daemon, issued, removed, now, losses>>

-----------------------------------------------------------------------------
CreateStep(p) ==
    \/ BackendCreate(p) \/ SaveNew(p) \/ ReleaseOnError(p)
    \/ NotifyList(p) \/ NotifyOwned(p) \/ CommitList(p) \/ CommitCreate(p)

MutateStep(p) == MutateLock(p) \/ MutateSave(p) \/ MutateError(p)

\* A step of an API call that has begun.
CallStep(p) ==
    \/ CreateStep(p) \/ MutateStep(p)
    \/ BackendStartStop(p) \/ BackendExec(p)
    \/ BackendRemove(p) \/ Unrecord(p)

\* A client calls the node.
CallBegin(p) ==
    \/ \E s \in Specs : AdmitAndCreate(p, s)
    \/ \E id \in Ids : \/ \E o \in {"start", "stop"} : StartStop(p, id, o)
                       \/ \E o \in {"bump", "exec"} : Touch(p, id, o)
                       \/ Delete(p, id)

ReconcileStep ==
    \/ Reconcile \/ ReconcileList \/ MarkNext \/ ReconcileBase \/ MutateStep(Ticker)

SweepStep(p) == SweepNext(p) \/ SweepEnd(p) \/ BackendStartStop(p) \/ MutateStep(p)

Next ==
    \/ \E p \in Callers : CallBegin(p) \/ CallStep(p)
    \/ ReconcileStep
    \/ \E p \in Sweepers : ReapIdle(p) \/ SweepStep(p)
    \/ Tick \/ Crash
    \/ \E id \in Ids : DaemonLoses(id)

Spec == Init /\ [][Next]_vars

(***************************************************************************)
(* Fairness.  Goroutines are scheduled, a daemon or store call returns,    *)
(* and sync.Mutex hands the lock to a starving waiter, so every step of a  *)
(* call, of the ticker and of the reaper that stays enabled is taken, and  *)
(* a lock that is free again and again is obtained.  The ticker fires      *)
(* every 10 seconds, the reaper on its own interval, and the clock runs.   *)
(* Nothing obliges a client to call or a daemon call to fail.              *)
(***************************************************************************)
Fairness ==
    /\ \A p \in Callers : WF_vars(CallStep(p)) /\ SF_vars(MutateLock(p)) /\ SF_vars(Unrecord(p))
    /\ WF_vars(ReconcileStep) /\ SF_vars(MutateLock(Ticker))
    /\ \A p \in Sweepers : WF_vars(ReapIdle(p)) /\ WF_vars(SweepStep(p)) /\ SF_vars(MutateLock(p))
    /\ WF_vars(Tick)

FairSpec == Spec /\ Fairness

-----------------------------------------------------------------------------
(***************************************************************************)
(* What the manager promises.                                              *)
(***************************************************************************)
\* Type invariant of the store, the daemon and every goroutine's locals.
TypeOK ==
    /\ records \in Stores
    /\ daemon \in [Ids -> {"absent", "running", "stopped"}]
    /\ mu \in Procs \cup {None}
    /\ owned \subseteq Ids /\ issued \subseteq Ids
    /\ removed \subseteq Ids /\ leaked \subseteq Ids
    /\ phase \in {"boot", "serving"}
    /\ now \in Nat /\ crashes \in Nat /\ losses \in Nat
    /\ pc \in [Procs -> Labels]
    /\ op \in [Procs -> Ops \cup {None}]
    /\ arg \in [Procs -> Ids \cup {None}]
    /\ copy \in [Procs -> Records \cup {None}]
    /\ snap \in [Procs -> Stores \cup {None}]
    /\ alive \subseteq Ids
    /\ todo \in [Procs -> SUBSET Ids]
    /\ resv \in [Procs -> Amounts \cup {None}]

\* mutate never overwrites what another goroutine wrote: the copy it is about
\* to save is still the stored record, whichever calls, reconciles, sweeps and
\* deletes run beside it (manager.go, mutate: "prevents lost updates").
NoLostUpdate == \A p \in Procs : pc[p] = "write" => mu = p /\ copy[p] = records[arg[p]]

\* A record Delete took out never comes back, although Start, Stop, Exec, the
\* reaper and Reconcile may all have read it before and write afterwards.
NoResurrection == \A id \in removed : records[id] = None

\* Delete takes the container away before the record, and no operation that
\* raced it brings the container back: a deleted sandbox is not on the daemon.
DeletedIsGone == \A id \in removed : daemon[id] = "absent"

\* A container without a record is a create about to save, or the trace of one
\* that stopped (a crash, an error) before its record was saved.  No other
\* interleaving, in particular none with Delete, orphans a container.
OrphanOnlyFromCreate ==
    \A id \in Ids : daemon[id] # "absent" /\ records[id] = None =>
        id \in leaked \/ \E p \in Callers : pc[p] = "save" /\ arg[p] = id

\* A reservation is held exactly while its create is in flight: no error path
\* of AdmitAndCreate keeps one, and none is dropped early.
NoReservationLeak ==
    \A p \in Procs : resv[p] # None <=>
        op[p] = "create" /\ pc[p] \in {"create", "save", "release", "notify", "owned", "list", "commit"}

\* However stale the snapshots that were written to it, the absolute base ends
\* up as the cost of the records, with no reservation outstanding, once clients
\* stop creating and deleting (CommitBase, SetBase).
AccountingHeals == <>[](base = CostSum(records) /\ Holders = {})

\* A record whose sandbox vanished from the daemon becomes lost, or is deleted,
\* even when a Start, Stop or activity bump in flight rewrites it.
VanishedBecomesLost ==
    \A id \in Ids : records[id] # None /\ daemon[id] = "absent"
        ~> records[id] = None \/ records[id].status = "lost"

-----------------------------------------------------------------------------
(***************************************************************************)
(* What the documents say of the manager, and the code does not keep.      *)
(***************************************************************************)
\* ADR-0012: "reserved admission still prevents exceeding the limit".  The cost
\* of the recorded sandboxes would never exceed the provision limit.
NeverOverAdmits == \A r \in Resources : FitsLimit(CostSum(records)[r], r)

\* CONTEXT.md, Lost: "Owner-confirmed gone: ... reconciliation found the sandbox
\* absent from its daemon".  Whatever is marked lost would be absent then.
LostIsConfirmed ==
    [][\A id \in Ids :
        /\ records[id] # None /\ records'[id] # None
        /\ records[id].status # "lost" /\ records'[id].status = "lost"
        => daemon[id] = "absent"]_vars

\* README: "only the owner ever declares lost (terminal)".  A lost record would
\* stay lost until it is deleted.
LostIsTerminal ==
    [][\A id \in Ids :
        /\ records[id] # None /\ records'[id] # None
        /\ records[id].status = "lost"
        => records'[id].status = "lost"]_vars

\* node.go, where the notifier is wired: "Re-gossip OwnedSandboxIDs on
\* create/delete so peer node-state stays fresh".  With no call in flight the
\* gossiped ids would be those of the records.
OwnedIsFresh == (\A p \in Callers : pc[p] = "idle") => owned = Stored(records)

\* CONTEXT.md, Idle-stop: "automatically stops a sandbox that has had no Activity
\* for longer than the configured idle timeout".  What the reaper stops would
\* have been idle for that long when it is stopped.
ReapedWasIdle ==
    [][\A p \in Sweepers, id \in Ids :
        /\ pc[p] = "rpc" /\ arg[p] = id /\ records[id] # None
        /\ daemon[id] = "running" /\ daemon'[id] = "stopped"
        => now - records[id].last > IdleTimeout]_vars

\* The same sentence, the other way: a running sandbox that has been idle for
\* too long would be stopped (or used again, or deleted).
Overdue(id) ==
    /\ records[id] # None /\ records[id].status # "lost" /\ daemon[id] = "running"
    /\ records[id].spec \notin Exempt
    /\ now - records[id].last > IdleTimeout
IdleIsStopped == \A id \in Ids : Overdue(id) ~> ~Overdue(id)
=============================================================================
