---------------------------- MODULE NodeControl ----------------------------
(***************************************************************************)
(* Cordon, uncordon and drain of one node                                  *)
(* (internal/apiserver/nodeservice.go, internal/node/flags.go) with the    *)
(* sweep a drain starts (SandboxService.DrainAll), the placements that     *)
(* look at the cordon, the users who start and stop sandboxes meanwhile,   *)
(* and restarts.                                                           *)
(*                                                                         *)
(* The flags are atomics: other goroutines read them while an RPC that     *)
(* holds the mutex is half-way.  Each store to a flag, to the cluster's    *)
(* copy and to disk is a step.                                             *)
(***************************************************************************)
EXTENDS Naturals, FiniteSets

CONSTANTS
    Sids,         \* sandboxes of the node
    Operators,    \* goroutines serving operator RPCs
    Sweepers,     \* goroutines a drain may spawn
    Placers,      \* placements in progress, local or forwarded
    Orders,       \* subset of {"cordon", "uncordon", "drain"}
    MaxRPCs,      \* bound on the RPCs of a behaviour
    SaveFails,    \* BOOLEAN: the write of the flags may fail
    LoadFails,    \* BOOLEAN: the read of the flags at boot may fail
    ListFails,    \* BOOLEAN: the sweep's listing may fail
    StopFails,    \* BOOLEAN: a stop may fail
    None

ASSUME NodeControlAssumption ==
    /\ None \notin Operators
    /\ Orders \subseteq {"cordon", "uncordon", "drain"}
    /\ MaxRPCs \in Nat
    /\ SaveFails \in BOOLEAN /\ LoadFails \in BOOLEAN
    /\ ListFails \in BOOLEAN /\ StopFails \in BOOLEAN

VARIABLES
    cordoned, draining,   \* NodeService's atomics
    mirror,               \* Cluster.local.Cordoned
    saved,                \* the "flags" record of the store
    nmu,                  \* holder of NodeService.mu, or None
    sweeping,             \* guarded by nmu
    opc, rpc,             \* operator RPC: step, which
    spc, todo,            \* sweep: step, sandboxes listed and not yet visited
    ppc,                  \* placement: step
    status,               \* Sids -> "none", "running" or "stopped"
    life,                 \* of the process: "down", "restored" (it has its flags), "up",
                          \* "stopping" (still up, the background context cancelled)
    sent,
    unsaved,              \* history: the last write of the flags failed, or their last read
    order,                \* history: the node was last told to stay out of service
    missed                \* history: sandboxes created or started since the last List,
                          \* that it failed to list, or that its sweep failed to
                          \* stop, skipped or did not live to visit

flags == <<cordoned, draining, mirror, saved>>
ghosts == <<unsaved, order, missed>>
vars == <<flags, nmu, sweeping, opc, rpc, spc, todo, ppc, status, sent, life, ghosts>>

Flags == [cordoned : BOOLEAN, draining : BOOLEAN]
Running == {s \in Sids : status[s] = "running"}
Up == life \in {"up", "stopping"}

\* A fresh node, with the sandboxes a previous run may have left.
Init ==
    /\ cordoned = FALSE /\ draining = FALSE /\ mirror = FALSE
    /\ saved = [cordoned |-> FALSE, draining |-> FALSE]
    /\ nmu = None /\ sweeping = FALSE
    /\ opc = [p \in Operators |-> "idle"] /\ rpc = [p \in Operators |-> None]
    /\ spc = [w \in Sweepers |-> "idle"] /\ todo = [w \in Sweepers |-> {}]
    /\ ppc = [q \in Placers |-> "idle"]
    /\ status \in [Sids -> {"none", "running", "stopped"}]
    /\ life = "down" /\ sent = 0
    /\ unsaved = FALSE /\ order = FALSE /\ missed = {}

-----------------------------------------------------------------------------
(***************************************************************************)
(* The RPCs.  Each takes the mutex and does, in this order,                *)
(*   Cordon:    set, mirror, save                                          *)
(*   Uncordon:  set, mirror, undrain, save                                 *)
(*   Drain:     mark, set, mirror, save, sweep                             *)
(***************************************************************************)
OGoto(p, label) == opc' = [opc EXCEPT ![p] = label]

Lock(p) == opc[p] = "idle" /\ nmu = None /\ nmu' = p

Begin(p, o) ==
    /\ Up
    /\ sent < MaxRPCs /\ sent' = sent + 1
    /\ Lock(p)
    /\ rpc' = [rpc EXCEPT ![p] = o]
    /\ OGoto(p, IF o = "drain" THEN "mark" ELSE "set")
    /\ order' = (order /\ o # "uncordon")
    /\ UNCHANGED <<flags, sweeping, spc, todo, ppc, status, life, unsaved, missed>>

\* draining.Store(true)
Mark(p) ==
    /\ opc[p] = "mark"
    /\ draining' = TRUE
    /\ OGoto(p, "set")
    /\ UNCHANGED <<cordoned, mirror, saved, nmu, sweeping, rpc, spc, todo, ppc, status, sent, life, ghosts>>

\* cordoned.Store
Set(p) ==
    /\ opc[p] = "set"
    /\ cordoned' = (rpc[p] # "uncordon")
    /\ OGoto(p, "mirror")
    /\ UNCHANGED <<draining, mirror, saved, nmu, sweeping, rpc, spc, todo, ppc, status, sent, life, ghosts>>

\* Cluster.SetCordoned
Mirror(p) ==
    /\ opc[p] = "mirror"
    /\ mirror' = (rpc[p] # "uncordon")
    /\ OGoto(p, IF rpc[p] = "uncordon" THEN "undrain" ELSE "save")
    /\ UNCHANGED <<cordoned, draining, saved, nmu, sweeping, rpc, spc, todo, ppc, status, sent, life, ghosts>>

\* draining.Store(false)
Undrain(p) ==
    /\ opc[p] = "undrain"
    /\ draining' = FALSE
    /\ OGoto(p, "save")
    /\ UNCHANGED <<cordoned, mirror, saved, nmu, sweeping, rpc, spc, todo, ppc, status, sent, life, ghosts>>

\* The RPC answers.
Reply(p) ==
    /\ OGoto(p, "idle")
    /\ rpc' = [rpc EXCEPT ![p] = None]
    /\ nmu' = None
    /\ order' = (rpc[p] # "uncordon")
    /\ UNCHANGED missed

\* saveFlags: a failed write is logged and forgotten.
Save(p) ==
    /\ opc[p] = "save"
    /\ \/ saved' = [cordoned |-> cordoned, draining |-> draining] /\ unsaved' = FALSE
       \/ SaveFails /\ unsaved' = TRUE /\ UNCHANGED saved
    /\ IF rpc[p] = "drain" THEN OGoto(p, "sweep") /\ UNCHANGED <<rpc, nmu, order, missed>>
                           ELSE Reply(p)
    /\ UNCHANGED <<cordoned, draining, mirror, sweeping, spc, todo, ppc, status, sent, life>>

\* Drain starts a sweep unless one is running.
Sweep(p) ==
    /\ opc[p] = "sweep"
    /\ \/ /\ ~sweeping
          /\ sweeping' = TRUE
          /\ \E w \in Sweepers : spc[w] = "idle" /\ spc' = [spc EXCEPT ![w] = "list"]
       \/ sweeping /\ UNCHANGED <<sweeping, spc>>
    /\ Reply(p)
    /\ UNCHANGED <<unsaved, flags, todo, ppc, status, sent, life>>

-----------------------------------------------------------------------------
(***************************************************************************)
(* DrainAll and the goroutine around it.                                   *)
(***************************************************************************)
SGoto(w, label) == spc' = [spc EXCEPT ![w] = label]

\* A listing that fails is logged, and ends the sweep.
List(w) ==
    /\ spc[w] = "list"
    /\ \/ /\ todo' = [todo EXCEPT ![w] = Running]
          /\ missed' = {}
          /\ SGoto(w, "next")
       \/ /\ ListFails
          /\ missed' = Running
          /\ SGoto(w, "end")
          /\ UNCHANGED todo
    /\ UNCHANGED <<flags, nmu, sweeping, opc, rpc, ppc, status, sent, life, unsaved, order>>

\* Mutant: keepGoing is asked the wrong way round.
KeepGoingInverted(w) ==
    /\ spc[w] = "next"
    /\ SGoto(w, IF todo[w] # {} /\ ~draining THEN "stop" ELSE "end")
    /\ UNCHANGED <<flags, nmu, sweeping, opc, rpc, todo, ppc, status, sent, life, ghosts>>

\* The next sandbox of the list, if keepGoing says so and the context lives.
NextSandbox(w) ==
    /\ spc[w] = "next"
    /\ SGoto(w, IF todo[w] # {} /\ draining /\ life = "up" THEN "stop" ELSE "end")
    /\ missed' = IF draining /\ life = "up" THEN missed ELSE missed \cup todo[w]
    /\ UNCHANGED <<flags, nmu, sweeping, opc, rpc, todo, ppc, status, sent, life, unsaved, order>>

\* maybeAutoPublish, then Stop; a failure is logged and the sweep goes on.
Stop(w) ==
    /\ spc[w] = "stop"
    /\ \E s \in todo[w] :
        /\ todo' = [todo EXCEPT ![w] = @ \ {s}]
        /\ \/ status' = [status EXCEPT ![s] = "stopped"] /\ UNCHANGED missed
           \/ StopFails /\ missed' = missed \cup {s} /\ UNCHANGED status
    /\ SGoto(w, "next")
    /\ UNCHANGED <<flags, nmu, sweeping, opc, rpc, ppc, sent, life, unsaved, order>>

\* sweeping = false, under the mutex.
EndSweep(w) ==
    /\ spc[w] = "end" /\ nmu = None
    /\ sweeping' = FALSE
    /\ todo' = [todo EXCEPT ![w] = {}]
    /\ SGoto(w, "idle")
    /\ UNCHANGED <<flags, nmu, opc, rpc, ppc, status, sent, life, ghosts>>

-----------------------------------------------------------------------------
(***************************************************************************)
(* Placements.  buildCandidates (a local attempt) and Provision (a         *)
(* forwarded one) read the cordon; ProvisionLocal creates later.           *)
(***************************************************************************)
CheckCordon(q) ==
    /\ Up /\ ppc[q] = "idle" /\ ~cordoned
    /\ ppc' = [ppc EXCEPT ![q] = "create"]
    /\ UNCHANGED <<flags, nmu, sweeping, opc, rpc, spc, todo, status, sent, life, ghosts>>

ProvisionLocal(q) ==
    /\ ppc[q] = "create"
    /\ ppc' = [ppc EXCEPT ![q] = "idle"]
    /\ \/ \E s \in Sids :
            /\ status[s] = "none"
            /\ status' = [status EXCEPT ![s] = "running"]
            /\ missed' = missed \cup {s}
       \/ UNCHANGED <<status, missed>>
    /\ UNCHANGED <<flags, nmu, sweeping, opc, rpc, spc, todo, sent, life, unsaved, order>>

\* A user starts or stops a sandbox; a cordon and a drain are no obstacle.
StartSandbox(s) ==
    /\ Up /\ status[s] = "stopped"
    /\ status' = [status EXCEPT ![s] = "running"]
    /\ missed' = missed \cup {s}
    /\ UNCHANGED <<flags, nmu, sweeping, opc, rpc, spc, todo, ppc, sent, life, unsaved, order>>

StopSandbox(s) ==
    /\ Up /\ status[s] = "running"
    /\ status' = [status EXCEPT ![s] = "stopped"]
    /\ UNCHANGED <<flags, nmu, sweeping, opc, rpc, spc, todo, ppc, sent, life, ghosts>>

-----------------------------------------------------------------------------
\* Node.Stop cancels the context the sweep runs under.
Cancel ==
    /\ life = "up" /\ life' = "stopping"
    /\ UNCHANGED <<flags, nmu, sweeping, opc, rpc, spc, todo, ppc, status, sent, ghosts>>

\* The process ends, by a crash or after Stop: what it had in memory is gone.
Die ==
    /\ life # "down" /\ life' = "down"
    /\ cordoned' = FALSE /\ draining' = FALSE /\ mirror' = FALSE
    /\ nmu' = None /\ sweeping' = FALSE
    /\ opc' = [p \in Operators |-> "idle"] /\ rpc' = [p \in Operators |-> None]
    /\ spc' = [w \in Sweepers |-> "idle"] /\ todo' = [w \in Sweepers |-> {}]
    /\ ppc' = [q \in Placers |-> "idle"]
    /\ missed' = Running
    /\ unsaved' = FALSE /\ order' = (order /\ ~unsaved)
    /\ UNCHANGED <<saved, status, sent>>

\* loadNodeFlags and the two setters: New restores the flags, read error
\* included (the flags are then false); a drain's sweep is not resumed (ADR-0023).
Restore ==
    /\ life = "down" /\ life' = "restored"
    /\ \/ cordoned' = saved.cordoned /\ draining' = saved.draining /\ UNCHANGED <<order, unsaved>>
       \/ LoadFails /\ order' = FALSE /\ unsaved' = TRUE /\ UNCHANGED <<cordoned, draining>>
    /\ UNCHANGED <<mirror, saved, nmu, sweeping, opc, rpc, spc, todo, ppc, status, sent,
                   missed>>

\* Mutant: a restored cordon is not told to the peers.
AnnounceNothing ==
    /\ life = "restored" /\ life' = "up"
    /\ UNCHANGED <<flags, nmu, sweeping, opc, rpc, spc, todo, ppc, status, sent, ghosts>>

\* cl.SetCordoned(true): the peers are told what the node already knows.
Announce ==
    /\ life = "restored" /\ life' = "up"
    /\ mirror' = cordoned
    /\ UNCHANGED <<cordoned, draining, saved, nmu, sweeping, opc, rpc, spc, todo, ppc, status, sent, ghosts>>

OperatorStep(p) ==
    Mark(p) \/ Set(p) \/ Mirror(p) \/ Undrain(p) \/ Save(p) \/ Sweep(p)
SweepStep(w) == List(w) \/ NextSandbox(w) \/ Stop(w) \/ EndSweep(w)

Next ==
    \/ \E p \in Operators : OperatorStep(p) \/ \E o \in Orders : Begin(p, o)
    \/ \E w \in Sweepers : SweepStep(w)
    \/ \E q \in Placers : CheckCordon(q) \/ ProvisionLocal(q)
    \/ \E s \in Sids : StartSandbox(s) \/ StopSandbox(s)
    \/ Cancel \/ Die \/ Restore \/ Announce

Spec == Init /\ [][Next]_vars

\* RPCs and goroutines that have begun are run on; EndSweep gets the mutex.
Fairness ==
    /\ \A p \in Operators : WF_vars(OperatorStep(p))
    /\ \A w \in Sweepers : WF_vars(SweepStep(w)) /\ SF_vars(EndSweep(w))
    /\ \A q \in Placers : WF_vars(ProvisionLocal(q))

FairSpec == Spec /\ Fairness

-----------------------------------------------------------------------------
\* Type invariant; an RPC that has begun and not answered holds the mutex.
NodeTypeOK ==
    /\ cordoned \in BOOLEAN /\ draining \in BOOLEAN /\ mirror \in BOOLEAN
    /\ saved \in Flags
    /\ nmu \in Operators \cup {None}
    /\ sweeping \in BOOLEAN
    /\ opc \in [Operators -> {"idle", "mark", "set", "mirror", "undrain", "save", "sweep"}]
    /\ rpc \in [Operators -> {"cordon", "uncordon", "drain", None}]
    /\ spc \in [Sweepers -> {"idle", "list", "next", "stop", "end"}]
    /\ todo \in [Sweepers -> SUBSET Sids]
    /\ ppc \in [Placers -> {"idle", "create"}]
    /\ status \in [Sids -> {"none", "running", "stopped"}]
    /\ life \in {"down", "restored", "up", "stopping"}
    /\ sent \in 0 .. MaxRPCs
    /\ unsaved \in BOOLEAN /\ order \in BOOLEAN /\ missed \subseteq Sids
    /\ \A p \in Operators : nmu = p <=> opc[p] # "idle"

\* Whenever no RPC is in progress the local flag, the cluster's copy and the
\* stored record agree, and a draining node is cordoned: two operators at
\* once, and a process killed inside an RPC, leave no mixture of two orders.
\* Only the stored record can lag, after a write that failed.
FlagsAgree ==
    Up /\ nmu = None =>
        /\ mirror = cordoned
        /\ unsaved \/ saved = [cordoned |-> cordoned, draining |-> draining]
        /\ draining => cordoned

\* After a Cordon or a Drain has answered, and until an Uncordon is received,
\* the node is cordoned: a restart does not put it back into service, unless
\* the write of the flags had failed, or the read at boot fails.
CordonSticks == order /\ life # "down" => cordoned

\* When a drain's sweep is over, what still runs are sandboxes that were created
\* or started by a user after the sweep listed them, whose stop failed, or
\* whose turn was cut off by an Uncordon, a shutdown or a restart, and all
\* of them when the listing failed: DrainAll steps over no other.
SweepIsComplete == Up /\ draining /\ nmu = None /\ ~sweeping => Running \subseteq missed

\* Drain: the node ends up empty, unless it is uncordoned before.
DrainEmpties == draining ~> (~draining \/ Running = {})

\* No sandbox is created on a node after its Cordon or Drain has answered.
NoLandingOnCordoned ==
    [][order => \A s \in Sids : status[s] = "none" => status'[s] = "none"]_vars
=============================================================================
