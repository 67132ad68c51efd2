----------------------------- MODULE Operations -----------------------------
(***************************************************************************)
(* Tracked operations and idempotency keys of one node                     *)
(* (internal/ops/ops.go) with the handlers that start them                 *)
(* (internal/apiserver/sandboxservice.go): CreateSandbox, which looks at   *)
(* an op its key already has, and AgentRun and PublishSandbox, which run   *)
(* whatever op Start returns.                                              *)
(*                                                                         *)
(* Each store transaction is a step.  Start and ClearIdempotency hold the  *)
(* manager's mutex; the goroutine Run spawns takes no lock.  Of a sandbox  *)
(* only its place (this node or a peer), its fate and the key it was       *)
(* created under matter here.  A crash keeps the store and the sandboxes.  *)
(***************************************************************************)
EXTENDS Naturals, FiniteSets

CONSTANTS
    OpIds,      \* the operation ids this run can issue
    Sids,       \* the sandbox ids this run can issue
    Keys,       \* the idempotency keys clients send
    NoKey,      \* a request without a key
    Requests,   \* what clients send: pairs of a handler, "provision" or "agent-run"
                \* (git-publish is like agent-run), and a key
    Callers,    \* goroutines serving those handlers
    Workers,    \* goroutines spawned by Run
    Places,     \* where placement may put a sandbox: subset of {"local", "peer"}
    MayVanish,  \* BOOLEAN: sandboxes may be deleted or lost
    PutsFail,   \* BOOLEAN: store writes may fail
    MaxCrashes,
    None

States == {"pending", "running", "done", "error"}
Handlers == {"provision", "agent-run"}
OpRecords == [type : Handlers, state : States, key : Keys \cup {NoKey}, sandbox : Sids \cup {None}]
Sandboxes == [at : {"local", "peer"}, fate : {"live", "gone"}, key : Keys \cup {NoKey}]
Terminal == {"done", "error"}

ASSUME OperationsAssumption ==
    /\ None \notin OpIds \cup Sids \cup Callers \cup OpRecords \cup Sandboxes
    /\ NoKey \notin Keys
    /\ Places \subseteq {"local", "peer"}
    /\ Requests \subseteq Handlers \X (Keys \cup {NoKey})
    /\ MayVanish \in BOOLEAN /\ PutsFail \in BOOLEAN
    /\ MaxCrashes \in Nat

VARIABLES
    opstore,    \* the "operations" bucket
    idem,       \* the "idempotency" bucket: Keys -> op id or None
    omu,        \* the holder of Manager.mu, or None
    issued,     \* op ids handed out
    sandbox,    \* Sids -> what became of it, or None when never created
    phase,      \* "boot" until RecoverInterrupted is through
    crashes,
    cpc, call, ckey, cop, ccopy, retry, \* a handler: step, which, key, op id, op read, second Start
    wpc, wfn, wop, wcopy,               \* Run: step, whose fn, op id, op read
    unput,      \* history: ops a failed put left behind
    stolen,     \* history: keys that lost a mapping other than the one judged stale
    rerun       \* history: keys whose op AgentRun or PublishSandbox ran once more

store == <<opstore, idem>>
callers == <<cpc, call, ckey, cop, ccopy, retry>>
workers == <<wpc, wfn, wop, wcopy>>
history == <<unput, stolen, rerun>>
vars == <<store, omu, issued, sandbox, phase, crashes, callers, workers, history>>

Init ==
    /\ opstore = [o \in OpIds |-> None]
    /\ idem = [k \in Keys |-> None]
    /\ omu = None /\ issued = {} /\ phase = "serving" /\ crashes = 0
    /\ sandbox = [s \in Sids |-> None]
    /\ cpc = [c \in Callers |-> "idle"] /\ call = [c \in Callers |-> None]
    /\ ckey = [c \in Callers |-> NoKey] /\ cop = [c \in Callers |-> None]
    /\ ccopy = [c \in Callers |-> None] /\ retry = [c \in Callers |-> FALSE]
    /\ wpc = [w \in Workers |-> "idle"] /\ wfn = [w \in Workers |-> None]
    /\ wop = [w \in Workers |-> None] /\ wcopy = [w \in Workers |-> None]
    /\ unput = {} /\ stolen = {} /\ rerun = {}

-----------------------------------------------------------------------------
CGoto(c, label) == cpc' = [cpc EXCEPT ![c] = label]
WGoto(w, label) == wpc' = [wpc EXCEPT ![w] = label]

CReturn(c) ==
    /\ CGoto(c, "idle")
    /\ call' = [call EXCEPT ![c] = None]
    /\ ckey' = [ckey EXCEPT ![c] = NoKey]
    /\ cop' = [cop EXCEPT ![c] = None]
    /\ ccopy' = [ccopy EXCEPT ![c] = None]
    /\ retry' = [retry EXCEPT ![c] = FALSE]

\* Bound: an op id is left for every call that may still take one and for this one.
IdLeft ==
    Cardinality({c \in Callers : cpc[c] \in {"start", "put", "existed", "clear"}}) < Cardinality(OpIds \ issued)

\* A client calls a handler, with or without a key.
Call(c, h, k) ==
    /\ phase = "serving" /\ cpc[c] = "idle" /\ IdLeft
    /\ CGoto(c, "start")
    /\ call' = [call EXCEPT ![c] = h]
    /\ ckey' = [ckey EXCEPT ![c] = k]
    /\ UNCHANGED <<store, omu, issued, sandbox, phase, crashes, cop, ccopy, retry, workers, history>>

\* Start finds the op its key is mapped to.
Mapped(k) == k # NoKey /\ idem[k] # None /\ opstore[idem[k]] # None

\* Mutant: Start does not take the mutex.
StartGetUnlocked(c) ==
    /\ cpc[c] = "start"
    /\ \/ /\ Mapped(ckey[c])
          /\ cop' = [cop EXCEPT ![c] = idem[ckey[c]]]
          /\ ccopy' = [ccopy EXCEPT ![c] = opstore[idem[ckey[c]]]]
          /\ CGoto(c, "existed")
       \/ ~Mapped(ckey[c]) /\ CGoto(c, "put") /\ UNCHANGED <<cop, ccopy>>
    /\ UNCHANGED <<store, omu, issued, sandbox, phase, crashes, call, ckey, retry, workers, history>>

\* Start, up to its first put: an existing op is returned at once.
StartGet(c) ==
    /\ cpc[c] = "start" /\ omu = None
    /\ \/ /\ Mapped(ckey[c])
          /\ cop' = [cop EXCEPT ![c] = idem[ckey[c]]]
          /\ ccopy' = [ccopy EXCEPT ![c] = opstore[idem[ckey[c]]]]
          /\ CGoto(c, "existed")
          /\ UNCHANGED omu
       \/ /\ ~Mapped(ckey[c])
          /\ omu' = c
          /\ CGoto(c, "put")
          /\ UNCHANGED <<cop, ccopy>>
    /\ UNCHANGED <<store, issued, sandbox, phase, crashes, call, ckey, retry, workers, history>>

\* Start puts the new op; an error is returned to the client.
StartPut(c) ==
    /\ cpc[c] = "put"
    /\ \/ \E o \in OpIds \ issued :
            /\ issued' = issued \cup {o}
            /\ opstore' = [opstore EXCEPT ![o] = [type |-> call[c], state |-> "pending", key |-> ckey[c], sandbox |-> None]]
            /\ cop' = [cop EXCEPT ![c] = o]
            /\ IF ckey[c] = NoKey THEN CGoto(c, "run") /\ omu' = None
                                 ELSE CGoto(c, "map") /\ UNCHANGED omu
            /\ UNCHANGED <<call, ckey, ccopy, retry>>
       \/ PutsFail /\ omu' = None /\ CReturn(c) /\ UNCHANGED <<opstore, issued>>
    /\ UNCHANGED <<idem, sandbox, phase, crashes, workers, history>>

\* Start puts the key's mapping; an error leaves the op pending.
StartMap(c) ==
    /\ cpc[c] = "map"
    /\ omu' = None
    /\ \/ /\ idem' = [idem EXCEPT ![ckey[c]] = cop[c]]
          /\ CGoto(c, "run")
          /\ UNCHANGED <<call, ckey, cop, ccopy, retry>>
          /\ UNCHANGED unput
       \/ PutsFail /\ CReturn(c) /\ unput' = unput \cup {cop[c]} /\ UNCHANGED idem
    /\ UNCHANGED <<opstore, issued, sandbox, phase, crashes, workers, stolen, rerun>>

\* provisionSandboxGone: the op Start returned is done, and this node's
\* manager does not know its sandbox or calls it lost.
ProvisionSandboxGone(op) ==
    /\ op.state = "done" /\ op.sandbox # None
    /\ sandbox[op.sandbox].at = "peer" \/ sandbox[op.sandbox].fate # "live"

\* Mutant: CreateSandbox ignores "existed", as the other handlers do.
ExistedIgnored(c) ==
    /\ cpc[c] = "existed"
    /\ CGoto(c, "run")
    /\ rerun' = IF call[c] = "agent-run" THEN rerun \cup {ckey[c]} ELSE rerun
    /\ UNCHANGED <<store, omu, issued, sandbox, phase, crashes, call, ckey, cop, ccopy, retry, workers, unput, stolen>>

\* Start returned an existing op.  CreateSandbox answers with it, unless its
\* sandbox is gone: then, the first time, the mapping is dropped and Start is
\* called again.  The other handlers run the op once more, whichever handler
\* started it and whatever became of it.
Existed(c) ==
    /\ cpc[c] = "existed"
    /\ \/ /\ call[c] = "agent-run"
          /\ CGoto(c, "run")
          /\ rerun' = rerun \cup {ckey[c]}
          /\ UNCHANGED <<call, ckey, cop, ccopy, retry>>
       \/ /\ call[c] = "provision" /\ ~retry[c] /\ ProvisionSandboxGone(ccopy[c])
          /\ CGoto(c, "clear")
          /\ UNCHANGED <<call, ckey, cop, ccopy, retry, rerun>>
       \/ /\ call[c] = "provision" /\ (retry[c] \/ ~ProvisionSandboxGone(ccopy[c]))
          /\ CReturn(c)
          /\ UNCHANGED rerun
    /\ UNCHANGED <<store, omu, issued, sandbox, phase, crashes, workers, unput, stolen>>

\* ClearIdempotency deletes whatever op the key is mapped to by now.
ClearIdempotency(c) ==
    /\ cpc[c] = "clear" /\ omu = None
    /\ idem' = [idem EXCEPT ![ckey[c]] = None]
    /\ stolen' = IF idem[ckey[c]] \in {cop[c], None} THEN stolen ELSE stolen \cup {ckey[c]}
    /\ retry' = [retry EXCEPT ![c] = TRUE]
    /\ CGoto(c, "start")
    /\ UNCHANGED <<opstore, omu, issued, sandbox, phase, crashes, call, ckey, cop, ccopy, workers, unput, rerun>>

\* Run spawns its goroutine and the handler answers.
Run(c) ==
    /\ cpc[c] = "run"
    /\ \E w \in Workers :
        /\ wpc[w] = "idle"
        /\ WGoto(w, "get")
        /\ wfn' = [wfn EXCEPT ![w] = call[c]]
        /\ wop' = [wop EXCEPT ![w] = cop[c]]
    /\ CReturn(c)
    /\ UNCHANGED <<store, omu, issued, sandbox, phase, crashes, wcopy, history>>

-----------------------------------------------------------------------------
(***************************************************************************)
(* The goroutine of Run.                                                   *)
(***************************************************************************)
\* Run ignores the errors of its puts.
PutOrFail(o, op) ==
    \/ opstore' = [opstore EXCEPT ![o] = op] /\ UNCHANGED unput
    \/ PutsFail /\ unput' = unput \cup {o} /\ UNCHANGED opstore

RunGet(w) ==
    /\ wpc[w] = "get"
    /\ wcopy' = [wcopy EXCEPT ![w] = [opstore[wop[w]] EXCEPT !.state = "running"]]
    /\ WGoto(w, "mark")
    /\ UNCHANGED <<store, omu, issued, sandbox, phase, crashes, callers, wfn, wop, history>>

RunMark(w) ==
    /\ wpc[w] = "mark"
    /\ PutOrFail(wop[w], wcopy[w])
    /\ WGoto(w, "fn")
    /\ UNCHANGED <<idem, omu, issued, sandbox, phase, crashes, callers, wfn, wop, wcopy, stolen, rerun>>

\* fn places and creates a sandbox, or works in one that exists, or fails.
RunFn(w) ==
    /\ wpc[w] = "fn"
    /\ \/ /\ wfn[w] = "provision"
          /\ \E s \in Sids, at \in Places :
                /\ sandbox[s] = None
                /\ sandbox' = [sandbox EXCEPT ![s] = [at |-> at, fate |-> "live", key |-> wcopy[w].key]]
                /\ wcopy' = [wcopy EXCEPT ![w].state = "done", ![w].sandbox = s]
       \/ /\ wfn[w] = "agent-run"
          /\ \E s \in Sids :
                /\ sandbox[s] # None
                /\ wcopy' = [wcopy EXCEPT ![w].state = "done", ![w].sandbox = s]
          /\ UNCHANGED sandbox
       \/ wcopy' = [wcopy EXCEPT ![w].state = "error"] /\ UNCHANGED sandbox
    /\ WGoto(w, "finish")
    /\ UNCHANGED <<store, omu, issued, phase, crashes, callers, wfn, wop, history>>

RunFinish(w) ==
    /\ wpc[w] = "finish"
    /\ PutOrFail(wop[w], wcopy[w])
    /\ WGoto(w, "idle")
    /\ wfn' = [wfn EXCEPT ![w] = None]
    /\ wop' = [wop EXCEPT ![w] = None]
    /\ wcopy' = [wcopy EXCEPT ![w] = None]
    /\ UNCHANGED <<idem, omu, issued, sandbox, phase, crashes, callers, stolen, rerun>>

-----------------------------------------------------------------------------
\* A sandbox is deleted, or its owner finds it lost; nobody here tells which.
Vanish(s) ==
    /\ MayVanish /\ sandbox[s] # None /\ sandbox[s].fate = "live"
    /\ sandbox' = [sandbox EXCEPT ![s].fate = "gone"]
    /\ UNCHANGED <<store, omu, issued, phase, crashes, callers, workers, history>>

Crash ==
    /\ crashes < MaxCrashes
    /\ crashes' = crashes + 1
    /\ phase' = "boot"
    /\ omu' = None
    /\ cpc' = [c \in Callers |-> "idle"] /\ call' = [c \in Callers |-> None]
    /\ ckey' = [c \in Callers |-> NoKey] /\ cop' = [c \in Callers |-> None]
    /\ ccopy' = [c \in Callers |-> None] /\ retry' = [c \in Callers |-> FALSE]
    /\ wpc' = [w \in Workers |-> "idle"] /\ wfn' = [w \in Workers |-> None]
    /\ wop' = [w \in Workers |-> None] /\ wcopy' = [w \in Workers |-> None]
    /\ UNCHANGED <<store, issued, sandbox, history>>

\* Mutant: RecoverInterrupted sweeps running ops only.
StrandedRunning == {o \in OpIds : opstore[o] # None /\ opstore[o].state = "running"}

Stranded == {o \in OpIds : opstore[o] # None /\ opstore[o].state \notin Terminal}

\* RecoverInterrupted puts one stranded op after the other, before serving; an
\* error ends it and is only logged.
RecoverInterrupted ==
    /\ phase = "boot"
    /\ \/ \E o \in Stranded :
            opstore' = [opstore EXCEPT ![o].state = "error"] /\ UNCHANGED <<phase, unput>>
       \/ /\ Stranded = {} \/ PutsFail
          /\ phase' = "serving" /\ unput' = unput \cup Stranded
          /\ UNCHANGED opstore
    /\ UNCHANGED <<idem, omu, issued, sandbox, crashes, callers, workers, stolen, rerun>>

CallerStep(c) ==
    \/ StartGet(c) \/ StartPut(c) \/ StartMap(c) \/ Existed(c) \/ ClearIdempotency(c) \/ Run(c)

WorkerStep(w) == RunGet(w) \/ RunMark(w) \/ RunFn(w) \/ RunFinish(w)

Next ==
    \/ \E c \in Callers : \/ CallerStep(c)
                         \/ \E r \in Requests : Call(c, r[1], r[2])
    \/ \E w \in Workers : WorkerStep(w)
    \/ \E s \in Sids : Vanish(s)
    \/ Crash \/ RecoverInterrupted

Spec == Init /\ [][Next]_vars

-----------------------------------------------------------------------------
\* Type invariant; the mutex is held exactly between StartGet and the end of
\* Start.
OpsTypeOK ==
    /\ opstore \in [OpIds -> OpRecords \cup {None}]
    /\ idem \in [Keys -> OpIds \cup {None}]
    /\ omu \in Callers \cup {None}
    /\ issued \subseteq OpIds
    /\ sandbox \in [Sids -> Sandboxes \cup {None}]
    /\ phase \in {"boot", "serving"}
    /\ crashes \in 0 .. MaxCrashes
    /\ cpc \in [Callers -> {"idle", "start", "put", "map", "existed", "clear", "run"}]
    /\ call \in [Callers -> {"provision", "agent-run", None}]
    /\ ckey \in [Callers -> Keys \cup {NoKey}]
    /\ cop \in [Callers -> OpIds \cup {None}]
    /\ ccopy \in [Callers -> OpRecords \cup {None}]
    /\ retry \in [Callers -> BOOLEAN]
    /\ wpc \in [Workers -> {"idle", "get", "mark", "fn", "finish"}]
    /\ wfn \in [Workers -> {"provision", "agent-run", None}]
    /\ wop \in [Workers -> OpIds \cup {None}]
    /\ wcopy \in [Workers -> OpRecords \cup {None}]
    /\ unput \subseteq OpIds /\ stolen \subseteq Keys /\ rerun \subseteq Keys
    /\ \A c \in Callers : omu = c <=> cpc[c] \in {"put", "map"}

\* Whatever a client is told when it polls an op that is done or failed, it is
\* told from then on: no late goroutine, no failed put, no retry of a create and
\* no restart changes it.  The one exception is in the code: AgentRun and
\* PublishSandbox run the op their key already has once more, be it their own or
\* another handler's.
TerminalIsFinal ==
    [][\A o \in OpIds :
        (opstore[o] # None /\ opstore[o].state \in Terminal)
            => opstore'[o] = opstore[o] \/ opstore[o].key \in rerun]_vars

\* A client that polls an op does not hang: while the node serves, an op that
\* is neither done nor failed has a handler or a goroutine that will settle it,
\* also after restarts (RecoverInterrupted).  Only a put that failed, which Run
\* and the boot ignore, can leave one behind.
PendingIsWorkedOn ==
    phase = "serving" => \A o \in OpIds \ unput : opstore[o] # None /\ opstore[o].state \notin Terminal =>
        \/ \E c \in Callers : cop[c] = o /\ cpc[c] \in {"map", "run"}
        \/ \E w \in Workers : wop[w] = o /\ wpc[w] # "idle"

LivePerKey(k, places) ==
    Cardinality({s \in Sids : /\ sandbox[s] # None /\ sandbox[s].key = k
                              /\ sandbox[s].fate = "live" /\ sandbox[s].at \in places})

\* However often clients send CreateSandbox with one key, with failing puts and
\* restarts in between, the node itself has one living sandbox for it at a time,
\* also when earlier ones of the key were placed on peers.  Two things undo it: a
\* retry clears a mapping that another retry has just renewed, or an AgentRun
\* with the key of a create writes its own sandbox into the create's op.
OneLivePerKey == \A k \in Keys \ (stolen \cup rerun) : LivePerKey(k, {"local"}) <= 1

\* "CreateSandbox starts an async provision operation (idempotent)."  One key
\* would never have two living sandboxes.
Idempotent == \A k \in Keys : LivePerKey(k, {"local", "peer"}) <= 1

\* CreateSandbox gives up the op of a key only when the sandbox of that op is
\* deleted or lost ("no longer exists or has been marked lost").
RebindOnlyWhenGone ==
    \A c \in Callers : cpc[c] = "clear" =>
        ccopy[c].sandbox \in Sids /\ sandbox[ccopy[c].sandbox].fate # "live"

\* A key is never mapped to an op that is not stored, nor to an op of another
\* key, whatever put fails and whenever the node dies between Start's two puts.
NoDanglingKey ==
    \A k \in Keys : idem[k] # None => opstore[idem[k]] # None /\ opstore[idem[k]].key = k

\* What an idempotency key promises a client: the key always names a stored
\* operation of its own, and the node keeps one living sandbox for it at a time,
\* unless a retry that judged an old operation stale took the mapping of a newer
\* one, or another handler was called with the key.
KeysAreSound == NoDanglingKey /\ OneLivePerKey
=============================================================================
