----------------------------- MODULE NodeLife ------------------------------
(***************************************************************************)
(* The life of a node's process around its RPCs: New, Start and Stop       *)
(* (internal/node/node.go, cmd's run) over one data directory, composed    *)
(* with NodeControl, whose RPCs are served between Start and Stop.         *)
(*                                                                         *)
(* Two processes may be launched over the same directory (a supervisor     *)
(* that starts the next one before the last has gone); the store's file    *)
(* lock admits one.  The identity is read before that lock.  A process may *)
(* be killed between any two steps, a step of New or Start may fail.       *)
(***************************************************************************)
EXTENDS NodeControl

CONSTANTS
    Procs,         \* processes, each launched again and again by a supervisor
    MaxFaults      \* bound on the steps of New and Start that fail, kills and orders to stop

ASSUME NodeLifeAssumption ==
    /\ None \notin Procs /\ "empty" \notin Procs \cup {None}
    /\ MaxFaults \in Nat

VARIABLES
    phase,      \* Procs -> the next step of main, or "off"
    held,       \* Procs -> what the process holds and must give back
    me,         \* Procs -> the identity it runs under, or None
    key, cert,  \* files: DataDir/node.key; the pair console/tls.crt, tls.key
    swarmfile,  \* DataDir/swarm.json: "none", "torn" (truncated), "whole"
    ready,      \* Procs -> obs.Health's flag
    faults,
    born,       \* history: the identity under which the store was first used
    raced       \* history: a process wrote its key over another's

life_vars == <<phase, held, me, key, cert, swarmfile, ready, faults, born, raced>>
AllVars == <<vars, life_vars>>

Resources == {"store", "tickers", "pool", "cluster", "loopback", "main", "console", "swarm.json"}

Serving == {p \in Procs : "main" \in held[p]}
Owner == {p \in Procs : "store" \in held[p]}

LifeInit ==
    /\ Init
    /\ phase = [p \in Procs |-> "off"] /\ held = [p \in Procs |-> {}]
    /\ me = [p \in Procs |-> None] /\ ready = [p \in Procs |-> FALSE]
    /\ key = None /\ cert = "none" /\ swarmfile = "none"
    /\ faults = 0
    /\ born = None /\ raced = FALSE

-----------------------------------------------------------------------------
\* main enters New.
Launch(p) ==
    /\ phase[p] = "off"
    /\ phase' = [phase EXCEPT ![p] = "identity"]
    /\ UNCHANGED <<vars, held, me, key, cert, swarmfile, ready, faults, born, raced>>

\* p goes from one phase to the next and comes to hold got.
Goto(p, from, to, got) ==
    /\ phase[p] = from
    /\ phase' = [phase EXCEPT ![p] = to]
    /\ held' = [held EXCEPT ![p] = @ \cup got]

Fault == faults < MaxFaults /\ faults' = faults + 1

\* The flags in memory go with the process that restored them.
Gone(p) == IF p \in Owner /\ life # "down" THEN Die ELSE UNCHANGED vars

\* The step fails: New gives back what it names and returns the error.
Fails(p, from, released) ==
    /\ Fault
    /\ phase[p] = from
    /\ phase' = [phase EXCEPT ![p] = "failed"]
    /\ held' = [held EXCEPT ![p] = @ \ released]
    /\ Gone(p)
    /\ UNCHANGED <<me, key, cert, swarmfile, ready, born, raced>>

GiveBack(p, from, to, released) ==
    /\ phase[p] = from
    /\ phase' = [phase EXCEPT ![p] = to]
    /\ held' = [held EXCEPT ![p] = @ \ released]
    /\ UNCHANGED <<vars, me, key, cert, swarmfile, ready, faults, born, raced>>

\* identity.LoadOrCreate: the key file is read; a file of the wrong size is an
\* error, an absent one is made.
LoadIdentity(p) ==
    /\ Goto(p, "identity", IF key = None THEN "create" ELSE IF key = "empty" THEN "failed" ELSE "open", {})
    /\ me' = [me EXCEPT ![p] = IF key \in Procs THEN key ELSE None]
    /\ UNCHANGED <<vars, key, cert, swarmfile, ready, faults, born, raced>>

\* os.WriteFile truncates the file, then writes it; a key is named by its maker.
CreateKey(p) ==
    /\ Goto(p, "create", "write", {})
    /\ key' = "empty"
    /\ raced' = (raced \/ key # None)
    /\ UNCHANGED <<vars, me, cert, swarmfile, ready, faults, born>>

\* Mutant: the generated identity is used without being persisted.
WriteKeyNowhere(p) ==
    /\ Goto(p, "write", "open", {})
    /\ key' = None
    /\ me' = [me EXCEPT ![p] = p]
    /\ UNCHANGED <<vars, cert, swarmfile, ready, faults, born, raced>>

WriteKey(p) ==
    \/ /\ Goto(p, "write", "open", {})
       /\ key' = p
       /\ me' = [me EXCEPT ![p] = p]
       /\ UNCHANGED <<vars, cert, swarmfile, ready, faults, born, raced>>
    \/ Fails(p, "write", {})

\* store.Open: bbolt's file lock, waited for one second; the migrations are
\* one transaction.
OpenStore(p) ==
    /\ IF Owner = {} THEN Goto(p, "open", "backend", {"store"}) ELSE Goto(p, "open", "failed", {})
    /\ UNCHANGED <<vars, me, key, cert, swarmfile, ready, faults, born, raced>>

\* The backend, the manager over the store's records (ids carry the node's
\* identity), the services, and the collectors' tickers.
BuildManager(p) ==
    \/ /\ Goto(p, "backend", "tls", {"tickers"})
       /\ born' = IF born = None THEN me[p] ELSE born
       /\ UNCHANGED <<vars, me, key, cert, swarmfile, ready, faults, raced>>
    \/ Fails(p, "backend", {"store"})

\* The node's certificate, then membership.LoadOrInit: a stored swarm id is read,
\* and one that does not parse is an error.  Without it a node with seeds is
\* pending, and one without mints an id and writes it, again without a rename.
LoadSwarm(p) ==
    \/ /\ Goto(p, "tls", "flags", {"pool"})    \* stored, or seeds are configured
       /\ swarmfile # "torn"
       /\ UNCHANGED <<vars, me, key, cert, swarmfile, ready, faults, born, raced>>
    \/ /\ Goto(p, "tls", "mint", {})
       /\ swarmfile = "none" /\ swarmfile' = "torn"
       /\ UNCHANGED <<vars, me, key, cert, ready, faults, born, raced>>
    \/ /\ GiveBack(p, "tls", "failed", {"tickers", "store"})
       /\ swarmfile = "torn"
    \/ Fails(p, "tls", {"tickers", "store"})

WriteSwarm(p) ==
    \/ /\ Goto(p, "mint", "flags", {"pool"})
       /\ swarmfile' = "whole"
       /\ UNCHANGED <<vars, me, key, cert, ready, faults, born, raced>>
    \/ Fails(p, "mint", {"tickers", "store"})

RestoreFlags(p) ==
    /\ Goto(p, "flags", "cluster", {})
    /\ Restore
    /\ UNCHANGED <<me, key, cert, swarmfile, ready, faults, born, raced>>

\* membership.NewCluster: from here on the node gossips, not cordoned yet.
NewCluster(p) ==
    \/ /\ Goto(p, "cluster", "announce", {"cluster"})
       /\ UNCHANGED <<vars, me, key, cert, swarmfile, ready, faults, born, raced>>
    \/ Fails(p, "cluster", {"tickers", "store", "pool"})

AnnounceCordon(p) ==
    /\ Goto(p, "announce", "build", {})
    /\ Announce
    /\ UNCHANGED <<me, key, cert, swarmfile, ready, faults, born, raced>>

\* A pending node's Adopt, in the goroutine of a gossip connection: a failed
\* write leaves it pending.
AdoptSwarm(p) ==
    /\ "cluster" \in held[p] /\ "swarm.json" \notin held[p]
    /\ swarmfile # "whole" /\ swarmfile' = "torn"
    /\ held' = [held EXCEPT ![p] = @ \cup {"swarm.json"}]
    /\ UNCHANGED <<vars, phase, me, key, cert, ready, faults, born, raced>>

WriteAdopted(p) ==
    /\ "swarm.json" \in held[p]
    /\ held' = [held EXCEPT ![p] = @ \ {"swarm.json"}]
    /\ \/ swarmfile' = "whole" /\ UNCHANGED faults
       \/ Fault /\ UNCHANGED swarmfile
    /\ UNCHANGED <<vars, phase, me, key, cert, ready, born, raced>>

\* apiserver.Build with its in-memory listener, Reconcile and RecoverInterrupted
\* (their failures are logged).
BuildServer(p) ==
    \/ /\ Goto(p, "build", "cert", {"loopback"})
       /\ UNCHANGED <<vars, me, key, cert, swarmfile, ready, faults, born, raced>>
    \/ Fails(p, "build", {"tickers", "store", "pool", "cluster"})

\* New's last error path leaves the in-memory listener behind, and a gossip
\* connection's goroutine.
Left == {"loopback", "swarm.json"}

\* tlsutil.LoadOrGenerate: the pair is loaded when the certificate is there,
\* and is otherwise generated and written, certificate first.
LoadCert(p) ==
    /\ phase[p] = "cert"
    /\ phase' = [phase EXCEPT ![p] =
            [both |-> "listen", crt |-> "failed", none |-> "writekey"][cert]]
    /\ cert' = IF cert = "none" THEN "crt" ELSE cert
    /\ held' = [held EXCEPT ![p] = IF cert = "crt" THEN @ \cap Left ELSE @]
    /\ IF cert = "crt" THEN Gone(p) ELSE UNCHANGED vars
    /\ UNCHANGED <<me, key, swarmfile, ready, faults, born, raced>>

WriteCertKey(p) ==
    \/ /\ Goto(p, "writekey", "listen", {})
       /\ cert' = "both"
       /\ UNCHANGED <<vars, me, key, swarmfile, ready, faults, born, raced>>
    \/ Fails(p, "writekey", Resources \ Left)

-----------------------------------------------------------------------------
(***************************************************************************)
(* Start and Stop.                                                         *)
(***************************************************************************)
\* An error of Start gives nothing back; run returns it and main exits.
StartFails(p, from) ==
    /\ Fault
    /\ Goto(p, from, "exit", {})
    /\ UNCHANGED <<vars, me, key, cert, swarmfile, ready, born, raced>>

\* net.Listen and ServeTLS: RPCs are served from here on, before readiness.
Listen(p) ==
    \/ /\ Goto(p, "listen", "console", {"main"})
       /\ UNCHANGED <<vars, me, key, cert, swarmfile, ready, faults, born, raced>>
    \/ StartFails(p, "listen")

\* Mutant: run carries on when the console cannot listen.
ConsoleIgnored(p) ==
    \/ /\ Goto(p, "console", "setready", {"console"})
       /\ UNCHANGED <<vars, me, key, cert, swarmfile, ready, faults, born, raced>>
    \/ /\ Fault
       /\ Goto(p, "console", "run", {})
       /\ UNCHANGED <<vars, me, key, cert, swarmfile, ready, born, raced>>

ListenConsole(p) ==
    \/ /\ Goto(p, "console", "setready", {"console"})
       /\ UNCHANGED <<vars, me, key, cert, swarmfile, ready, faults, born, raced>>
    \/ StartFails(p, "console")

SetReady(p) ==
    /\ Goto(p, "setready", "run", {})
    /\ ready' = [ready EXCEPT ![p] = TRUE]
    /\ UNCHANGED <<vars, me, key, cert, swarmfile, faults, born, raced>>

\* Stop, in its order: readiness, the tickers, the cluster, the pool, the
\* listeners, the store.  An RPC still running is not waited for.
Signal(p) ==
    /\ Fault
    /\ Goto(p, "run", "leave", {})
    /\ ready' = [ready EXCEPT ![p] = FALSE]
    /\ UNCHANGED <<vars, me, key, cert, swarmfile, born, raced>>

Leave(p) ==
    /\ phase[p] = "leave"
    /\ phase' = [phase EXCEPT ![p] = "shutdown"]
    /\ held' = [held EXCEPT ![p] = @ \ {"tickers", "cluster", "pool"}]
    /\ Cancel
    /\ UNCHANGED <<me, key, cert, swarmfile, ready, faults, born, raced>>

Shutdown(p) == GiveBack(p, "shutdown", "exit", {"console", "main", "loopback"})

Ends(p) ==
    /\ phase' = [phase EXCEPT ![p] = "off"]
    /\ held' = [held EXCEPT ![p] = {}]
    /\ me' = [me EXCEPT ![p] = None]
    /\ ready' = [ready EXCEPT ![p] = FALSE]
    /\ Gone(p)
    /\ UNCHANGED <<key, cert, swarmfile, born, raced>>

\* store.Close, when it is still open, and the end of the process.
Exit(p) == phase[p] \in {"failed", "exit"} /\ Ends(p) /\ UNCHANGED faults

Kill(p) == phase[p] # "off" /\ Fault /\ Ends(p)

-----------------------------------------------------------------------------
\* NodeControl's steps inside the process: a call is taken while a listener
\* is open, and one that was taken runs on until the process ends.
Serve ==
    /\ \/ /\ Serving # {}
          /\ \/ \E p \in Operators, o \in Orders : Begin(p, o)
             \/ \E q \in Placers : CheckCordon(q)
             \/ \E s \in Sids : StartSandbox(s) \/ StopSandbox(s)
       \/ \E p \in Operators : OperatorStep(p)
       \/ \E w \in Sweepers : SweepStep(w)
       \/ \E q \in Placers : ProvisionLocal(q)
    /\ UNCHANGED life_vars

Main(p) ==
    \/ Launch(p) \/ LoadIdentity(p) \/ CreateKey(p) \/ WriteKey(p) \/ OpenStore(p)
    \/ BuildManager(p) \/ LoadSwarm(p) \/ WriteSwarm(p) \/ RestoreFlags(p) \/ NewCluster(p)
    \/ AnnounceCordon(p) \/ WriteAdopted(p) \/ BuildServer(p) \/ LoadCert(p) \/ WriteCertKey(p)
    \/ Listen(p) \/ ListenConsole(p) \/ SetReady(p)
    \/ Leave(p) \/ Shutdown(p) \/ Exit(p)

LifeNext == Serve \/ \E p \in Procs : Main(p) \/ AdoptSwarm(p) \/ Signal(p) \/ Kill(p)

\* The supervisor relaunches a process that has ended, and a process runs on.
LifeSpec == LifeInit /\ [][LifeNext]_AllVars /\ \A p \in Procs : WF_AllVars(Main(p))

-----------------------------------------------------------------------------
\* A node serves under one identity for ever, the one its records were first
\* made under and the one on disk, whatever was killed or failed on the way:
\* ids of sandboxes name their owner by it.  LoadOrCreate runs before the store's
\* lock, so two first starts that both find no key break this.
NodeIdIsStable == raced \/ \A p \in Serving : me[p] = born /\ key = born

\* Whatever was killed or failed, a node that is relaunched becomes ready, unless
\* the kill or a failed write left one of the three files that are written
\* without a rename in halves: node.key or swarm.json truncated, or the
\* console's certificate without its key.
TornFile == key = "empty" \/ swarmfile = "torn" \/ cert = "crt"
ComesBack == <>[](\E p \in Procs : ready[p]) \/ <>[]TornFile
=============================================================================
