--------------------------- MODULE OutboundProofs ---------------------------
(***************************************************************************)
(* Proofs about the calls a node makes to what is outside it: its daemon   *)
(* and a forge.                                                            *)
(*                                                                         *)
(* The requests that work on a sandbox through its daemon (DaemonCalls),   *)
(* while streams and the statistics run beside them (Streams), for any     *)
(* requests and any setup.                                                 *)
(*                                                                         *)
(* The inductive invariant has a part for each property.  A request is on  *)
(* its path; what a SetSecret or an UnpublishPort has read is still what   *)
(* the daemon has, or it knows that it was disturbed; a cleanup has every  *)
(* secret of the sandbox still before it; the clocks of the agent runs are *)
(* no more than two ticks behind; a reaper about to stop the machine has   *)
(* seen it idle.                                                           *)
(*                                                                         *)
(* The answers to a review (Review) are followed per call: what is on the  *)
(* forge of its own is what its place in its sequence of requests says.    *)
(***************************************************************************)
EXTENDS Streams, Review, TLAPS

\* Most leaves are first-order; those that need more name SMTT.
\* The times are generous, so that no proof depends on how busy a machine is.
USE ZenonT(60)

-----------------------------------------------------------------------------
(* Part 1: the daemon *)

\* The steps of a request of each kind.
Path(op) ==
    CASE op = "SetSecret"     -> {"new", "list", "set", "audit", "ok", "error", "dead"}
      [] op = "UnpublishPort" -> {"new", "ports", "unpublish", "ok", "error", "dead"}
      [] op = "AgentRun"      -> {"new", "start", "exec", "poll", "ok", "error", "dead"}
      [] op = "Stop"          -> {"new", "stop", "mark", "ok", "error", "dead"}
      [] op = "Reap"          -> {"new", "stop", "mark"}
      [] op = "Delete"        -> {"new", "reap", "remove", "secrets", "clean", "forget", "ok", "error", "dead"}
      [] op = "None"          -> {"new"}
      [] OTHER                -> {"new", "call", "audit", "templates", "ok", "error", "dead"}

PathsInv ==
    /\ DOMAIN pc = Clients /\ DOMAIN seen = Clients /\ DOMAIN outcome = Clients
    /\ \A c \in Clients : /\ job(c).op \in Ops /\ pc[c] \in Path(job(c).op)
                          /\ pc[c] = "audit" => outcome[c] \in {"ok", "error"}

\* What a SetSecret has read is what the daemon has, unless it was disturbed.
SecretsInv ==
    /\ \A c \in Clients : (pc[c] = "set" /\ c \notin disturbed) => seen[c] = SecretList(job(c).scope)
    /\ RotationSucceeds

\* A cleanup has every secret of the sandbox still before it.
CleanInv ==
    ~orphaned =>
        /\ \A c \in Clients : pc[c] = "clean" =>
              \A e \in secrets : e.scope = "sandbox" => \E s \in seen[c] : s.host = e.host
        /\ \A c \in Clients :
              pc[c] = "forget" \/ (record = "none" /\ Is(c, "Delete") /\ pc[c] = "ok")
                  => \A e \in secrets : e.scope # "sandbox"

\* An UnpublishPort has every mapping of its guest port still before it.
PortsInv ==
    \A c \in Clients : (Is(c, "UnpublishPort") /\ c \notin disturbed) =>
        /\ pc[c] = "unpublish" => seen[c] = {p \in dedupePorts(rows) : p.guest = job(c).guest}
        /\ pc[c] = "error" => vm = "none" \/ record = "none"

\* The clocks: an agent run that polls is no more than two ticks behind its
\* last bump, and one behind when it has polled in this tick.
Idle == {"new", "start", "exec", "stop", "mark"}

ClockTypes == age \in Nat /\ touch \in [Clients -> Nat] /\ polled \in [Clients -> BOOLEAN] /\ DOMAIN proc = Clients

Clock(c) ==
    /\ pc[c] \in Idle => touch[c] = 0 /\ polled[c]
    /\ pc[c] = "poll" => touch[c] <= 2 /\ (polled[c] => touch[c] <= 1)
    /\ (record # "none" /\ c \notin late /\ pc[c] \in {"exec", "poll"}) => age <= touch[c]

ClockInv == ClockTypes /\ \A c \in Clients : Clock(c)

\* A reaper that is about to stop the machine has seen it idle.
ReapInv ==
    (\E r \in Reapers : pc[r] = "stop") =>
        \A c \in Clients : pc[c] = "exec" \/ (pc[c] = "poll" /\ proc[c] = "running") => c \in late

-----------------------------------------------------------------------------
(* The steps of the requests *)

\* What a step says of the request that takes it.
LEMMA OpOf ==
    ASSUME NEW op, NEW l \in Path(op)
    PROVE  /\ l \in {"list", "set"} => op = "SetSecret"
           /\ l \in {"ports", "unpublish"} => op = "UnpublishPort"
           /\ l \in {"start", "exec", "poll"} => op = "AgentRun"
           /\ l \in {"stop", "mark"} => op \in {"Stop", "Reap"}
           /\ l \in {"reap", "remove", "secrets", "clean", "forget"} => op = "Delete"
           /\ l \in {"call", "templates"} => op \notin {"SetSecret", "UnpublishPort", "AgentRun", "Stop", "Reap", "Delete", "None"}
           /\ l = "audit" => op \notin {"UnpublishPort", "AgentRun", "Stop", "Reap", "Delete", "None"}
BY DEF Path

\* The end of a request, and the steps of one that is neither a reaper nor idle.
LEMMA EndOf ==
    ASSUME NEW op, op \notin {"Reap", "None"}
    PROVE  {"ok", "error", "dead"} \subseteq Path(op)
BY DEF Path

\* A step of a request moves it along its path, and writes its own answer and
\* its own reading only.
Along(c) ==
    /\ setup' = setup
    /\ \/ pc' = pc /\ outcome' = outcome
       \/ \E l \in Path(job(c).op) :
            /\ pc' = [pc EXCEPT ![c] = l]
            /\ \/ outcome' = outcome /\ l # "audit"
               \/ \E o \in {"ok", "error"} : outcome' = [outcome EXCEPT ![c] = o]
    /\ seen' = seen \/ \E x : seen' = [seen EXCEPT ![c] = x]

\* A request that answers, with or without an audit entry first.
LEMMA Answering ==
    ASSUME NEW c \in Clients, NEW o \in {"ok", "error"}, Answered(c, o), setup' = setup, seen' = seen,
           job(c).op \notin {"UnpublishPort", "AgentRun", "Stop", "Reap", "Delete", "None"}
    PROVE  Along(c)
<1>1. PICK l : /\ l = (IF job(c).op \in Audited THEN "audit" ELSE o)
               /\ pc' = [pc EXCEPT ![c] = l] /\ outcome' = [outcome EXCEPT ![c] = o]
  BY DEF Answered, Outcome, Goto
<1>2. l \in Path(job(c).op)
  BY <1>1 DEF Path, Audited
<1> QED BY <1>1, <1>2 DEF Along

\* Every step of a request moves it along its path.
LEMMA PathStep == ASSUME PathsInv, NEW c \in Clients, Handle(c) PROVE Along(c)
<1> DEFINE op == job(c).op
<1>0. pc[c] \in Path(op) /\ (pc[c] = "audit" => outcome[c] \in {"ok", "error"}) /\ op \in Ops
  BY DEF PathsInv
<1> HIDE DEF op
<1>a. ASSUME NEW l \in Path(op), Goto(c, l), l # "audit", setup' = setup, outcome' = outcome,
             seen' = seen \/ \E x : Saw(c, x)
      PROVE  Along(c)
  BY <1>a DEF Along, Goto, Saw, op
<1>b. ASSUME pc' = pc, setup' = setup, outcome' = outcome, seen' = seen \/ \E x : Saw(c, x)
      PROVE  Along(c)
  BY <1>b DEF Along, Saw
<1>1. CASE Resolve(c)
  <2>1. op \notin {"Stop", "Reap", "Delete", "None"} /\ setup' = setup /\ outcome' = outcome /\ seen' = seen
    BY <1>1 DEF Resolve, op
  <2>2. PICK l : /\ Goto(c, l)
                 /\ l \in {"error", "list", "ports", "start", "call"}
                 /\ l = "list" <=> (op = "SetSecret" /\ l # "error")
                 /\ l = "ports" <=> (op = "UnpublishPort" /\ l # "error")
                 /\ l = "start" <=> (op = "AgentRun" /\ l # "error")
    <3> DEFINE m == CASE Is(c, "SetSecret") -> "list" [] Is(c, "UnpublishPort") -> "ports"
                      [] Is(c, "AgentRun") -> "start" [] OTHER -> "call"
    <3>1. Goto(c, "error") \/ Goto(c, m)
      BY <1>1 DEF Resolve
    <3>2. /\ m \in {"list", "ports", "start", "call"}
          /\ m = "list" <=> op = "SetSecret"
          /\ m = "ports" <=> op = "UnpublishPort"
          /\ m = "start" <=> op = "AgentRun"
      BY DEF Is, op
    <3> HIDE DEF m
    <3> QED BY SMTT(60), <3>1, <3>2
  <2>3. l \in Path(op)
    BY <2>1, <2>2 DEF Path
  <2> QED BY <1>a, <2>1, <2>2, <2>3
<1>2. CASE Call(c)
  <2>1. setup' = setup /\ seen' = seen /\ pc[c] = "call"
    BY <1>2 DEF Call, Fails, At
  <2>2. op \notin {"UnpublishPort", "AgentRun", "Stop", "Reap", "Delete", "None"}
    BY SMTT(60), <1>0, <2>1, OpOf
  <2>3. \E o \in {"ok", "error"} : Answered(c, o)
    BY <1>2 DEF Call, Fails, SetPolicy, DeletePolicyRule, DeleteSecret, DeleteStoredSecret, SaveTemplate,
                RemoveTemplate, PublishPort, Exec
  <2> QED BY <2>1, <2>2, <2>3, Answering DEF op
<1>3. CASE AuditStep(c)
  <2>1. setup' = setup /\ seen' = seen /\ outcome' = outcome /\ pc[c] = "audit"
    BY <1>3 DEF AuditStep, At
  <2>2. PICK l : Goto(c, l) /\ ((l = "templates" /\ op = "RemoveTemplate") \/ l = outcome[c])
    BY <1>3 DEF AuditStep, Is, op
  <2>3. op \notin {"Reap", "None"}
    BY <1>0, <2>1, OpOf
  <2>4. l \in Path(op) /\ l # "audit"
    BY <1>0, <2>1, <2>2, <2>3 DEF Path
  <2> QED BY <1>a, <2>1, <2>2, <2>4
<1>4. CASE ListTemplates(c)
  <2>1. setup' = setup /\ seen' = seen /\ outcome' = outcome /\ pc[c] = "templates" /\ (Goto(c, "ok") \/ Goto(c, "error"))
    BY <1>4 DEF ListTemplates, At
  <2> QED BY <1>0, <1>a, <2>1, OpOf, EndOf
<1>5. CASE SetSecretList(c)
  <2>1. setup' = setup /\ outcome' = outcome /\ pc[c] = "list" /\ Goto(c, "set") /\ \E x : Saw(c, x)
    BY <1>5 DEF SetSecretList, At
  <2>2. "set" \in Path(op)
    BY <1>0, <2>1, OpOf DEF Path
  <2> QED BY <1>a, <2>1, <2>2
<1>6. CASE SetCustom(c) \/ SetCustomFails(c)
  <2>1. setup' = setup /\ seen' = seen /\ pc[c] = "set" /\ \E o \in {"ok", "error"} : Answered(c, o)
    BY <1>6 DEF SetCustom, SetCustomFails, Fails, At
  <2>2. op = "SetSecret"
    BY <1>0, <2>1, OpOf
  <2> QED BY <2>1, <2>2, Answering DEF op
<1>7. CASE Ports(c)
  <2>1. /\ setup' = setup /\ outcome' = outcome /\ pc[c] = "ports"
        /\ (Goto(c, "unpublish") \/ Goto(c, "error")) /\ (seen' = seen \/ \E x : Saw(c, x))
    BY <1>7 DEF Ports, At
  <2>2. "unpublish" \in Path(op) /\ "error" \in Path(op)
    BY <1>0, <2>1, OpOf DEF Path
  <2> QED BY <1>a, <2>1, <2>2
<1>8. CASE Unpublish(c)
  <2>1. /\ setup' = setup /\ outcome' = outcome /\ pc[c] = "unpublish"
        /\ (pc' = pc \/ Goto(c, "ok") \/ Goto(c, "error")) /\ (seen' = seen \/ \E x : Saw(c, x))
    BY <1>8 DEF Unpublish, At
  <2> QED BY <1>0, <1>a, <1>b, <2>1, OpOf, EndOf
<1>9. CASE AgentStart(c)
  <2>1. setup' = setup /\ seen' = seen /\ outcome' = outcome /\ pc[c] = "start" /\ Goto(c, "exec")
    BY <1>9 DEF AgentStart, At
  <2>2. "exec" \in Path(op)
    BY <1>0, <2>1, OpOf DEF Path
  <2> QED BY <1>a, <2>1, <2>2
<1>10. CASE ExecDetached(c)
  <2>1. setup' = setup /\ seen' = seen /\ outcome' = outcome /\ pc[c] = "exec" /\ (Goto(c, "poll") \/ Goto(c, "error"))
    BY <1>10 DEF ExecDetached, At
  <2>2. "poll" \in Path(op) /\ "error" \in Path(op)
    BY <1>0, <2>1, OpOf DEF Path
  <2> QED BY <1>a, <2>1, <2>2
<1>11. CASE PollDetached(c)
  <2>1. /\ setup' = setup /\ seen' = seen /\ outcome' = outcome /\ pc[c] = "poll"
        /\ (pc' = pc \/ Goto(c, "ok") \/ Goto(c, "error"))
    BY <1>11 DEF PollDetached, At
  <2> QED BY <1>0, <1>a, <1>b, <2>1, OpOf, EndOf
<1>12. CASE ProcExit(c)
  BY <1>b, <1>12 DEF ProcExit, handlers
<1>13. CASE StopBegin(c)
  <2>1. /\ setup' = setup /\ seen' = seen /\ outcome' = outcome
        /\ (Goto(c, "stop") /\ op \in {"Stop", "Reap"}) \/ (Goto(c, "error") /\ op = "Stop")
    BY <1>13 DEF StopBegin, Is, op
  <2>2. op \in {"Stop", "Reap"} => "stop" \in Path(op)
    BY DEF Path
  <2> QED BY <1>a, <2>1, <2>2, EndOf
<1>14. CASE StopMachine(c) \/ StopMark(c)
  <2>1. /\ setup' = setup /\ seen' = seen /\ outcome' = outcome /\ pc[c] \in {"stop", "mark"}
        /\ \/ Goto(c, "mark")
           \/ op = "Reap" /\ Goto(c, "new")
           \/ op # "Reap" /\ (Goto(c, "ok") \/ Goto(c, "error"))
    BY <1>14 DEF StopMachine, StopMark, At, StopEnds, Is, op
  <2>2. op \in {"Stop", "Reap"}
    BY <1>0, <2>1, OpOf
  <2>3. "mark" \in Path(op) /\ "new" \in Path(op)
    BY <2>2 DEF Path
  <2> QED BY <1>a, <2>1, <2>2, <2>3, EndOf
<1>15. CASE DeleteBegin(c)
  <2>1. setup' = setup /\ seen' = seen /\ outcome' = outcome /\ (Goto(c, "reap") \/ Goto(c, "remove")) /\ op = "Delete"
    BY <1>15 DEF DeleteBegin, Is, op
  <2>2. "reap" \in Path(op) /\ "remove" \in Path(op)
    BY <2>1 DEF Path
  <2> QED BY <1>a, <2>1, <2>2
<1>16. CASE Remove(c) \/ CleanList(c) \/ CleanNext(c) \/ DeleteRecord(c)
  <2>1. /\ setup' = setup /\ outcome' = outcome /\ pc[c] \in {"reap", "remove", "secrets", "clean", "forget"}
        /\ seen' = seen \/ \E x : Saw(c, x)
    BY <1>16 DEF Remove, CleanList, CleanNext, DeleteRecord, At
  <2>2. pc' = pc \/ \E l \in {"ok", "error", "secrets", "clean", "forget"} : Goto(c, l)
    BY <1>16 DEF Remove, CleanList, CleanNext, DeleteRecord, At
  <2>3. \A l \in {"ok", "error", "secrets", "clean", "forget"} : l \in Path(op) /\ l # "audit"
    BY <1>0, <2>1, OpOf DEF Path
  <2> QED BY <1>a, <1>b, <2>1, <2>2, <2>3
<1> QED BY <1>1, <1>2, <1>3, <1>4, <1>5, <1>6, <1>7, <1>8, <1>9, <1>10, <1>11, <1>12, <1>13, <1>14,
    <1>15, <1>16 DEF Handle

\* The other requests stay where they are.
LEMMA Apart ==
    ASSUME PathsInv, NEW c \in Clients, Along(c)
    PROVE  /\ \A d \in Clients : job(d)' = job(d)
           /\ \A d \in Clients : d # c => pc'[d] = pc[d] /\ seen'[d] = seen[d] /\ outcome'[d] = outcome[d]
           /\ DOMAIN pc' = Clients /\ DOMAIN seen' = Clients /\ DOMAIN outcome' = Clients
           /\ pc'[c] \in Path(job(c).op)
           /\ pc'[c] = "audit" => outcome'[c] \in {"ok", "error"}
<1>0. /\ DOMAIN pc = Clients /\ DOMAIN seen = Clients /\ DOMAIN outcome = Clients
      /\ pc[c] \in Path(job(c).op) /\ (pc[c] = "audit" => outcome[c] \in {"ok", "error"})
  BY DEF PathsInv
<1>1. \A d \in Clients : job(d)' = job(d)
  BY DEF Along, job
<1>2. DOMAIN seen' = Clients /\ \A d \in Clients : d # c => seen'[d] = seen[d]
  <2>1. CASE seen' = seen
    BY <1>0, <2>1
  <2>2. CASE \E x : seen' = [seen EXCEPT ![c] = x]
    BY <1>0, <2>2
  <2> QED BY <2>1, <2>2 DEF Along
<1>3. CASE pc' = pc /\ outcome' = outcome
  BY <1>0, <1>1, <1>2, <1>3
<1>4. CASE \E l \in Path(job(c).op) :
              /\ pc' = [pc EXCEPT ![c] = l]
              /\ \/ outcome' = outcome /\ l # "audit"
                 \/ \E o \in {"ok", "error"} : outcome' = [outcome EXCEPT ![c] = o]
  <2>1. PICK l \in Path(job(c).op) :
              /\ pc' = [pc EXCEPT ![c] = l]
              /\ \/ outcome' = outcome /\ l # "audit"
                 \/ \E o \in {"ok", "error"} : outcome' = [outcome EXCEPT ![c] = o]
    BY <1>4
  <2>2. DOMAIN pc' = Clients /\ pc'[c] = l /\ \A d \in Clients : d # c => pc'[d] = pc[d]
    BY <1>0, <2>1
  <2>3. CASE outcome' = outcome /\ l # "audit"
    BY <1>0, <1>1, <1>2, <2>2, <2>3
  <2>4. CASE \E o \in {"ok", "error"} : outcome' = [outcome EXCEPT ![c] = o]
    <3>1. PICK o \in {"ok", "error"} : outcome' = [outcome EXCEPT ![c] = o]
      BY <2>4
    <3>2. DOMAIN outcome' = Clients /\ outcome'[c] = o /\ \A d \in Clients : d # c => outcome'[d] = outcome[d]
      BY <1>0, <3>1
    <3> QED BY <1>1, <1>2, <2>2, <3>2
  <2> QED BY <2>1, <2>3, <2>4
<1> QED BY <1>3, <1>4 DEF Along

\* Where a request is after a step.
LEMMA Went ==
    ASSUME PathsInv, NEW c \in Clients
    PROVE  /\ \A l : Goto(c, l) => pc'[c] = l
           /\ \A x : Saw(c, x) => seen'[c] = x
           /\ \A o : Outcome(c, o) => outcome'[c] = o
<1>0. DOMAIN pc = Clients /\ DOMAIN seen = Clients /\ DOMAIN outcome = Clients
  BY DEF PathsInv
<1>1. \A l : Goto(c, l) => pc'[c] = l
  BY <1>0 DEF Goto
<1>2. \A x : Saw(c, x) => seen'[c] = x
  BY <1>0 DEF Saw
<1>3. \A o : Outcome(c, o) => outcome'[c] = o
  BY <1>0 DEF Outcome
<1> QED BY <1>1, <1>2, <1>3

\* What the streams, the statistics and the clock's readers do: they may start
\* a machine that is there and count as activity.
Aside ==
    /\ UNCHANGED <<setup, pc, seen, outcome, record, secrets, rows, proc, touch, polled, disturbed, orphaned, late>>
    /\ vm' = vm \/ (vm # "none" /\ vm' = "running")
    /\ age' = age \/ (record # "none" /\ age' = 0)

\* A step of a stream or of the statistics is one of the daemon's, or leaves the
\* requests, the tables and the machine alone but for activity.
LEMMA Streaming == StreamNext \/ UNCHANGED allVars => Next \/ Aside
<1>1. ASSUME UNCHANGED allVars PROVE Aside
  BY <1>1 DEF allVars, vars, handlers, tables, runs, history, Aside
<1>a. Quiet => UNCHANGED <<setup, pc, seen, outcome, record, secrets, rows, proc, touch, polled, disturbed, orphaned, late>>
  BY DEF Quiet, handlers, tables, runs, history
<1>b. ASSUME Quiet, UNCHANGED <<vm, age>> PROVE Aside
  BY <1>a, <1>b DEF Aside
<1>2. ASSUME NEW s \in Streams, Open(s) PROVE Aside
  <2>1. Quiet
    BY <1>2 DEF Open
  <2>2. age' = age \/ (record # "none" /\ age' = 0)
    <3>1. PICK f \in {faults, faults + 1} : IF kind(s) = "terminal" THEN BumpActivity(f) ELSE f = faults /\ UNCHANGED age
      BY <1>2 DEF Open
    <3> QED BY <3>1 DEF BumpActivity
  <2>3. vm' = vm \/ OpenSession(s)
    BY <1>2 DEF Open
  <2> QED BY <1>a, <2>1, <2>2, <2>3 DEF Aside, OpenSession
<1>3. ASSUME NEW s \in Streams, Yield(s) \/ SessionEnds(s) \/ MachineGone(s) \/ ClientLeaves(s) \/ NoticeLeft(s)
      PROVE  Aside
  BY <1>3, <1>b DEF Yield, SessionEnds, MachineGone, ClientLeaves, NoticeLeft
<1>4. ASSUME NEW s \in Streams, Serve(s) PROVE Aside
  BY <1>4, <1>b DEF Serve, LogsScanned, LogsSend, Closer, LogsLoop, TermPump, TermLoop, StatsLoop
<1>5. ASSUME PollStats PROVE Aside
  <2>1. UNCHANGED <<setup, pc, seen, outcome, record, secrets, rows, proc, touch, polled, disturbed, orphaned, late, vm>>
    BY <1>5 DEF PollStats, handlers, tables, runs, history
  <2>2. age' = age \/ (record # "none" /\ age' = 0)
    BY <1>5 DEF PollStats, BumpActivity
  <2> QED BY <2>1, <2>2 DEF Aside
<1> QED BY <1>1, <1>2, <1>3, <1>4, <1>5 DEF StreamNext

\* A crash ends the requests, but for the reaper, which begins anew.
LEMMA Crashed ==
    ASSUME PathsInv, Crash
    PROVE  /\ setup' = setup /\ DOMAIN pc' = Clients
           /\ \A c \in Clients : /\ pc'[c] \in {pc[c], "new", "dead"} /\ pc'[c] \in Path(job(c).op)
                                 /\ pc'[c] = "new" => pc[c] = "new" \/ Is(c, "Reap")
                                 /\ pc'[c] = pc[c] => pc[c] \in {"new", "ok", "error", "dead"}
<1>0. setup' = setup
  BY DEF Crash
<1>1. DOMAIN pc' = Clients
  BY DEF Crash
<1>2. ASSUME NEW c \in Clients
      PROVE  \/ Is(c, "Reap") /\ pc'[c] = "new"
             \/ ~Is(c, "Reap") /\ pc[c] \in {"new", "ok", "error", "dead"} /\ pc'[c] = pc[c]
             \/ ~Is(c, "Reap") /\ pc[c] \notin {"new", "ok", "error", "dead"} /\ pc'[c] = "dead"
  BY DEF Crash, Ended
<1>3. ASSUME NEW c \in Clients PROVE pc'[c] \in Path(job(c).op)
  <2>1. pc[c] \in Path(job(c).op)
    BY DEF PathsInv
  <2>2. "new" \in Path("Reap") /\ Path("None") = {"new"}
    BY DEF Path
  <2> QED BY <1>2, <2>1, <2>2, EndOf DEF Is
<1> QED BY <1>0, <1>1, <1>2, <1>3

\* The requests begin on their paths.
LEMMA PathsInit == Init => PathsInv
<1> SUFFICES ASSUME Init PROVE PathsInv
  OBVIOUS
<1>1. DOMAIN pc = Clients /\ DOMAIN seen = Clients /\ DOMAIN outcome = Clients /\ \A c \in Clients : pc[c] = "new"
  BY DEF Init
<1>2. \A c \in Clients : job(c).op \in Ops
  BY DaemonCallsAssumption DEF Init, job, SetupOK
<1>3. \A op : "new" \in Path(op)
  BY DEF Path
<1> QED BY <1>1, <1>2, <1>3 DEF PathsInv

\* No step leads a request off its path.
LEMMA PathsNext == PathsInv /\ (Next \/ Aside) => PathsInv'
<1>1. ASSUME PathsInv, NEW c \in Clients, Handle(c) PROVE PathsInv'
  <2>1. Along(c)
    BY <1>1, PathStep
  <2>2. \A d \in Clients : job(d)'.op = job(d).op
    BY <1>1, <2>1, Apart
  <2> QED BY <1>1, <2>1, <2>2, Apart DEF PathsInv
<1>2. ASSUME PathsInv, Crash PROVE PathsInv'
  <2>1. /\ setup' = setup /\ outcome' = outcome /\ seen' = seen
    BY <1>2 DEF Crash
  <2>2. \A c \in Clients : job(c)'.op = job(c).op
    BY <2>1 DEF job
  <2>3. \A c \in Clients : pc'[c] = "audit" => pc[c] = "audit"
    BY <1>2, Crashed
  <2> QED BY <1>2, <2>1, <2>2, <2>3, Crashed DEF PathsInv
<1>3. ASSUME PathsInv, UNCHANGED <<setup, pc, seen, outcome>> PROVE PathsInv'
  BY <1>3 DEF PathsInv, job
<1>4. ASSUME PathsInv, Tick PROVE PathsInv'
  BY <1>3, <1>4 DEF Tick, handlers
<1>5. ASSUME PathsInv, Aside PROVE PathsInv'
  BY <1>3, <1>5 DEF Aside
<1> QED BY <1>1, <1>2, <1>4, <1>5 DEF Next

-----------------------------------------------------------------------------
(* Secrets *)

\* One secret for an env of a scope.
OneEach(es) == \A d, e \in es : d.scope = e.scope /\ d.env = e.env => d = e

\* The secrets stay as every SetSecret read them, but for the disturbed ones.
LEMMA SecretsKept ==
    ASSUME PathsInv, SecretsInv, NEW c \in Clients, Along(c), disturbed \subseteq disturbed',
           OneEach(secrets'),
           \A sc : SecretList(sc)' = SecretList(sc) \/ Setting(sc) \ {c} \subseteq disturbed',
           (pc'[c] = "set" /\ c \notin disturbed') => secrets' = secrets /\ seen'[c] = SecretList(job(c).scope),
           (Is(c, "SetSecret") /\ outcome'[c] = "error") => c \in disturbed'
    PROVE  SecretsInv'
<1>0. \A d \in Clients : job(d)' = job(d) /\ (Is(d, "SetSecret")' <=> Is(d, "SetSecret"))
  BY Apart DEF Is
<1>1. secrets' = secrets => \A sc : SecretList(sc)' = SecretList(sc)
  BY DEF SecretList
<1>2. ASSUME NEW d \in Clients, pc'[d] = "set", d \notin disturbed' PROVE (seen[d] = SecretList(job(d).scope))'
  <2>1. CASE d = c
    BY <1>0, <1>1, <1>2, <2>1
  <2>2. CASE d # c
    <3>1. pc[d] = "set" /\ seen'[d] = seen[d] /\ d \notin disturbed
      BY <1>2, <2>2, Apart
    <3>2. Is(d, "SetSecret")
      BY <3>1, OpOf DEF PathsInv, Is
    <3>3. d \in Setting(job(d).scope) \ {c}
      BY <2>2, <3>1, <3>2 DEF Setting, Busy, Ended
    <3>a. PICK sc : sc = job(d).scope
      OBVIOUS
    <3>4. SecretList(sc)' = SecretList(sc)
      BY <1>2, <3>3, <3>a
    <3>5. seen[d] = SecretList(sc)
      BY <3>1, <3>a DEF SecretsInv
    <3>6. job(d)'.scope = sc
      BY <1>0, <3>a
    <3> QED BY <3>1, <3>4, <3>5, <3>6 DEF SecretList
  <2> QED BY <2>1, <2>2
<1>3. ASSUME NEW d \in Clients, Is(d, "SetSecret"), outcome'[d] = "error" PROVE d \in disturbed'
  BY <1>3, Apart DEF SecretsInv, RotationSucceeds
<1>4. RotationSucceeds'
  BY <1>0, <1>3 DEF RotationSucceeds, OneEach
<1> QED BY <1>2, <1>4 DEF SecretsInv

\* A step that leaves the secrets alone, and the answer of every SetSecret.
LEMMA SecretsLeft ==
    ASSUME PathsInv, SecretsInv, NEW c \in Clients, Along(c), disturbed \subseteq disturbed',
           secrets' = secrets,
           pc'[c] = "set" => pc[c] = "set" /\ seen' = seen,
           outcome'[c] = outcome[c] \/ ~Is(c, "SetSecret") \/ c \in disturbed'
    PROVE  SecretsInv'
<1>1. OneEach(secrets')
  BY DEF SecretsInv, RotationSucceeds, OneEach
<1>2. (pc'[c] = "set" /\ c \notin disturbed') => secrets' = secrets /\ seen'[c] = SecretList(job(c).scope)
  BY DEF SecretsInv
<1>3. (Is(c, "SetSecret") /\ outcome'[c] = "error") => c \in disturbed'
  BY DEF SecretsInv, RotationSucceeds
<1>4. \A sc : SecretList(sc)' = SecretList(sc)
  BY DEF SecretList
<1> QED BY <1>1, <1>2, <1>3, <1>4, SecretsKept

\* A step of a request keeps what the others have read of the secrets, or
\* disturbs them.
LEMMA SecretsStep == ASSUME PathsInv, SecretsInv, NEW c \in Clients, Handle(c) PROVE SecretsInv'
<1>0. Along(c)
  BY PathStep
<1>a. ASSUME disturbed' = disturbed \/ \E S : disturbed' = disturbed \cup S PROVE disturbed \subseteq disturbed'
  BY <1>a
<1>b. ASSUME secrets' \subseteq secrets PROVE OneEach(secrets')
  BY <1>b DEF SecretsInv, RotationSucceeds, OneEach
<1>c. ASSUME Fault(c) PROVE disturbed \subseteq disturbed' /\ c \in disturbed'
  BY <1>c DEF Fault
<1>1. CASE Resolve(c)
  <2>1. secrets' = secrets /\ disturbed' = disturbed /\ outcome' = outcome
    BY <1>1 DEF Resolve, tables, history
  <2>2. \E l \in {"error", "list", "ports", "start", "call"} : Goto(c, l)
    BY <1>1 DEF Resolve, Is
  <2> QED BY <1>0, <1>a, <2>1, <2>2, Went, SecretsLeft
<1>2. CASE Call(c)
  <2>0. pc[c] = "call" /\ job(c).op \in Ops /\ \E o : Answered(c, o)
    BY <1>2 DEF Call, At, PathsInv, Fails, SetPolicy, DeletePolicyRule, DeleteSecret, DeleteStoredSecret,
       SaveTemplate,
                RemoveTemplate, PublishPort, Exec
  <2>1. ~Is(c, "SetSecret")
    BY <2>0, OpOf DEF PathsInv, Is
  <2>2. pc'[c] \in {"audit", "ok", "error"}
    <3>1. \E o \in {"ok", "error"} : Answered(c, o)
      BY <1>2 DEF Call, Fails, SetPolicy, DeletePolicyRule, DeleteSecret, DeleteStoredSecret, SaveTemplate,
                  RemoveTemplate, PublishPort, Exec
    <3>2. \E l \in {"audit", "ok", "error"} : Goto(c, l)
      BY <3>1 DEF Answered
    <3> QED BY <3>2, Went
  <2>3. CASE Fails(c)
    <3>1. secrets' = secrets /\ Fault(c)
      BY <2>3 DEF Fails, tables
    <3> QED BY <1>0, <1>c, <2>1, <2>2, <3>1, SecretsLeft
  <2>4. CASE DeleteSecret(c)
    <3> DEFINE sc == job(c).scope
    <3>1. secrets' = secrets \ OfHost(sc, job(c).host) /\ disturbed' = disturbed \cup Setting(sc)
      BY <2>4 DEF DeleteSecret, Disturb
    <3>2. \A x : x # sc => SecretList(x)' = SecretList(x)
      BY <3>1 DEF SecretList, OfHost
    <3>3. secrets' \subseteq secrets /\ disturbed \subseteq disturbed' /\ Setting(sc) \ {c} \subseteq disturbed'
      BY <3>1
    <3>4. \A x : SecretList(x)' = SecretList(x) \/ Setting(x) \ {c} \subseteq disturbed'
      BY <3>2, <3>3
    <3> QED BY <1>0, <1>b, <2>1, <2>2, <3>3, <3>4, SecretsKept
  <2>5. CASE SetPolicy(c) \/ DeletePolicyRule(c) \/ DeleteStoredSecret(c) \/ SaveTemplate(c) \/ RemoveTemplate(c)
             \/ PublishPort(c) \/ Exec(c)
    <3>1. secrets' = secrets /\ disturbed \subseteq disturbed'
      BY <2>5 DEF SetPolicy, DeletePolicyRule, DeleteStoredSecret, SaveTemplate, RemoveTemplate,
         PublishPort, Exec, tables, Disturb
    <3> QED BY <1>0, <2>1, <2>2, <3>1, SecretsLeft
  <2> QED BY <1>2, <2>3, <2>4, <2>5 DEF Call
<1>3. CASE AuditStep(c)
  <2>1. secrets' = secrets /\ disturbed \subseteq disturbed' /\ outcome' = outcome /\ pc[c] = "audit"
    BY <1>3, <1>c DEF AuditStep, tables, At
  <2>2. \E l \in {"templates", outcome[c]} : Goto(c, l)
    BY <1>3 DEF AuditStep
  <2>3. pc'[c] # "set"
    BY <2>1, <2>2, Went DEF PathsInv
  <2> QED BY <1>0, <2>1, <2>3, SecretsLeft
<1>4. CASE ListTemplates(c)
  <2>1. secrets' = secrets /\ disturbed \subseteq disturbed' /\ outcome' = outcome /\ (Goto(c, "ok") \/ Goto(c, "error"))
    BY <1>4, <1>c DEF ListTemplates, tables
  <2> QED BY <1>0, <2>1, Went, SecretsLeft
<1>5. CASE SetSecretList(c)
  <2>1. secrets' = secrets /\ disturbed \subseteq disturbed' /\ outcome' = outcome
    BY <1>5, <1>c DEF SetSecretList, tables
  <2>2. c \in disturbed' \/ Saw(c, SecretList(job(c).scope))
    BY <1>5, <1>c DEF SetSecretList
  <2>3. (Is(c, "SetSecret") /\ outcome'[c] = "error") => c \in disturbed'
    BY <2>1 DEF SecretsInv, RotationSucceeds
  <2>4. \A sc : SecretList(sc)' = SecretList(sc)
    BY <2>1 DEF SecretList
  <2> QED BY <1>0, <1>b, <2>1, <2>2, <2>3, <2>4, Went, SecretsKept
<1>6. CASE SetCustom(c)
  <2> DEFINE j == job(c)
  <2> DEFINE old == {e \in secrets : e.scope = j.scope /\ e.env = j.env}
  <2> DEFINE new(t) == [scope |-> j.scope, env |-> j.env, host |-> j.host, token |-> t]
  <2>1. CASE \E t : /\ secrets' = (secrets \ old) \cup {new(t)}
                    /\ Disturb(Setting(j.scope) \ {c}) /\ Answered(c, "ok")
    <3>1. PICK t : /\ secrets' = (secrets \ old) \cup {new(t)}
                   /\ Disturb(Setting(j.scope) \ {c}) /\ Answered(c, "ok")
      BY <2>1
    <3>2. new(t).scope = j.scope /\ new(t).env = j.env
      OBVIOUS
    <3> HIDE DEF new
    <3>3. OneEach(secrets')
      <4>1. ASSUME NEW d \in secrets', NEW e \in secrets', d.scope = e.scope, d.env = e.env PROVE d = e
        BY <3>1, <3>2, <4>1 DEF SecretsInv, RotationSucceeds
      <4> QED BY <4>1 DEF OneEach
    <3>4. disturbed \subseteq disturbed' /\ Setting(j.scope) \ {c} \subseteq disturbed'
      BY <3>1 DEF Disturb
    <3>5. outcome'[c] = "ok" /\ pc'[c] \in {"audit", "ok"}
      BY <3>1, Went DEF Answered
    <3>6. \A x : x # j.scope => SecretList(x)' = SecretList(x)
      BY <3>1, <3>2 DEF SecretList
    <3>7. \A x : SecretList(x)' = SecretList(x) \/ Setting(x) \ {c} \subseteq disturbed'
      BY <3>4, <3>6
    <3> QED BY <1>0, <3>3, <3>4, <3>5, <3>7, SecretsKept
  <2>2. CASE /\ old # {} /\ {e.token : e \in old} # Placeholder(c)
             /\ Answered(c, "error") /\ UNCHANGED <<secrets, disturbed>>
    <3>1. outcome'[c] = "error" /\ pc'[c] \in {"audit", "error"} /\ secrets' = secrets /\ disturbed' = disturbed
      BY <2>2, Went DEF Answered
    <3>2. c \in disturbed
      <4>1. pc[c] = "set"
        BY <1>6 DEF SetCustom, At
      <4>2. SUFFICES ASSUME c \notin disturbed PROVE FALSE
        OBVIOUS
      <4>3. seen[c] = SecretList(j.scope)
        BY <4>1, <4>2 DEF SecretsInv
      <4>4. {x \in seen[c] : x.env = j.env} = old
        BY <4>3 DEF SecretList
      <4> QED BY <2>2, <4>4 DEF Placeholder
    <3> QED BY <1>0, <3>1, <3>2, SecretsLeft
  <2> QED BY <1>6, <2>1, <2>2 DEF SetCustom
<1>7. CASE SetCustomFails(c)
  <2>1. secrets' = secrets /\ Fault(c) /\ Answered(c, "error")
    BY <1>7 DEF SetCustomFails, Fails, tables
  <2>2. pc'[c] \in {"audit", "error"}
    BY <2>1, Went DEF Answered
  <2> QED BY <1>0, <1>c, <2>1, <2>2, SecretsLeft
<1>8. CASE Ports(c) \/ Unpublish(c)
  <2>1. secrets' = secrets /\ disturbed \subseteq disturbed' /\ outcome' = outcome /\ pc[c] \in {"ports", "unpublish"}
    BY <1>8, <1>c DEF Ports, Unpublish, tables, Disturb, At
  <2>2. pc' = pc \/ \E l \in {"ok", "error", "unpublish"} : Goto(c, l)
    BY <1>8 DEF Ports, Unpublish
  <2> QED BY <1>0, <2>1, <2>2, Went, SecretsLeft
<1>9. CASE AgentStart(c) \/ ExecDetached(c) \/ PollDetached(c)
  <2>1. secrets' = secrets /\ disturbed \subseteq disturbed' /\ outcome' = outcome /\ pc[c] \in {"start", "exec", "poll"}
    BY <1>9, <1>c DEF AgentStart, ExecDetached, PollDetached, tables, At
  <2>2. pc' = pc \/ \E l \in {"ok", "error", "exec", "poll"} : Goto(c, l)
    BY <1>9 DEF AgentStart, ExecDetached, PollDetached
  <2> QED BY <1>0, <2>1, <2>2, Went, SecretsLeft
<1>10. CASE ProcExit(c)
  <2>1. secrets' = secrets /\ disturbed \subseteq disturbed' /\ outcome' = outcome /\ pc' = pc /\ seen' = seen
    BY <1>10 DEF ProcExit, tables, handlers, history
  <2> QED BY <1>0, <2>1, SecretsLeft
<1>11. CASE StopBegin(c) \/ StopMachine(c) \/ StopMark(c) \/ DeleteBegin(c) \/ DeleteRecord(c)
  <2>1. secrets' = secrets /\ disturbed \subseteq disturbed' /\ outcome' = outcome
    BY <1>11, <1>c DEF StopBegin, StopMachine, StopMark, DeleteBegin, DeleteRecord, tables, history
  <2>2. \E l \in {"new", "ok", "error", "stop", "mark", "reap", "remove"} : Goto(c, l)
    BY <1>11 DEF StopBegin, StopMachine, StopMark, DeleteBegin, DeleteRecord, StopEnds
  <2> QED BY <1>0, <2>1, <2>2, Went, SecretsLeft
<1>12. CASE CleanList(c)
  <2>1. secrets' = secrets /\ disturbed \subseteq disturbed' /\ outcome' = outcome /\ Goto(c, "clean")
    BY <1>12, <1>c DEF CleanList, tables
  <2> QED BY <1>0, <2>1, Went, SecretsLeft
<1>13. CASE Remove(c) \/ CleanNext(c)
  <2>1. \/ secrets' = secrets
        \/ /\ \E S : secrets' = secrets \ S /\ \A e \in S : e.scope = "sandbox"
           /\ Setting("sandbox") \ {c} \subseteq disturbed'
    BY <1>13 DEF Remove, CleanNext, CleanHit, OfHost, InSandbox, Disturb
  <2>a. secrets' \subseteq secrets
    BY <2>1
  <2>b. \A x : SecretList(x)' = SecretList(x) \/ Setting(x) \ {c} \subseteq disturbed'
    <3>1. secrets' = secrets => \A x : SecretList(x)' = SecretList(x)
      BY DEF SecretList
    <3>2. ASSUME NEW S, secrets' = secrets \ S, \A e \in S : e.scope = "sandbox", NEW x, x # "sandbox"
          PROVE  SecretList(x)' = SecretList(x)
      BY <3>2 DEF SecretList
    <3> QED BY <2>1, <3>1, <3>2
  <2>2. disturbed \subseteq disturbed' /\ outcome' = outcome /\ pc[c] \in {"reap", "remove", "clean"}
    BY <1>13, <1>c DEF Remove, CleanNext, Disturb, At
  <2>3. pc' = pc \/ \E l \in {"ok", "error", "secrets", "forget"} : Goto(c, l)
    BY <1>13 DEF Remove, CleanNext
  <2>4. pc'[c] # "set"
    BY <2>2, <2>3, Went
  <2>5. (Is(c, "SetSecret") /\ outcome'[c] = "error") => c \in disturbed'
    BY <2>2 DEF SecretsInv, RotationSucceeds
  <2> QED BY <1>0, <1>b, <2>a, <2>b, <2>2, <2>4, <2>5, SecretsKept
<1> QED BY <1>1, <1>2, <1>3, <1>4, <1>5, <1>6, <1>7, <1>8, <1>9, <1>10, <1>11, <1>12, <1>13 DEF Handle

\* So does every step.
LEMMA SecretsNext == PathsInv /\ SecretsInv /\ (Next \/ Aside) => SecretsInv'
<1>1. ASSUME PathsInv, SecretsInv, NEW c \in Clients, Handle(c) PROVE SecretsInv'
  BY <1>1, SecretsStep
<1>2. ASSUME SecretsInv, UNCHANGED <<setup, seen, outcome, secrets, disturbed>>,
             \A c \in Clients : pc'[c] = "set" => pc[c] = "set"
      PROVE  SecretsInv'
  BY <1>2 DEF SecretsInv, RotationSucceeds, SecretList, job, Is
<1>3. ASSUME PathsInv, SecretsInv, Crash PROVE SecretsInv'
  <2>1. UNCHANGED <<setup, seen, outcome, secrets, disturbed>>
    BY <1>3 DEF Crash, tables, history
  <2> QED BY <1>2, <1>3, <2>1, Crashed
<1>4. ASSUME SecretsInv, Tick PROVE SecretsInv'
  <2>1. UNCHANGED <<setup, pc, seen, outcome, secrets, disturbed>>
    BY <1>4 DEF Tick, tables, handlers
  <2> QED BY <1>2, <1>4, <2>1
<1>5. ASSUME SecretsInv, Aside PROVE SecretsInv'
  BY <1>2, <1>5 DEF Aside
<1> QED BY <1>1, <1>3, <1>4, <1>5 DEF Next

-----------------------------------------------------------------------------
(* The cleanup of a deleted sandbox *)

NoneLeft == \A e \in secrets : e.scope # "sandbox"
Covered(c) == \A e \in secrets : e.scope = "sandbox" => \E s \in seen[c] : s.host = e.host

\* A step that adds no secret of the sandbox, or excuses what it adds.
LEMMA CleanKept ==
    ASSUME PathsInv, CleanInv, NEW c \in Clients, Along(c), orphaned => orphaned',
           secrets' \subseteq secrets,
           (~orphaned' /\ pc'[c] = "clean") => Covered(c)',
           (~orphaned' /\ (pc'[c] = "forget" \/ (record' = "none" /\ Is(c, "Delete") /\ pc'[c] = "ok"))) => NoneLeft',
           record' = record \/ record' # "none" \/ (~orphaned' => NoneLeft')
    PROVE  CleanInv'
<1>0. \A d \in Clients : Is(d, "Delete")' <=> Is(d, "Delete")
  BY Apart DEF Is
<1> SUFFICES ASSUME ~orphaned'
             PROVE  /\ \A d \in Clients : pc'[d] = "clean" => Covered(d)'
                    /\ \A d \in Clients : pc'[d] = "forget" \/ (record' = "none" /\ Is(d, "Delete") /\ pc'[d] = "ok")
                                            => NoneLeft'
  BY <1>0 DEF CleanInv, Covered, NoneLeft
<1>1. ~orphaned
  OBVIOUS
<1>2. /\ \A d \in Clients : pc[d] = "clean" => Covered(d)
      /\ \A d \in Clients : pc[d] = "forget" \/ (record = "none" /\ Is(d, "Delete") /\ pc[d] = "ok") => NoneLeft
  BY <1>1 DEF CleanInv, Covered, NoneLeft
<1>3. NoneLeft => NoneLeft'
  BY DEF NoneLeft
<1>4. ASSUME NEW d \in Clients, pc'[d] = "clean" PROVE Covered(d)'
  <2>1. CASE d = c
    BY <1>4, <2>1
  <2>2. CASE d # c
    <3>1. pc[d] = "clean" /\ seen'[d] = seen[d]
      BY <1>4, <2>2, Apart
    <3> QED BY <1>2, <3>1 DEF Covered
  <2> QED BY <2>1, <2>2
<1>5. ASSUME NEW d \in Clients, pc'[d] = "forget" \/ (record' = "none" /\ Is(d, "Delete") /\ pc'[d] = "ok")
      PROVE  NoneLeft'
  <2>1. CASE d = c
    BY <1>5, <2>1
  <2>2. CASE d # c
    <3>1. pc[d] = pc'[d]
      BY <2>2, Apart
    <3> QED BY <1>2, <1>3, <1>5, <3>1
  <2> QED BY <2>1, <2>2
<1> QED BY <1>4, <1>5

\* A request of another kind.
LEMMA CleanLeft ==
    ASSUME PathsInv, CleanInv, NEW c \in Clients, Along(c), orphaned' = orphaned,
           secrets' \subseteq secrets,
           ~Is(c, "Delete"), record' = record \/ record' # "none"
    PROVE  CleanInv'
<1>1. pc'[c] \in Path(job(c).op) /\ job(c).op # "Delete"
  BY Apart DEF Is
<1>2. pc'[c] \notin {"clean", "forget"}
  BY <1>1, OpOf
<1> QED BY <1>2, CleanKept

\* A step of a request keeps the cleanups ahead of the secrets.
LEMMA CleanStep == ASSUME PathsInv, CleanInv, NEW c \in Clients, Handle(c) PROVE CleanInv'
<1>0. Along(c) /\ pc[c] \in Path(job(c).op)
  BY PathStep DEF PathsInv
<1>1. CASE Resolve(c) \/ AuditStep(c) \/ ListTemplates(c) \/ SetSecretList(c) \/ SetCustomFails(c) \/ Ports(c) \/ Unpublish(c)
  <2>1. secrets' = secrets /\ orphaned' = orphaned /\ record' = record
    BY <1>1 DEF Resolve, AuditStep, ListTemplates, SetSecretList, SetCustomFails, Fails, Ports,
       Unpublish, tables, history
  <2>2. job(c).op # "Delete" \/ pc[c] \in {"audit", "templates", "list", "set", "ports", "unpublish"}
    BY <1>1 DEF Resolve, AuditStep, ListTemplates, SetSecretList, SetCustomFails, Ports, Unpublish, At
  <2>a. "Delete" \notin {"SetSecret", "UnpublishPort"}
    OBVIOUS
  <2>3. ~Is(c, "Delete")
    BY <1>0, <2>2, <2>a, OpOf DEF Is
  <2> QED BY <1>0, <2>1, <2>3, CleanLeft
<1>2. CASE Call(c)
  <2>1. secrets' \subseteq secrets /\ orphaned' = orphaned /\ record' = record /\ pc[c] = "call"
    BY <1>2 DEF Call, Fails, SetPolicy, DeletePolicyRule, DeleteSecret, DeleteStoredSecret, SaveTemplate,
                RemoveTemplate, PublishPort, Exec, tables, At
  <2>2. ~Is(c, "Delete")
    BY <1>0, <2>1, OpOf DEF Is
  <2> QED BY <1>0, <2>1, <2>2, CleanLeft
<1>3. CASE SetCustom(c)
  <2> DEFINE j == job(c)
  <2> DEFINE old == {e \in secrets : e.scope = j.scope /\ e.env = j.env}
  <2> DEFINE new(t) == [scope |-> j.scope, env |-> j.env, host |-> j.host, token |-> t]
  <2>0. pc[c] = "set" /\ record' = record
    BY <1>3 DEF SetCustom, At
  <2>1. ~Is(c, "Delete")
    BY <1>0, <2>0, OpOf DEF Is
  <2>2. CASE \E t : /\ secrets' = (secrets \ old) \cup {new(t)}
                    /\ orphaned' = (orphaned \/ (j.scope = "sandbox" /\ Excuse))
    <3>1. PICK t : /\ secrets' = (secrets \ old) \cup {new(t)}
                   /\ orphaned' = (orphaned \/ (j.scope = "sandbox" /\ Excuse))
      BY <2>2
    <3>2. new(t).scope = j.scope
      OBVIOUS
    <3> HIDE DEF new
    <3>3. \A d \in Clients : Is(d, "Delete")' <=> Is(d, "Delete")
      BY <1>0, Apart DEF Is
    <3>4. pc'[c] \notin {"clean", "forget"}
      BY <1>0, <2>1, OpOf, Apart DEF Is
    <3>5. CASE j.scope = "sandbox" /\ ~orphaned'
      <4>1. record # "none" /\ \A d \in Busy("Delete") : pc[d] \notin {"clean", "forget"}
        BY <3>1, <3>5 DEF Excuse
      <4>2. ASSUME NEW d \in Clients, pc[d] \in {"clean", "forget"} PROVE FALSE
        <5>0. pc[d] \in Path(job(d).op)
          BY DEF PathsInv
        <5>1. Is(d, "Delete")
          BY <4>2, <5>0, OpOf DEF Is
        <5>2. d \in Busy("Delete")
          BY <4>2, <5>1 DEF Busy, Ended
        <5> QED BY <4>1, <4>2, <5>2
      <4>3. \A d \in Clients : pc'[d] \notin {"clean", "forget"}
        BY <1>0, <3>4, <4>2, Apart
      <4> QED BY <2>0, <4>1, <4>3 DEF CleanInv
    <3>6. CASE orphaned'
      BY <3>6 DEF CleanInv
    <3>7. CASE j.scope # "sandbox" /\ ~orphaned'
      <4>1. ~orphaned /\ \A e \in secrets' : e.scope = "sandbox" => e \in secrets
        BY <3>1, <3>2, <3>7
      <4>2. ASSUME NEW d \in Clients, pc'[d] = "clean", NEW e \in secrets', e.scope = "sandbox"
            PROVE  \E s \in seen'[d] : s.host = e.host
        <5>1. pc[d] = "clean" /\ seen'[d] = seen[d]
          BY <1>0, <3>4, <4>2, Apart
        <5> QED BY <4>1, <4>2, <5>1 DEF CleanInv
      <4>3. ASSUME NEW d \in Clients, pc'[d] = "forget" \/ (record' = "none" /\ Is(d, "Delete") /\ pc'[d] = "ok"),
                   NEW e \in secrets'
            PROVE  e.scope # "sandbox"
        <5>1. d # c /\ pc[d] = pc'[d]
          BY <1>0, <2>1, <3>4, <4>3, Apart
        <5> QED BY <2>0, <4>1, <4>3, <5>1 DEF CleanInv
      <4> QED BY <3>3, <4>2, <4>3 DEF CleanInv
    <3> QED BY <3>5, <3>6, <3>7
  <2>3. CASE UNCHANGED <<secrets, orphaned>>
    BY <1>0, <2>0, <2>1, <2>3, CleanLeft
  <2> QED BY <1>3, <2>2, <2>3 DEF SetCustom
<1>4. CASE AgentStart(c) \/ ExecDetached(c) \/ PollDetached(c)
  <2>1. secrets' = secrets /\ orphaned' = orphaned /\ record' = record /\ pc[c] \in {"start", "exec", "poll"}
    BY <1>4 DEF AgentStart, ExecDetached, PollDetached, tables, At
  <2>2. ~Is(c, "Delete")
    BY <1>0, <2>1, OpOf DEF Is
  <2> QED BY <1>0, <2>1, <2>2, CleanLeft
<1>5. CASE StopBegin(c) \/ StopMachine(c) \/ StopMark(c)
  <2>1. secrets' = secrets /\ orphaned' = orphaned /\ (record' = record \/ record' # "none")
    BY <1>5 DEF StopBegin, StopMachine, StopMark, tables, history
  <2>2. job(c).op \in {"Stop", "Reap"} \/ pc[c] \in {"stop", "mark"}
    BY <1>5 DEF StopBegin, StopMachine, StopMark, At, Is
  <2>3. ~Is(c, "Delete")
    BY <1>0, <2>2, OpOf DEF Is
  <2> QED BY <1>0, <2>1, <2>3, CleanLeft
<1>6. CASE ProcExit(c)
  <2>1. UNCHANGED <<secrets, orphaned, record, pc, seen, setup>>
    BY <1>6 DEF ProcExit, tables, history, handlers
  <2> QED BY <2>1 DEF CleanInv, Is, job
<1>7. CASE DeleteBegin(c)
  <2>1. secrets' = secrets /\ orphaned' = orphaned /\ record' = record /\ (Goto(c, "reap") \/ Goto(c, "remove"))
    BY <1>7 DEF DeleteBegin, tables, history
  <2>2. pc'[c] \in {"reap", "remove"}
    BY <2>1, Went
  <2> QED BY <1>0, <2>1, <2>2, CleanKept
<1>8. CASE Remove(c)
  <2>0. orphaned' = (orphaned \/ At(c, "reap")) \/ orphaned' = orphaned
    BY <1>8 DEF Remove
  <2>1. secrets' \subseteq secrets /\ record' = record
    BY <1>8 DEF Remove
  <2>a. orphaned => orphaned'
    BY <2>0
  <2>2. (Goto(c, "ok") /\ orphaned') \/ Goto(c, "secrets") \/ Goto(c, "error")
    BY <1>8 DEF Remove
  <2>3. (pc'[c] = "ok" /\ orphaned') \/ pc'[c] \in {"secrets", "error"}
    BY <2>2, Went
  <2> QED BY <1>0, <2>1, <2>a, <2>3, CleanKept
<1>9. CASE CleanList(c)
  <2>0. secrets' = secrets /\ (orphaned' = orphaned \/ orphaned' = TRUE) /\ record' = record /\ Goto(c, "clean")
    BY <1>9 DEF CleanList, tables
  <2>1. secrets' = secrets /\ (orphaned => orphaned') /\ record' = record /\ Goto(c, "clean")
    BY SMTT(60), <2>0
  <2>2. orphaned' \/ Saw(c, SecretList("sandbox"))
    BY <1>9 DEF CleanList
  <2>3. orphaned' \/ Covered(c)'
    BY <2>1, <2>2, Went DEF Covered, SecretList
  <2>4. pc'[c] = "clean"
    BY <2>1, Went
  <2> QED BY <1>0, <2>1, <2>3, <2>4, CleanKept
<1>10. CASE CleanNext(c)
  <2>0. pc[c] = "clean" /\ record' = record
    BY <1>10 DEF CleanNext, At
  <2>1. CASE seen[c] = {} /\ Goto(c, "forget") /\ UNCHANGED <<secrets, orphaned>>
    <3>1. ~orphaned => NoneLeft
      BY <2>0, <2>1 DEF CleanInv, NoneLeft
    <3>2. pc'[c] = "forget" /\ (~orphaned' => NoneLeft')
      BY <2>1, <3>1, Went DEF NoneLeft
    <3> QED BY <1>0, <2>0, <2>1, <3>2, CleanKept
  <2>2. CASE \E e \in seen[c] : Saw(c, seen[c] \ {e}) /\ UNCHANGED pc
                /\ ((secrets' = secrets \ CleanHit(e) /\ UNCHANGED orphaned) \/ (orphaned' = TRUE /\ UNCHANGED secrets))
    <3>1. PICK e \in seen[c] : Saw(c, seen[c] \ {e}) /\ UNCHANGED pc
                /\ ((secrets' = secrets \ CleanHit(e) /\ UNCHANGED orphaned) \/ (orphaned' = TRUE /\ UNCHANGED secrets))
      BY <2>2
    <3>a. secrets' \subseteq secrets /\ (orphaned => orphaned')
      BY SMTT(60), <3>1
    <3>2. secrets' \subseteq secrets /\ (orphaned => orphaned') /\ pc'[c] = "clean" /\ seen'[c] = seen[c] \ {e}
      BY <2>0, <3>1, <3>a, Went
    <3>3. ASSUME ~orphaned', NEW x \in secrets', x.scope = "sandbox" PROVE \E s \in seen'[c] : s.host = x.host
      <4>1. secrets' = secrets \ CleanHit(e) /\ ~orphaned
        BY SMTT(60), <3>1, <3>3
      <4>2. x \in secrets /\ x.host # e.host
        BY <3>3, <4>1 DEF CleanHit, OfHost
      <4>3. PICK s \in seen[c] : s.host = x.host
        BY <2>0, <3>3, <4>1, <4>2 DEF CleanInv
      <4> QED BY <3>2, <4>2, <4>3
    <3>4. ~orphaned' => Covered(c)'
      BY <3>3 DEF Covered
    <3> QED BY <1>0, <2>0, <3>2, <3>4, CleanKept
  <2> QED BY <1>10, <2>1, <2>2 DEF CleanNext
<1>11. CASE DeleteRecord(c)
  <2>1. secrets' = secrets /\ orphaned' = orphaned /\ pc[c] = "forget" /\ (Goto(c, "ok") \/ Goto(c, "error"))
    BY <1>11 DEF DeleteRecord, tables, At
  <2>2. (~orphaned => NoneLeft) /\ pc'[c] \in {"ok", "error"}
    BY <2>1, Went DEF CleanInv, NoneLeft
  <2>3. ~orphaned' => NoneLeft'
    BY <2>1, <2>2 DEF NoneLeft
  <2> QED BY <1>0, <2>1, <2>2, <2>3, CleanKept
<1> QED BY <1>1, <1>2, <1>3, <1>4, <1>5, <1>6, <1>7, <1>8, <1>9, <1>10, <1>11 DEF Handle

\* So does every step.
LEMMA CleanNextStep == PathsInv /\ CleanInv /\ (Next \/ Aside) => CleanInv'
<1>1. ASSUME PathsInv, CleanInv, NEW c \in Clients, Handle(c) PROVE CleanInv'
  BY <1>1, CleanStep
<1>2. ASSUME CleanInv, UNCHANGED <<setup, seen, record, secrets, orphaned>>,
             \A c \in Clients : pc'[c] \in {"clean", "forget", "ok"} => pc[c] = pc'[c]
      PROVE  CleanInv'
  BY <1>2 DEF CleanInv, job, Is
<1>3. ASSUME PathsInv, CleanInv, Crash PROVE CleanInv'
  <2>1. UNCHANGED <<setup, seen, record, secrets, orphaned>>
    BY <1>3 DEF Crash, tables, history
  <2>2. \A c \in Clients : pc'[c] \in {"clean", "forget", "ok"} => pc[c] = pc'[c]
    BY <1>3, Crashed
  <2> QED BY <1>2, <1>3, <2>1, <2>2
<1>4. ASSUME CleanInv, Tick PROVE CleanInv'
  <2>1. UNCHANGED <<setup, pc, seen, record, secrets, orphaned>>
    BY <1>4 DEF Tick, tables, handlers
  <2> QED BY <1>2, <1>4, <2>1
<1>5. ASSUME CleanInv, Aside PROVE CleanInv'
  <2>1. UNCHANGED <<setup, pc, seen, record, secrets, orphaned>>
    BY <1>5 DEF Aside
  <2> QED BY <1>2, <1>5, <2>1
<1> QED BY <1>1, <1>3, <1>4, <1>5 DEF Next

-----------------------------------------------------------------------------
(* Ports *)

\* The mappings of c's guest port.
Mine(c) == {p \in dedupePorts(rows) : p.guest = job(c).guest}

\* What is gone stays gone.
Stay == (vm = "none" => vm' = "none") /\ (record = "none" => record' = "none")

\* The mappings stay as every UnpublishPort read them, but for the disturbed ones.
LEMMA PortsKept ==
    ASSUME PathsInv, PortsInv, NEW c \in Clients, Along(c), disturbed \subseteq disturbed', Stay,
           rows' = rows \/ Busy("UnpublishPort") \ {c} \subseteq disturbed',
           (Is(c, "UnpublishPort") /\ c \notin disturbed') =>
               /\ pc'[c] = "unpublish" => seen'[c] = Mine(c)'
               /\ pc'[c] = "error" => vm' = "none" \/ record' = "none"
    PROVE  PortsInv'
<1>0. \A d \in Clients : job(d)' = job(d) /\ (Is(d, "UnpublishPort")' <=> Is(d, "UnpublishPort"))
  BY Apart DEF Is
<1>1. ASSUME NEW d \in Clients, Is(d, "UnpublishPort"), d \notin disturbed'
      PROVE  /\ pc'[d] = "unpublish" => seen'[d] = Mine(d)'
             /\ pc'[d] = "error" => vm' = "none" \/ record' = "none"
  <2>1. CASE d = c
    BY <1>1, <2>1
  <2>2. CASE d # c
    <3>1. pc[d] = pc'[d] /\ seen'[d] = seen[d] /\ d \notin disturbed
      BY <1>1, <2>2, Apart
    <3>2. ASSUME pc[d] = "unpublish" PROVE seen[d] = Mine(d)'
      <4>1. d \in Busy("UnpublishPort")
        BY <1>1, <3>2 DEF Busy, Ended
      <4>2. rows' = rows
        BY <1>1, <2>2, <4>1
      <4>3. Mine(d)' = Mine(d)
        BY <1>0, <4>2 DEF Mine, dedupePorts
      <4> QED BY <1>1, <3>1, <3>2, <4>3 DEF PortsInv, Mine
    <3>3. ASSUME pc[d] = "error" PROVE vm' = "none" \/ record' = "none"
      BY <1>1, <3>1, <3>3 DEF PortsInv, Stay
    <3> QED BY <3>1, <3>2, <3>3
  <2> QED BY <2>1, <2>2
<1> QED BY <1>0, <1>1 DEF PortsInv, Mine

\* A mapping that is taken back is no longer listed.
LEMMA TakenBack ==
    ASSUME NEW rs, NEW p \in dedupePorts(rs)
    PROVE  dedupePorts({r \in rs : ~(r.guest = p.guest /\ r.host = p.host)}) = dedupePorts(rs) \ {p}
<1> DEFINE key(r) == [guest |-> r.guest, host |-> r.host]
<1>1. \A r : key(r) = p <=> r.guest = p.guest /\ r.host = p.host
  <2>1. PICK q \in rs : p = key(q)
    BY DEF dedupePorts
  <2>2. p.guest = q.guest /\ p.host = q.host
    BY <2>1
  <2>3. \A r : key(r) = key(q) <=> r.guest = q.guest /\ r.host = q.host
    OBVIOUS
  <2> QED BY <2>1, <2>2, <2>3
<1>2. \A S : dedupePorts(S) = {key(r) : r \in S}
  BY DEF dedupePorts
<1> HIDE DEF key
<1> QED BY <1>1, <1>2

\* A step of a request keeps what the others have read of the ports, or disturbs
\* them.
LEMMA PortsStep == ASSUME PathsInv, PortsInv, NEW c \in Clients, Handle(c) PROVE PortsInv'
<1>0. Along(c) /\ pc[c] \in Path(job(c).op)
  BY PathStep DEF PathsInv
<1>c. ASSUME Fault(c) PROVE disturbed \subseteq disturbed' /\ c \in disturbed'
  BY <1>c DEF Fault
<1>1. CASE Resolve(c)
  <2>1. rows' = rows /\ disturbed' = disturbed /\ vm' = vm /\ record' = record
    BY <1>1 DEF Resolve, tables, history
  <2>2. \E l \in {"error", "list", "ports", "start", "call"} :
          Goto(c, l) /\ (l = "error" => (NeedsRecord(c) /\ record = "none") \/ Refuses(c))
    <3> DEFINE m == CASE Is(c, "SetSecret") -> "list" [] Is(c, "UnpublishPort") -> "ports"
                      [] Is(c, "AgentRun") -> "start" [] OTHER -> "call"
    <3>1. (Goto(c, "error") /\ ((NeedsRecord(c) /\ record = "none") \/ Refuses(c))) \/ Goto(c, m)
      BY <1>1 DEF Resolve
    <3>2. m \in {"list", "ports", "start", "call"}
      OBVIOUS
    <3> HIDE DEF m
    <3> QED BY <3>1, <3>2
  <2>3. Is(c, "UnpublishPort") => ~Refuses(c)
    BY DEF Is, Refuses
  <2>4. pc'[c] # "unpublish" /\ (Is(c, "UnpublishPort") /\ pc'[c] = "error" => record' = "none")
    BY <2>1, <2>2, <2>3, Went
  <2> QED BY <1>0, <2>1, <2>4, PortsKept DEF Stay
<1>2. CASE Call(c)
  <2>1. pc[c] = "call"
    BY <1>2 DEF Call, At
  <2>2. ~Is(c, "UnpublishPort")
    BY <1>0, <2>1, OpOf DEF Is
  <2>3. CASE Fails(c)
    <3>1. rows' = rows /\ vm' = vm /\ record' = record /\ Fault(c)
      BY <2>3 DEF Fails, tables
    <3> QED BY <1>0, <1>c, <2>2, <3>1, PortsKept DEF Stay
  <2>4. CASE PublishPort(c)
    <3>1. /\ vm' = vm /\ record' = record /\ disturbed \subseteq disturbed'
          /\ rows' = rows \/ Busy("UnpublishPort") \subseteq disturbed'
      BY <1>2, <2>4 DEF Call, PublishPort, Fails, Disturb
    <3> QED BY <1>0, <2>2, <3>1, PortsKept DEF Stay
  <2>5. CASE /\ SetPolicy(c) \/ DeletePolicyRule(c) \/ DeleteSecret(c) \/ DeleteStoredSecret(c) \/ SaveTemplate(c)
                \/ RemoveTemplate(c) \/ Exec(c)
             /\ record' = record
    <3>1. rows' = rows /\ disturbed \subseteq disturbed' /\ (vm = "none" => vm' = "none")
      BY <2>5 DEF SetPolicy, DeletePolicyRule, DeleteSecret, DeleteStoredSecret, SaveTemplate,
         RemoveTemplate, Exec, tables, Disturb
    <3> QED BY <1>0, <2>2, <2>5, <3>1, PortsKept DEF Stay
  <2> QED BY <1>2, <2>3, <2>4, <2>5 DEF Call
<1>3. CASE AuditStep(c) \/ ListTemplates(c) \/ SetSecretList(c) \/ SetCustomFails(c)
  <2>1. rows' = rows /\ vm' = vm /\ record' = record
    BY <1>3 DEF AuditStep, ListTemplates, SetSecretList, SetCustomFails, Fails, tables
  <2>2. disturbed \subseteq disturbed' /\ pc[c] \in {"audit", "templates", "list", "set"}
    BY <1>3, <1>c DEF AuditStep, ListTemplates, SetSecretList, SetCustomFails, Fails, At
  <2>3. ~Is(c, "UnpublishPort")
    BY <1>0, <2>2, OpOf DEF Is
  <2> QED BY <1>0, <2>1, <2>2, <2>3, PortsKept DEF Stay
<1>4. CASE SetCustom(c)
  <2>1. rows' = rows /\ vm' = vm /\ record' = record /\ disturbed \subseteq disturbed' /\ pc[c] = "set"
    BY <1>4 DEF SetCustom, Disturb, At
  <2>2. ~Is(c, "UnpublishPort")
    BY <1>0, <2>1, OpOf DEF Is
  <2> QED BY <1>0, <2>1, <2>2, PortsKept DEF Stay
<1>5. CASE Ports(c)
  <2>1. rows' = rows /\ vm' = vm /\ record' = record /\ disturbed \subseteq disturbed'
    BY <1>5, <1>c DEF Ports, tables
  <2>2. \/ Goto(c, "unpublish") /\ Saw(c, Mine(c))
        \/ Goto(c, "error") /\ vm = "none"
        \/ Goto(c, "error") /\ c \in disturbed'
    BY <1>5, <1>c DEF Ports, Mine
  <2>3. Mine(c)' = Mine(c)
    BY <1>0, <2>1, Apart DEF Mine, dedupePorts
  <2> QED BY <1>0, <2>1, <2>2, <2>3, Went, PortsKept DEF Stay
<1>6. CASE Unpublish(c)
  <2>0. pc[c] = "unpublish" /\ vm' = vm /\ record' = record
    BY <1>6 DEF Unpublish, At
  <2>1. c \notin disturbed => seen[c] = Mine(c)
    <3>1. Is(c, "UnpublishPort")
      BY <1>0, <2>0, OpOf DEF Is
    <3> QED BY <2>0, <3>1 DEF PortsInv, Mine
  <2>2. CASE seen[c] = {} /\ Goto(c, "ok") /\ UNCHANGED <<seen, rows, disturbed, faults>>
    BY <1>0, <2>0, <2>2, Went, PortsKept DEF Stay
  <2>3. ASSUME NEW p \in seen[c], NEW hit, hit = {r \in rows : r.guest = p.guest /\ r.host = p.host},
               Saw(c, seen[c] \ {p}), hit # {}, rows' = rows \ hit, Disturb(Busy("UnpublishPort") \ {c}), UNCHANGED pc
        PROVE  PortsInv'
    <3>1. disturbed \subseteq disturbed' /\ Busy("UnpublishPort") \ {c} \subseteq disturbed'
      BY <2>3 DEF Disturb
    <3>2. pc'[c] = "unpublish" /\ seen'[c] = seen[c] \ {p}
      BY <2>0, <2>3, Went
    <3>3. c \notin disturbed' => seen'[c] = Mine(c)'
      <4> SUFFICES ASSUME c \notin disturbed' PROVE seen'[c] = Mine(c)'
        OBVIOUS
      <4>1. seen[c] = Mine(c)
        BY <2>1, <3>1
      <4>2. p \in dedupePorts(rows) /\ p.guest = job(c).guest
        BY <2>3, <4>1 DEF Mine
      <4>3. rows' = {r \in rows : ~(r.guest = p.guest /\ r.host = p.host)}
        BY <2>3
      <4>4. dedupePorts(rows') = dedupePorts(rows) \ {p}
        BY <4>2, <4>3, TakenBack
      <4>5. Mine(c)' = {q \in dedupePorts(rows') : q.guest = job(c).guest}
        BY <1>0, Apart DEF Mine, dedupePorts
      <4> QED BY <3>2, <4>1, <4>4, <4>5 DEF Mine
    <3> QED BY <1>0, <2>0, <3>1, <3>2, <3>3, PortsKept DEF Stay
  <2>4. ASSUME NEW p \in seen[c], {r \in rows : r.guest = p.guest /\ r.host = p.host} = {}, Goto(c, "error"),
               UNCHANGED <<rows, disturbed>>
        PROVE  PortsInv'
    <3>1. c \in disturbed
      <4> SUFFICES ASSUME c \notin disturbed PROVE FALSE
        OBVIOUS
      <4>1. p \in dedupePorts(rows)
        BY <2>1 DEF Mine
      <4>2. PICK r \in rows : p = [guest |-> r.guest, host |-> r.host]
        BY <4>1 DEF dedupePorts
      <4>3. p.guest = r.guest /\ p.host = r.host
        BY <4>2
      <4> QED BY <2>4, <4>3
    <3> QED BY <1>0, <2>0, <2>4, <3>1, PortsKept DEF Stay
  <2>5. ASSUME Goto(c, "error"), Fault(c), UNCHANGED rows PROVE PortsInv'
    BY <1>0, <1>c, <2>0, <2>5, PortsKept DEF Stay
  <2> QED BY <1>6, <2>2, <2>3, <2>4, <2>5 DEF Unpublish
<1>7. CASE AgentStart(c) \/ ExecDetached(c) \/ PollDetached(c)
  <2>1. rows' = rows /\ record' = record /\ (vm = "none" => vm' = "none")
    BY <1>7 DEF AgentStart, ExecDetached, PollDetached, tables
  <2>2. disturbed \subseteq disturbed' /\ pc[c] \in {"start", "exec", "poll"}
    BY <1>7, <1>c DEF AgentStart, ExecDetached, PollDetached, At
  <2>3. ~Is(c, "UnpublishPort")
    BY <1>0, <2>2, OpOf DEF Is
  <2> QED BY <1>0, <2>1, <2>2, <2>3, PortsKept DEF Stay
<1>8. CASE ProcExit(c)
  <2>1. UNCHANGED <<setup, pc, seen, rows, disturbed, vm, record>>
    BY <1>8 DEF ProcExit, tables, history, handlers
  <2> QED BY <2>1 DEF PortsInv, Is, job, dedupePorts
<1>9. CASE StopBegin(c) \/ StopMachine(c) \/ StopMark(c) \/ DeleteBegin(c)
  <2>1. rows' = rows /\ (record = "none" => record' = "none") /\ (vm = "none" => vm' = "none")
    BY <1>9 DEF StopBegin, StopMachine, StopMark, DeleteBegin, tables
  <2>2. disturbed \subseteq disturbed' /\ (pc[c] \in {"stop", "mark"} \/ job(c).op \in {"Stop", "Reap", "Delete"})
    BY <1>9, <1>c DEF StopBegin, StopMachine, StopMark, DeleteBegin, At, Is, history
  <2>3. ~Is(c, "UnpublishPort")
    BY <1>0, <2>2, OpOf DEF Is
  <2> QED BY <1>0, <2>1, <2>2, <2>3, PortsKept DEF Stay
<1>10. CASE Remove(c) \/ CleanList(c) \/ CleanNext(c) \/ DeleteRecord(c)
  <2>1. rows' = rows \/ Busy("UnpublishPort") \subseteq disturbed'
    BY <1>10 DEF Remove, CleanList, CleanNext, DeleteRecord, tables, Disturb
  <2>2. (record = "none" => record' = "none") /\ (vm = "none" => vm' = "none")
    BY <1>10 DEF Remove, CleanList, CleanNext, DeleteRecord
  <2>3. disturbed \subseteq disturbed' /\ pc[c] \in {"reap", "remove", "secrets", "clean", "forget"}
    BY <1>10, <1>c DEF Remove, CleanList, CleanNext, DeleteRecord, At, Disturb
  <2>4. ~Is(c, "UnpublishPort")
    BY <1>0, <2>3, OpOf DEF Is
  <2> QED BY <1>0, <2>1, <2>2, <2>3, <2>4, PortsKept DEF Stay
<1> QED BY <1>1, <1>2, <1>3, <1>4, <1>5, <1>6, <1>7, <1>8, <1>9, <1>10 DEF Handle

\* So does every step.
LEMMA PortsNext == PathsInv /\ PortsInv /\ (Next \/ Aside) => PortsInv'
<1>1. ASSUME PathsInv, PortsInv, NEW c \in Clients, Handle(c) PROVE PortsInv'
  BY <1>1, PortsStep
<1>2. ASSUME PortsInv, UNCHANGED <<setup, seen, record, rows, disturbed>>, vm = "none" => vm' = "none",
             \A c \in Clients : pc'[c] \in {"unpublish", "error"} => pc[c] = pc'[c]
      PROVE  PortsInv'
  BY <1>2 DEF PortsInv, job, Is, dedupePorts
<1>3. ASSUME PathsInv, PortsInv, Crash PROVE PortsInv'
  <2>1. UNCHANGED <<setup, seen, record, rows, disturbed, vm>>
    BY <1>3 DEF Crash, tables, history
  <2>2. \A c \in Clients : pc'[c] \in {"unpublish", "error"} => pc[c] = pc'[c]
    BY <1>3, Crashed
  <2> QED BY <1>2, <1>3, <2>1, <2>2
<1>4. ASSUME PortsInv, Tick PROVE PortsInv'
  <2>1. UNCHANGED <<setup, pc, seen, record, rows, disturbed, vm>>
    BY <1>4 DEF Tick, tables, handlers
  <2> QED BY <1>2, <1>4, <2>1
<1>5. ASSUME PortsInv, Aside PROVE PortsInv'
  <2>1. UNCHANGED <<setup, pc, seen, record, rows, disturbed>> /\ (vm = "none" => vm' = "none")
    BY <1>5 DEF Aside
  <2> QED BY <1>2, <1>5, <2>1
<1> QED BY <1>1, <1>3, <1>4, <1>5 DEF Next

-----------------------------------------------------------------------------
(* Agent runs and the reaper *)

\* Activity, and what has happened meanwhile, bring nothing closer to idle.
LEMMA ClockKept ==
    ASSUME NEW d \in Clients, ClockTypes, Clock(d), pc'[d] = pc[d], touch'[d] = touch[d],
           polled'[d] = polled[d],
           age' = age \/ age' = 0, d \in late => d \in late', record = "none" => record' = "none"
    PROVE  Clock(d)'
<1>1. age \in Nat /\ touch[d] \in Nat
  BY DEF ClockTypes
<1>2. (record # "none" /\ d \notin late /\ pc[d] \in {"exec", "poll"}) => age' <= touch[d]
  BY SMTT(60), <1>1 DEF Clock
<1>3. (record' # "none" /\ d \notin late' /\ pc'[d] \in {"exec", "poll"}) => age' <= touch'[d]
  BY <1>2
<1> QED BY <1>3 DEF Clock

\* A step that is not one of an agent run.
LEMMA ClockLeft ==
    ASSUME PathsInv, ClockInv, NEW c \in Clients, Along(c), UNCHANGED <<touch, polled>>,
           DOMAIN proc' = Clients,
           age' = age \/ age' = 0, late \subseteq late', record = "none" => record' = "none",
           pc'[c] = pc[c] \/ (pc[c] \in Idle /\ pc'[c] \in {"new", "start", "stop", "mark"})
                          \/ pc'[c] \notin Idle \cup {"poll"}
    PROVE  ClockInv'
<1>0. ClockTypes /\ \A d \in Clients : Clock(d)
  BY DEF ClockInv
<1>1. ClockTypes'
  <2>1. age' \in Nat
    BY SMTT(60), <1>0 DEF ClockTypes
  <2> QED BY <1>0, <2>1 DEF ClockTypes
<1>2. \A d \in Clients : pc'[d] = pc[d] => Clock(d)'
  BY <1>0, ClockKept
<1>3. Clock(c)'
  <2>1. CASE pc[c] \in Idle /\ pc'[c] \in {"new", "start", "stop", "mark"}
    BY <1>0, <2>1 DEF Clock
  <2>2. CASE pc'[c] \notin Idle \cup {"poll"}
    BY <2>2 DEF Clock, Idle
  <2> QED BY <1>2, <2>1, <2>2
<1>4. \A d \in Clients : Clock(d)'
  BY <1>2, <1>3, Apart
<1> QED BY <1>1, <1>4 DEF ClockInv

\* An agent run begins with its clock at zero.
LEMMA AgentClock ==
    ASSUME PathsInv, ClockInv, NEW c \in Clients, AgentStart(c) \/ ExecDetached(c) PROVE ClockInv'
<1>0. ClockTypes /\ (\A d \in Clients : Clock(d)) /\ Along(c)
  BY PathStep DEF Handle, ClockInv
<1>1. age' = age \/ age' = 0
  BY DEF AgentStart, ExecDetached, Bumped, BumpActivity
<1>2. UNCHANGED <<touch, polled, record>> /\ \A d \in late : d # c => d \in late'
  BY DEF AgentStart, ExecDetached, Bumped, runs
<1>3. DOMAIN proc' = Clients
  <2>1. proc' = proc \/ proc' = [proc EXCEPT ![c] = "running"]
    BY DEF AgentStart, ExecDetached, runs
  <2> QED BY <1>0, <2>1 DEF ClockTypes
<1>4. ClockTypes'
  <2>1. age' \in Nat
    BY SMTT(60), <1>0, <1>1 DEF ClockTypes
  <2> QED BY <1>0, <1>2, <1>3, <2>1 DEF ClockTypes
<1>5. \A d \in Clients : d # c => Clock(d)'
  BY <1>0, <1>1, <1>2, Apart, ClockKept
<1>6. Clock(c)'
  <2>1. pc[c] \in {"start", "exec"} /\ \E l \in {"exec", "poll", "error"} : Goto(c, l)
    BY DEF AgentStart, ExecDetached, At
  <2>2. touch[c] = 0 /\ polled[c] /\ pc'[c] \in {"exec", "poll", "error"}
    BY <1>0, <2>1, Went DEF Clock, Idle
  <2>3. record # "none" /\ c \notin late' /\ pc'[c] \in {"exec", "poll"} => age' <= 0
    <3>1. CASE AgentStart(c)
      <4>1. c \notin late' => age' = 0
        BY <3>1 DEF AgentStart, Bumped
      <4> QED BY SMTT(60), <4>1
    <3>2. CASE ExecDetached(c)
      <4>1. pc[c] = "exec" /\ age' = age /\ late' = late
        BY <3>2 DEF ExecDetached, At
      <4>2. record # "none" /\ c \notin late => age <= 0
        BY <1>0, <2>2, <4>1 DEF Clock
      <4> QED BY <1>2, <4>1, <4>2
    <3> QED BY <3>1, <3>2
  <2>4. touch'[c] = 0 /\ polled'[c] /\ 0 <= 1 /\ 0 <= 2
    BY SMTT(60), <1>2, <2>2
  <2>5. record' # "none" /\ c \notin late' /\ pc'[c] \in {"exec", "poll"} => age' <= touch'[c]
    BY <1>2, <2>3, <2>4
  <2> QED BY <2>4, <2>5 DEF Clock
<1>7. \A d \in Clients : Clock(d)'
  BY <1>5, <1>6
<1> QED BY <1>4, <1>7 DEF ClockInv

\* An agent run that polls bumps the activity within a tick of its last bump.
LEMMA PollClock == ASSUME PathsInv, ClockInv, NEW c \in Clients, PollDetached(c) PROVE ClockInv'
<1>0. ClockTypes /\ (\A d \in Clients : Clock(d)) /\ Along(c)
  BY PathStep DEF Handle, ClockInv
<1>1. /\ pc[c] = "poll" /\ polled' = [polled EXCEPT ![c] = TRUE]
      /\ UNCHANGED <<record, proc>> /\ \A d \in late : d # c => d \in late'
  BY DEF PollDetached, Bumped, At
<1>2. age' = age \/ age' = 0
  BY DEF PollDetached, Bumped, BumpActivity
<1>3. touch' = touch \/ touch' = [touch EXCEPT ![c] = 0]
  BY DEF PollDetached
<1>4. /\ polled' \in [Clients -> BOOLEAN] /\ polled'[c] = TRUE /\ \A d \in Clients : d # c => polled'[d] = polled[d]
  BY <1>0, <1>1 DEF ClockTypes
<1>5. /\ touch' \in [Clients -> Nat] /\ \A d \in Clients : d # c => touch'[d] = touch[d]
  BY SMTT(60), <1>0, <1>3 DEF ClockTypes
<1>6. ClockTypes'
  <2>1. age' \in Nat
    BY SMTT(60), <1>0, <1>2 DEF ClockTypes
  <2> QED BY <1>0, <1>1, <1>4, <1>5, <2>1 DEF ClockTypes
<1>7. \A d \in Clients : d # c => Clock(d)'
  BY <1>0, <1>1, <1>2, <1>4, <1>5, Apart, ClockKept
<1>8. Clock(c)'
  <2>1. CASE pc' = pc
    <3>0. pc'[c] = "poll" /\ touch[c] <= 2 /\ touch[c] \in Nat /\ age \in Nat
      BY <1>0, <1>1, <2>1 DEF Clock, ClockTypes
    <3>a. pc'[c] \notin Idle /\ pc[c] # "error" /\ pc[c] # "ok"
      BY <1>1, <2>1 DEF Idle
    <3>1. IF KeepAlive(c) THEN Bumped(c) /\ touch' = [touch EXCEPT ![c] = 0] ELSE UNCHANGED <<age, touch, late>>
      BY <1>1, <2>1, <3>a, Went DEF PollDetached
    <3>2. CASE KeepAlive(c)
      <4>1. touch'[c] = 0 /\ (c \notin late' => age' = 0)
        <5>1. touch' = [touch EXCEPT ![c] = 0] /\ touch \in [Clients -> Nat]
          BY <1>0, <3>1, <3>2 DEF ClockTypes
        <5>2. touch'[c] = 0
          BY <5>1
        <5> QED BY <3>1, <3>2, <5>2 DEF Bumped
      <4>2. 0 <= 2 /\ 0 <= 1 /\ 0 <= 0
        BY SMTT(60)
      <4> QED BY <1>1, <3>0, <3>a, <4>1, <4>2 DEF Clock
    <3>3. CASE ~KeepAlive(c)
      <4>1. touch'[c] = touch[c] /\ age' = age /\ late' = late
        BY <3>1, <3>3
      <4>2. touch[c] <= 1
        BY SMTT(60), <3>0, <3>3 DEF KeepAlive
      <4>3. record # "none" /\ c \notin late => age <= touch[c]
        BY <1>0, <1>1 DEF Clock
      <4> QED BY <1>1, <3>0, <3>a, <4>1, <4>2, <4>3 DEF Clock
    <3> QED BY <3>2, <3>3
  <2>2. CASE Goto(c, "ok") \/ Goto(c, "error")
    <3>1. pc'[c] \in {"ok", "error"}
      BY <2>2, Went
    <3> QED BY <3>1 DEF Clock, Idle
  <2> QED BY <2>1, <2>2 DEF PollDetached
<1>9. \A d \in Clients : Clock(d)'
  BY <1>7, <1>8
<1> QED BY <1>6, <1>9 DEF ClockInv

\* Time passes when every agent run has polled.
LEMMA TickClock == ASSUME ClockInv, Tick PROVE ClockInv'
<1>0. ClockTypes /\ \A d \in Clients : Clock(d)
  BY DEF ClockInv
<1>1. UNCHANGED <<pc, record, proc>> /\ late' = late \cup {c \in Clients : At(c, "exec")}
  BY DEF Tick, handlers
<1>2. age' \in Nat /\ age' <= age + 1
  BY SMTT(60), <1>0 DEF Tick, ClockTypes
<1>3. /\ touch' \in [Clients -> Nat]
      /\ \A d \in Clients : touch'[d] = IF pc[d] = "poll" /\ touch[d] < 3 THEN touch[d] + 1 ELSE touch[d]
  <2>1. touch' = [d \in Clients |-> IF pc[d] = "poll" /\ touch[d] < 3 THEN touch[d] + 1 ELSE touch[d]]
    BY DEF Tick, At
  <2>2. \A d \in Clients : touch[d] \in Nat
    BY <1>0 DEF ClockTypes
  <2> QED BY SMTT(60), <2>1, <2>2
<1>4. polled' \in [Clients -> BOOLEAN] /\ \A d \in Clients : polled'[d] <=> pc[d] # "poll"
  <2>1. polled' = [d \in Clients |-> ~(pc[d] = "poll")]
    BY DEF Tick, At
  <2> QED BY <2>1
<1>5. ClockTypes'
  BY <1>0, <1>1, <1>2, <1>3, <1>4 DEF ClockTypes
<1>6. ASSUME NEW d \in Clients PROVE Clock(d)'
  <2>0. Clock(d) /\ touch[d] \in Nat /\ age \in Nat
    BY <1>0 DEF ClockTypes
  <2>1. CASE pc[d] = "poll"
    <3>1. polled[d]
      BY <2>1 DEF Tick, At
    <3>2. touch[d] <= 1
      BY <2>0, <2>1, <3>1 DEF Clock
    <3>3. touch'[d] = touch[d] + 1 /\ touch'[d] <= 2
      BY SMTT(60), <1>3, <2>0, <2>1, <3>2
    <3>4. record # "none" /\ d \notin late => age <= touch[d]
      BY <2>0, <2>1 DEF Clock
    <3>5. record # "none" /\ d \notin late => age' <= touch'[d]
      BY SMTT(60), <1>2, <2>0, <3>3, <3>4
    <3>6. pc'[d] = "poll" /\ pc'[d] \notin Idle /\ ~polled'[d]
      BY <1>1, <1>4, <2>1 DEF Idle
    <3>7. record' # "none" /\ d \notin late' => age' <= touch'[d]
      BY <1>1, <3>5
    <3> QED BY <3>3, <3>6, <3>7 DEF Clock
  <2>2. CASE pc[d] # "poll"
    <3>1. touch'[d] = touch[d] /\ polled'[d]
      BY <1>3, <1>4, <2>2
    <3>2. pc[d] = "exec" => d \in late'
      BY <1>1 DEF At
    <3> QED BY <1>1, <2>0, <2>2, <3>1, <3>2 DEF Clock
  <2> QED BY <2>1, <2>2
<1> QED BY <1>5, <1>6 DEF ClockInv

\* A step of a request keeps the clocks.
LEMMA ClockStep == ASSUME PathsInv, ClockInv, NEW c \in Clients, Handle(c) PROVE ClockInv'
<1>0. Along(c) /\ pc[c] \in Path(job(c).op) /\ DOMAIN proc = Clients
  BY PathStep DEF PathsInv, ClockInv, ClockTypes
<1>1. CASE AgentStart(c) \/ ExecDetached(c)
  BY <1>1, AgentClock
<1>2. CASE PollDetached(c)
  BY <1>2, PollClock
<1>3. CASE Resolve(c)
  <2>1. UNCHANGED <<touch, polled, proc, late, record>> /\ pc[c] = "new"
    BY <1>3 DEF Resolve, runs, history, At
  <2>2. age' = age \/ age' = 0
    BY <1>3 DEF Resolve, BumpActivity
  <2>3. \E l \in {"error", "list", "ports", "start", "call"} : Goto(c, l)
    <3> DEFINE m == CASE Is(c, "SetSecret") -> "list" [] Is(c, "UnpublishPort") -> "ports"
                      [] Is(c, "AgentRun") -> "start" [] OTHER -> "call"
    <3>1. Goto(c, "error") \/ Goto(c, m)
      BY <1>3 DEF Resolve
    <3>2. m \in {"list", "ports", "start", "call"}
      OBVIOUS
    <3> HIDE DEF m
    <3> QED BY <3>1, <3>2
  <2>4. pc'[c] \in {"error", "list", "ports", "start", "call"}
    BY <2>3, Went
  <2>5. (pc[c] \in Idle /\ pc'[c] \in {"new", "start", "stop", "mark"}) \/ pc'[c] \notin Idle \cup {"poll"}
    BY <2>1, <2>4 DEF Idle
  <2> QED BY <1>0, <2>1, <2>2, <2>5, ClockLeft
<1>4. CASE Call(c) \/ SetCustom(c) \/ SetCustomFails(c)
  <2>1. UNCHANGED <<touch, polled, proc, late, record, age>> /\ pc[c] \in {"call", "set"}
    BY <1>4 DEF Call, SetCustom, SetCustomFails, Fails, SetPolicy, DeletePolicyRule, DeleteSecret,
       DeleteStoredSecret,
                SaveTemplate, RemoveTemplate, PublishPort, Exec, runs, At
  <2>2. \E o \in {"ok", "error"} : Answered(c, o)
    BY <1>4 DEF Call, SetCustom, SetCustomFails, Fails, SetPolicy, DeletePolicyRule, DeleteSecret,
       DeleteStoredSecret,
                SaveTemplate, RemoveTemplate, PublishPort, Exec
  <2>3. \E l \in {"audit", "ok", "error"} : Goto(c, l)
    BY <2>2 DEF Answered
  <2>4. pc'[c] \notin Idle \cup {"poll"}
    BY <2>3, Went DEF Idle
  <2> QED BY <1>0, <2>1, <2>4, ClockLeft
<1>5. CASE AuditStep(c) \/ ListTemplates(c)
  <2>1. UNCHANGED <<touch, polled, proc, late, record, age>>
    BY <1>5 DEF AuditStep, ListTemplates, runs
  <2>2. \E l \in {"templates", "ok", "error"} : Goto(c, l)
    <3>1. AuditStep(c) => outcome[c] \in {"ok", "error"}
      BY DEF AuditStep, At, PathsInv
    <3> QED BY <1>5, <3>1 DEF AuditStep, ListTemplates
  <2>3. pc'[c] \notin Idle \cup {"poll"}
    BY <2>2, Went DEF Idle
  <2> QED BY <1>0, <2>1, <2>3, ClockLeft
<1>6. CASE SetSecretList(c) \/ Ports(c) \/ Unpublish(c)
  <2>1. UNCHANGED <<touch, polled, proc, late, record, age>>
    BY <1>6 DEF SetSecretList, Ports, Unpublish, runs
  <2>2. pc' = pc \/ \E l \in {"set", "unpublish", "ok", "error"} : Goto(c, l)
    BY <1>6 DEF SetSecretList, Ports, Unpublish
  <2>3. pc'[c] = pc[c] \/ pc'[c] \notin Idle \cup {"poll"}
    BY <2>2, Went DEF Idle
  <2> QED BY <1>0, <2>1, <2>3, ClockLeft
<1>7. CASE ProcExit(c)
  <2>1. UNCHANGED <<touch, polled, late, record, age, pc>> /\ \E code : proc' = [proc EXCEPT ![c] = code]
    BY <1>7 DEF ProcExit, handlers, history
  <2>2. DOMAIN proc' = Clients
    BY <1>0, <2>1
  <2> QED BY <1>0, <2>1, <2>2, ClockLeft
<1>8. CASE StopBegin(c) \/ StopMachine(c) \/ StopMark(c)
  <2>1. UNCHANGED <<touch, polled, late, age>> /\ (record = "none" => record' = "none") /\ (proc' = proc \/ proc' = Killed)
    BY <1>8 DEF StopBegin, StopMachine, StopMark, runs, history
  <2>2. DOMAIN Killed = Clients
    BY DEF Killed
  <2>3. pc[c] \in {"new", "stop", "mark"} /\ \E l \in {"new", "stop", "mark", "ok", "error"} : Goto(c, l)
    BY <1>8 DEF StopBegin, StopMachine, StopMark, StopEnds, At
  <2>4. pc'[c] \in {"new", "stop", "mark", "ok", "error"}
    BY <2>3, Went
  <2>5. (pc[c] \in Idle /\ pc'[c] \in {"new", "start", "stop", "mark"}) \/ pc'[c] \notin Idle \cup {"poll"}
    BY <2>3, <2>4 DEF Idle
  <2>6. DOMAIN proc' = Clients
    BY <1>0, <2>1, <2>2
  <2> QED BY <1>0, <2>1, <2>5, <2>6, ClockLeft
<1>9. CASE DeleteBegin(c) \/ Remove(c) \/ CleanList(c) \/ CleanNext(c) \/ DeleteRecord(c)
  <2>1. UNCHANGED <<touch, polled, late, age>> /\ (proc' = proc \/ proc' = Killed)
    BY <1>9 DEF DeleteBegin, Remove, CleanList, CleanNext, DeleteRecord, runs, history
  <2>a. record = "none" => record' = "none"
    BY <1>9 DEF DeleteBegin, Remove, CleanList, CleanNext, DeleteRecord
  <2>2. DOMAIN Killed = Clients
    BY DEF Killed
  <2>3. pc' = pc \/ \E l \in {"reap", "remove", "secrets", "clean", "forget", "ok", "error"} : Goto(c, l)
    BY <1>9 DEF DeleteBegin, Remove, CleanList, CleanNext, DeleteRecord
  <2>4. pc'[c] = pc[c] \/ pc'[c] \notin Idle \cup {"poll"}
    BY <2>3, Went DEF Idle
  <2>5. DOMAIN proc' = Clients
    BY <1>0, <2>1, <2>2
  <2> QED BY <1>0, <2>1, <2>a, <2>4, <2>5, ClockLeft
<1> QED BY <1>1, <1>2, <1>3, <1>4, <1>5, <1>6, <1>7, <1>8, <1>9 DEF Handle

\* So does every step.
LEMMA ClockNext == PathsInv /\ ClockInv /\ (Next \/ Aside) => ClockInv'
<1>1. ASSUME PathsInv, ClockInv, NEW c \in Clients, Handle(c) PROVE ClockInv'
  BY <1>1, ClockStep
<1>2. ASSUME ClockInv, Tick PROVE ClockInv'
  BY <1>2, TickClock
<1>3. ASSUME PathsInv, ClockInv, Crash PROVE ClockInv'
  <2>1. UNCHANGED <<touch, polled, proc, late, record, age>>
    BY <1>3 DEF Crash, runs, history
  <2>2. ASSUME NEW d \in Clients PROVE Clock(d)'
    <3>0. Clock(d) /\ ClockTypes
      BY <1>3 DEF ClockInv
    <3>1. CASE pc'[d] = pc[d]
      BY <2>1, <3>0, <3>1, ClockKept
    <3>2. CASE pc'[d] = "dead"
      BY <3>2 DEF Clock, Idle
    <3>3. CASE pc'[d] = "new" /\ Is(d, "Reap")
      <4>1. pc[d] \in Idle
        BY <1>3, <3>3 DEF PathsInv, Is, Path, Idle
      <4> QED BY <2>1, <3>0, <3>3, <4>1 DEF Clock
    <3> QED BY <1>3, <3>1, <3>2, <3>3, Crashed
  <2>3. ClockTypes'
    BY <1>3, <2>1 DEF ClockInv, ClockTypes
  <2> QED BY <2>2, <2>3 DEF ClockInv
<1>4. ASSUME ClockInv, Aside PROVE ClockInv'
  <2>1. UNCHANGED <<pc, touch, polled, proc, late, record>> /\ (age' = age \/ age' = 0)
    BY <1>4 DEF Aside
  <2>2. ClockTypes'
    <3>1. age' \in Nat
      BY SMTT(60), <1>4, <2>1 DEF ClockInv, ClockTypes
    <3> QED BY <1>4, <2>1, <3>1 DEF ClockInv, ClockTypes
  <2>3. \A d \in Clients : Clock(d)'
    BY <1>4, <2>1, ClockKept DEF ClockInv
  <2> QED BY <2>2, <2>3 DEF ClockInv
<1> QED BY <1>1, <1>2, <1>3, <1>4 DEF Next

\* c has, or is about to have, a process in the machine.
Running(c) == pc[c] = "exec" \/ (pc[c] = "poll" /\ proc[c] = "running")

Listed == \E r \in Reapers : pc[r] = "stop"

\* What is late stays late while no agent run moves on.
LEMMA ReapKept ==
    ASSUME ReapInv, Listed' => Listed, late \subseteq late',
           \A d \in Clients : Running(d)' => Running(d) \/ d \in late'
    PROVE  ReapInv'
BY DEF ReapInv, Running, Listed

\* A step that neither lists the idle sandboxes nor belongs to an agent run.
LEMMA ReapLeft ==
    ASSUME PathsInv, ReapInv, NEW c \in Clients, Along(c), late \subseteq late',
           \A d \in Clients : proc'[d] = "running" => proc[d] = "running",
           pc'[c] = pc[c] \/ pc'[c] \notin {"exec", "poll", "stop"}
    PROVE  ReapInv'
<1>0. Reapers' = Reapers
  BY Apart DEF Reapers, Is
<1>1. \A d \in Clients : pc'[d] = pc[d] \/ pc'[d] \notin {"exec", "poll", "stop"}
  BY Apart
<1>2. Listed' => Listed
  BY <1>0, <1>1 DEF Listed, Reapers
<1>3. \A d \in Clients : Running(d)' => Running(d)
  BY <1>1 DEF Running
<1> QED BY <1>2, <1>3, ReapKept

\* A step of a request brings no agent run under a reaper that has seen the
\* sandbox idle.
LEMMA ReapStep == ASSUME PathsInv, ClockInv, ReapInv, NEW c \in Clients, Handle(c) PROVE ReapInv'
<1>0. Along(c) /\ pc[c] \in Path(job(c).op) /\ DOMAIN proc = Clients
  BY PathStep DEF PathsInv, ClockInv, ClockTypes
<1>a. Reapers' = Reapers
  BY <1>0, Apart DEF Reapers, Is
<1>b. \A d \in Clients : Killed[d] = "running" => proc[d] = "running"
  BY DEF Killed
<1>1. CASE AgentStart(c)
  <2>1. /\ pc[c] = "start" /\ proc' = proc /\ Goto(c, "exec")
        /\ Bumped(c)
    BY <1>1 DEF AgentStart, At, runs
  <2>2. pc'[c] = "exec"
    BY <2>1, Went
  <2>3. Listed' => Listed
    BY SMTT(60), <1>0, <1>a, <2>2, Apart DEF Listed, Reapers
  <2>4. CASE Listed'
    <3>1. c \in late' /\ late \subseteq late'
      BY <2>1, <2>3, <2>4 DEF Listed, Listing, Bumped
    <3>2. \A d \in Clients : Running(d)' => Running(d) \/ d \in late'
      BY SMTT(60), <1>0, <2>1, <3>1, Apart DEF Running
    <3> QED BY <2>3, <3>1, <3>2, ReapKept
  <2>5. CASE ~Listed'
    BY <2>5 DEF ReapInv, Listed
  <2> QED BY <2>4, <2>5
<1>2. CASE ExecDetached(c)
  <2>1. pc[c] = "exec" /\ late' = late /\ \E l \in {"poll", "error"} : Goto(c, l)
    BY <1>2 DEF ExecDetached, At
  <2>2. pc'[c] \in {"poll", "error"}
    BY <2>1, Went
  <2>3. \A d \in Clients : d # c => proc'[d] = proc[d]
    <3>1. proc' = proc \/ proc' = [proc EXCEPT ![c] = "running"]
      BY <1>2 DEF ExecDetached
    <3> QED BY <1>0, <3>1
  <2>4. Listed' => Listed
    BY SMTT(60), <1>0, <1>a, <2>2, Apart DEF Listed, Reapers
  <2>5. \A d \in Clients : Running(d)' => Running(d)
    BY <1>0, <2>1, <2>3, Apart DEF Running
  <2> QED BY <2>1, <2>4, <2>5, ReapKept
<1>3. CASE StopBegin(c)
  <2>1. UNCHANGED <<record, age, late, proc>> /\ \E l \in {"stop", "error"} : Goto(c, l)
    BY <1>3 DEF StopBegin, history, runs
  <2>2. pc'[c] \in {"stop", "error"}
    BY <2>1, Went
  <2>3. \A d \in Clients : Running(d)' => Running(d)
    BY <1>0, <2>1, <2>2, Apart DEF Running
  <2>4. CASE Is(c, "Reap")
    <3>1. record = "running" /\ age > 2
      BY <1>3, <2>4 DEF StopBegin, Is
    <3>2. ASSUME NEW d \in Clients, pc[d] \in {"exec", "poll"} PROVE d \in late
      <4>1. touch[d] \in Nat /\ age \in Nat /\ Clock(d)
        BY DEF ClockInv, ClockTypes
      <4>2. SUFFICES ASSUME d \notin late PROVE FALSE
        OBVIOUS
      <4>3. record # "none"
        BY <3>1
      <4>4. age <= touch[d]
        BY <3>2, <4>1, <4>2, <4>3 DEF Clock
      <4>5. touch[d] = 0 \/ touch[d] <= 2
        BY <3>2, <4>1 DEF Clock, Idle
      <4> QED BY SMTT(60), <3>1, <4>1, <4>4, <4>5
    <3>3. \A d \in Clients : Running(d) => d \in late
      BY <3>2 DEF Running
    <3>4. \A d \in Clients : Running(d)' => d \in late'
      BY <2>1, <2>3, <3>3
    <3> QED BY <3>4 DEF ReapInv, Running
  <2>5. CASE ~Is(c, "Reap")
    <3>1. Listed' => Listed
      BY SMTT(60), <1>0, <1>a, <2>5, Apart DEF Listed, Reapers
    <3> QED BY <2>1, <2>3, <3>1, ReapKept
  <2> QED BY <2>4, <2>5
<1>4. CASE Resolve(c)
  <2>1. UNCHANGED <<proc, late>>
    BY <1>4 DEF Resolve, runs, history
  <2>2. \E l \in {"error", "list", "ports", "start", "call"} : Goto(c, l)
    <3> DEFINE m == CASE Is(c, "SetSecret") -> "list" [] Is(c, "UnpublishPort") -> "ports"
                      [] Is(c, "AgentRun") -> "start" [] OTHER -> "call"
    <3>1. Goto(c, "error") \/ Goto(c, m)
      BY <1>4 DEF Resolve
    <3>2. m \in {"list", "ports", "start", "call"}
      OBVIOUS
    <3> HIDE DEF m
    <3> QED BY <3>1, <3>2
  <2>3. pc'[c] \notin {"exec", "poll", "stop"}
    BY <2>2, Went
  <2> QED BY <1>0, <2>1, <2>3, ReapLeft
<1>5. CASE Call(c) \/ SetCustom(c) \/ SetCustomFails(c)
  <2>1. UNCHANGED <<proc, late>>
    BY <1>5 DEF Call, SetCustom, SetCustomFails, Fails, runs
  <2>2. \E o \in {"ok", "error"} : Answered(c, o)
    BY <1>5 DEF Call, SetCustom, SetCustomFails, Fails, SetPolicy, DeletePolicyRule, DeleteSecret,
       DeleteStoredSecret,
                SaveTemplate, RemoveTemplate, PublishPort, Exec
  <2>3. \E l \in {"audit", "ok", "error"} : Goto(c, l)
    BY <2>2 DEF Answered
  <2>4. pc'[c] \notin {"exec", "poll", "stop"}
    BY <2>3, Went
  <2> QED BY <1>0, <2>1, <2>4, ReapLeft
<1>6. CASE AuditStep(c) \/ ListTemplates(c)
  <2>1. UNCHANGED <<proc, late>>
    BY <1>6 DEF AuditStep, ListTemplates, runs
  <2>2. \E l \in {"templates", "ok", "error"} : Goto(c, l)
    <3>1. AuditStep(c) => outcome[c] \in {"ok", "error"}
      BY DEF AuditStep, At, PathsInv
    <3> QED BY <1>6, <3>1 DEF AuditStep, ListTemplates
  <2>3. pc'[c] \notin {"exec", "poll", "stop"}
    BY <2>2, Went
  <2> QED BY <1>0, <2>1, <2>3, ReapLeft
<1>c. CASE PollDetached(c)
  <2>1. proc' = proc /\ (Listing => late \subseteq late')
    BY <1>c DEF PollDetached, Bumped
  <2>2. pc' = pc \/ \E l \in {"ok", "error"} : Goto(c, l)
    BY <1>c DEF PollDetached
  <2>3. pc'[c] = pc[c] \/ pc'[c] \notin {"exec", "poll", "stop"}
    BY <2>2, Went
  <2>4. Listed' => Listed
    BY SMTT(60), <1>0, <1>a, <2>3, Apart DEF Listed, Reapers
  <2>5. Listed => Listing
    BY DEF Listed, Listing
  <2>6. CASE Listing
    BY <1>0, <2>1, <2>3, <2>6, ReapLeft
  <2>7. CASE ~Listing
    BY <2>4, <2>5, <2>7 DEF ReapInv, Listed
  <2> QED BY <2>6, <2>7
<1>7. CASE SetSecretList(c) \/ Ports(c) \/ Unpublish(c)
  <2>1. UNCHANGED <<proc, late>>
    BY <1>7 DEF SetSecretList, Ports, Unpublish, runs
  <2>2. pc' = pc \/ \E l \in {"set", "unpublish", "ok", "error"} : Goto(c, l)
    BY <1>7 DEF SetSecretList, Ports, Unpublish
  <2>3. pc'[c] = pc[c] \/ pc'[c] \notin {"exec", "poll", "stop"}
    BY <2>2, Went
  <2> QED BY <1>0, <2>1, <2>3, ReapLeft
<1>8. CASE ProcExit(c)
  <2>1. UNCHANGED <<late, pc>> /\ \E code \in {"exit 0", "exit 1"} : proc' = [proc EXCEPT ![c] = code]
    BY <1>8 DEF ProcExit, handlers, history
  <2>2. \A d \in Clients : proc'[d] = "running" => proc[d] = "running"
    BY <1>0, <2>1
  <2> QED BY <1>0, <2>1, <2>2, ReapLeft
<1>9. CASE StopMachine(c) \/ StopMark(c)
  <2>1. late' = late /\ (proc' = proc \/ proc' = Killed)
    BY <1>9 DEF StopMachine, StopMark, runs, history
  <2>2. \E l \in {"new", "mark", "ok", "error"} : Goto(c, l)
    BY <1>9 DEF StopMachine, StopMark, StopEnds
  <2>3. pc'[c] \notin {"exec", "poll", "stop"}
    BY <2>2, Went
  <2> QED BY <1>0, <1>b, <2>1, <2>3, ReapLeft
<1>10. CASE DeleteBegin(c) \/ Remove(c) \/ CleanList(c) \/ CleanNext(c) \/ DeleteRecord(c)
  <2>1. late' = late /\ (proc' = proc \/ proc' = Killed)
    BY <1>10 DEF DeleteBegin, Remove, CleanList, CleanNext, DeleteRecord, runs, history
  <2>2. pc' = pc \/ \E l \in {"reap", "remove", "secrets", "clean", "forget", "ok", "error"} : Goto(c, l)
    BY <1>10 DEF DeleteBegin, Remove, CleanList, CleanNext, DeleteRecord
  <2>3. pc'[c] = pc[c] \/ pc'[c] \notin {"exec", "poll", "stop"}
    BY <2>2, Went
  <2> QED BY <1>0, <1>b, <2>1, <2>3, ReapLeft
<1> QED BY <1>1, <1>2, <1>3, <1>4, <1>5, <1>6, <1>c, <1>7, <1>8, <1>9, <1>10 DEF Handle

\* So does every step.
LEMMA ReapNext == PathsInv /\ ClockInv /\ ReapInv /\ (Next \/ Aside) => ReapInv'
<1>1. ASSUME PathsInv, ClockInv, ReapInv, NEW c \in Clients, Handle(c) PROVE ReapInv'
  BY <1>1, ReapStep
<1>2. ASSUME ReapInv, UNCHANGED <<setup, pc, proc>>, late \subseteq late' PROVE ReapInv'
  BY <1>2 DEF ReapInv, Reapers, Is, job
<1>3. ASSUME ReapInv, Tick PROVE ReapInv'
  <2>1. UNCHANGED <<setup, pc, proc>> /\ late \subseteq late'
    BY <1>3 DEF Tick, handlers
  <2> QED BY <1>2, <1>3, <2>1
<1>4. ASSUME PathsInv, ReapInv, Crash PROVE ReapInv'
  <2>1. \A c \in Clients : pc'[c] # "stop"
    BY <1>4, Crashed
  <2> QED BY <2>1 DEF ReapInv, Reapers
<1>5. ASSUME ReapInv, Aside PROVE ReapInv'
  BY <1>2, <1>5 DEF Aside
<1> QED BY <1>1, <1>3, <1>4, <1>5 DEF Next

-----------------------------------------------------------------------------

DaemonInv == PathsInv /\ SecretsInv /\ CleanInv /\ PortsInv /\ ClockInv /\ ReapInv

\* The invariant holds at first.
LEMMA DaemonInit == Init => DaemonInv
<1> SUFFICES ASSUME Init PROVE DaemonInv
  OBVIOUS
<1>1. PathsInv
  BY PathsInit
<1>2. \A c \in Clients : pc[c] = "new" /\ outcome[c] = None
  BY DEF Init
<1>3. SecretsInv
  <2>1. \A d, e \in secrets : d.scope = e.scope /\ d.env = e.env => d = e
    BY DaemonCallsAssumption DEF Init, SetupOK
  <2>2. None # "error"
    BY DaemonCallsAssumption
  <2> QED BY <1>2, <2>1, <2>2 DEF SecretsInv, RotationSucceeds
<1>4. CleanInv
  BY <1>2 DEF CleanInv
<1>5. PortsInv
  BY <1>2 DEF PortsInv
<1>6. ClockInv
  <2>1. age = 0 /\ touch = [c \in Clients |-> 0] /\ polled = [c \in Clients |-> TRUE] /\ proc = [c \in Clients |-> None]
    BY DEF Init
  <2>2. ClockTypes /\ \A c \in Clients : touch[c] = 0 /\ polled[c]
    BY <2>1 DEF ClockTypes
  <2> QED BY <1>2, <2>2 DEF ClockInv, Clock
<1>7. ReapInv
  BY <1>2 DEF ReapInv
<1> QED BY <1>1, <1>3, <1>4, <1>5, <1>6, <1>7 DEF DaemonInv

\* The requests on a sandbox keep what they have read, and what they have still
\* to do, in step with the daemon, or know that they were disturbed; whatever
\* else works on the sandbox, streams and the statistics included.
THEOREM DaemonInvariant == StreamSpec => []DaemonInv
<1>1. StreamInit => DaemonInv
  BY DaemonInit DEF StreamInit
<1>2. DaemonInv /\ [StreamNext]_allVars => DaemonInv'
  <2>1. [StreamNext]_allVars => Next \/ Aside
    BY Streaming
  <2> QED BY <2>1, PathsNext, SecretsNext, CleanNextStep, PortsNext, ClockNext, ReapNext DEF DaemonInv
<1> QED BY <1>1, <1>2, PTL DEF StreamSpec

\* The rotation of a secret goes through unless a call of it failed or the
\* scope's secrets changed while it worked, and leaves one secret for an env.
THEOREM RotationAlwaysSucceeds == StreamSpec => []RotationSucceeds
<1>1. DaemonInv => RotationSucceeds
  BY DEF DaemonInv, SecretsInv
<1> QED BY <1>1, DaemonInvariant, PTL

\* A deleted sandbox leaves no secrets behind, unless a call of the cleanup
\* failed, a SetSecret came after it, or there was no record to delete.
THEOREM NeverOrphanSecrets == StreamSpec => []NoOrphanSecrets
<1>1. DaemonInv => NoOrphanSecrets
  BY DEF DaemonInv, CleanInv, NoOrphanSecrets, InSandbox
<1> QED BY <1>1, DaemonInvariant, PTL

\* UnpublishPort takes back every mapping of the guest port, or fails because a
\* call failed or others changed the ports meanwhile.
THEOREM UnpublishIsAlwaysWhole == StreamSpec => []UnpublishIsWhole
<1>1. ASSUME DaemonInv, NEW c \in Clients, Is(c, "UnpublishPort"), record # "none", c \notin disturbed
      PROVE  /\ pc[c] = "error" => vm = "none"
             /\ pc[c] = "unpublish" /\ seen[c] = {} => \A r \in rows : r.guest # job(c).guest
  <2>1. /\ pc[c] = "unpublish" => seen[c] = {p \in dedupePorts(rows) : p.guest = job(c).guest}
        /\ pc[c] = "error" => vm = "none"
    BY <1>1 DEF DaemonInv, PortsInv
  <2>2. ASSUME NEW r \in rows PROVE \E p \in dedupePorts(rows) : p.guest = r.guest
    <3> DEFINE p == [guest |-> r.guest, host |-> r.host]
    <3>1. p \in dedupePorts(rows)
      BY DEF dedupePorts
    <3>2. p.guest = r.guest
      OBVIOUS
    <3> QED BY <3>1, <3>2
  <2> QED BY <2>1, <2>2
<1>2. DaemonInv => UnpublishIsWhole
  BY <1>1 DEF UnpublishIsWhole
<1> QED BY <1>2, DaemonInvariant, PTL

\* The reaper stops no machine under an agent run that had begun when it listed
\* the idle sandboxes and was started within a tick.
THEOREM AgentIsAlwaysSpared == StreamSpec => AgentIsSpared
<1>1. DaemonInv => [\A r \in Reapers : (pc[r] = "stop" /\ pc'[r] = "mark") =>
                      \A c \in Clients : pc[c] = "poll" /\ proc[c] = "running" => c \in late]_vars
  BY DEF DaemonInv, ReapInv
<1> QED BY <1>1, DaemonInvariant, PTL DEF AgentIsSpared

-----------------------------------------------------------------------------
(* Part 2: the answers to a review *)

\* Where a call is, and what of its own is on the forge by then: nothing until
\* its replies go out; on GitHub exactly what it has the ids of; on Gerrit,
\* between the listings, what the first one did not have, if nobody else came
\* in between.
CallInv(c) ==
    /\ ask[c] \in {"new", "read", "list", "post", "relist", "reply", "resolve", "done"}
    /\ ask[c] # "done" => answer[c] = "pending"
    /\ ask[c] \in {"new", "read", "list", "post"} => Made(c) = {}
    /\ ask[c] \in {"new", "read", "list", "post", "relist"} => created[c] = {}
    /\ ask[c] \in {"reply", "resolve"} => created[c] = Made(c)
    /\ ask[c] = "post" => IsList(sends[c])
    /\ ask[c] = "post" => pre[c] = Len(comments) \/ c \in crowded
    /\ ask[c] \in {"post", "relist"} => pre[c] \in 0..Len(comments)
    /\ ask[c] = "relist" => Made(c) \subseteq NewIds(c)
    /\ ask[c] = "relist" => NewIds(c) \subseteq Made(c) \/ c \in crowded
    /\ answer[c] = "ok" => created[c] \subseteq Made(c) \/ c \in crowded
    /\ answer[c] = "ok" => Made(c) \subseteq created[c] \/ c \in unlisted
    /\ answer[c] = "error" => Made(c) = {} \/ c \in doubtful

ReviewInv ==
    /\ review \in Reviews
    /\ IsList(comments)
    /\ ask = [c \in Calls |-> ask[c]] /\ answer = [c \in Calls |-> answer[c]]
    /\ pre = [c \in Calls |-> pre[c]] /\ sends = [c \in Calls |-> sends[c]]
    /\ created = [c \in Calls |-> created[c]]
    /\ \A c \in Calls : CallInv(c)

\* A sequence is a function on its places.
LEMMA SequenceIsFunction ==
    ASSUME NEW S, NEW s \in Seq(S)
    PROVE  Len(s) \in Nat /\ s \in [1..Len(s) -> S]
BY SMTT(60)

\* The length and the places of a list.
LEMMA ListIsCounted ==
    ASSUME NEW s, IsList(s)
    PROVE  Len(s) \in Nat /\ DOMAIN s = 1..Len(s)
BY SMTT(60) DEF IsList

\* A function on the first numbers is a list of that length.
LEMMA FunctionIsList ==
    ASSUME NEW n \in Nat, NEW s, s = [i \in 1..n |-> s[i]]
    PROVE  IsList(s) /\ Len(s) = n
<1> DEFINE S == {s[i] : i \in 1..n}
<1>1. DOMAIN s = 1..n
  OBVIOUS
<1>2. s \in [1..n -> S]
  OBVIOUS
<1>3. s \in Seq(S)
  <2> HIDE DEF S
  <2> QED BY SMTT(60), <1>2
<1>4. IsList(s)
  BY <1>1, <1>3 DEF IsList
<1>5. 1..Len(s) = 1..n /\ Len(s) \in Nat
  BY <1>1, <1>4, ListIsCounted
<1> QED BY SMTT(60), <1>4, <1>5

\* A list of one element.
LEMMA OneIsList ==
    ASSUME NEW x
    PROVE  IsList(<<x>>) /\ Len(<<x>>) = 1
BY SMTT(60) DEF IsList

\* Two lists in a row.
LEMMA ListsConcat ==
    ASSUME NEW s, NEW t, IsList(s), IsList(t)
    PROVE  /\ IsList(s \o t)
           /\ Len(s \o t) = Len(s) + Len(t)
           /\ \A i \in 1..Len(s) : (s \o t)[i] = s[i]
           /\ \A i \in Len(s) + 1..Len(s) + Len(t) : (s \o t)[i] = t[i - Len(s)]
<1> DEFINE S == {s[i] : i \in DOMAIN s} \cup {t[i] : i \in DOMAIN t}
<1>1. s \in Seq(S) /\ t \in Seq(S)
  <2>1. s \in [1..Len(s) -> S] /\ t \in [1..Len(t) -> S] /\ Len(s) \in Nat /\ Len(t) \in Nat
    <3>1. s \in [1..Len(s) -> {s[i] : i \in DOMAIN s}] /\ t \in [1..Len(t) -> {t[i] : i \in DOMAIN t}]
      BY SMTT(60) DEF IsList
    <3> QED BY <3>1, ListIsCounted
  <2> HIDE DEF S
  <2> QED BY SMTT(60), <2>1
<1> HIDE DEF S
<1>2. /\ s \o t \in Seq(S) /\ Len(s \o t) = Len(s) + Len(t)
      /\ \A i \in 1..Len(s) + Len(t) :
            (s \o t)[i] = IF i <= Len(s) THEN s[i] ELSE t[i - Len(s)]
  BY SMTT(60), <1>1
<1>3. Len(s) \in Nat /\ Len(t) \in Nat
  BY ListIsCounted
<1>4. IsList(s \o t)
  <2>1. s \o t \in [1..Len(s \o t) -> S] /\ Len(s \o t) \in Nat
    BY <1>2, SequenceIsFunction
  <2>2. s \o t = [i \in 1..Len(s \o t) |-> (s \o t)[i]]
    BY <2>1
  <2> QED BY <2>1, <2>2, FunctionIsList
<1> QED BY SMTT(60), <1>2, <1>3, <1>4

\* Comments are appended: nobody's but the author's become more.
LEMMA PostAppends ==
    ASSUME IsList(comments), NEW batch, IsList(batch), NEW who, PostComments(batch, who)
    PROVE  /\ IsList(comments') /\ Len(comments) \in Nat /\ Len(batch) \in Nat
           /\ Len(comments') = Len(comments) + Len(batch)
           /\ \A c : c # who => Made(c)' = Made(c)
           /\ Made(who)' = Made(who) \cup (Len(comments) + 1..Len(comments) + Len(batch))
<1>1. PICK new : /\ new = [k \in DOMAIN batch |-> new[k]]
                 /\ \A k \in DOMAIN batch : new[k].by = who
                 /\ comments' = comments \o new
  <2> DEFINE now == 1 + (IF comments = <<>> THEN 0 ELSE comments[Len(comments)].at)
             stamp(k) == [path |-> batch[k].path, parent |-> batch[k].parent,
                          open |-> batch[k].open, by |-> who, at |-> now]
             stamped == [k \in DOMAIN batch |-> stamp(k)]
  <2>1. comments' = comments \o stamped
    BY DEF PostComments
  <2>2. \A k : stamp(k).by = who
    OBVIOUS
  <2> HIDE DEF stamp
  <2>3. /\ stamped = [k \in DOMAIN batch |-> stamped[k]]
        /\ \A k \in DOMAIN batch : stamped[k].by = who
    BY <2>2
  <2> QED BY <2>1, <2>3
<1>2. Len(comments) \in Nat /\ Len(batch) \in Nat /\ DOMAIN batch = 1..Len(batch)
  BY ListIsCounted
<1>3. IsList(new) /\ Len(new) = Len(batch)
  BY <1>1, <1>2, FunctionIsList
<1>4. /\ IsList(comments') /\ Len(comments') = Len(comments) + Len(batch)
      /\ \A i \in 1..Len(comments) : comments'[i] = comments[i]
      /\ \A i \in Len(comments) + 1..Len(comments) + Len(batch) :
            comments'[i] = new[i - Len(comments)]
  <2> DEFINE all == comments \o new
  <2>1. /\ IsList(all) /\ Len(all) = Len(comments) + Len(new)
        /\ \A i \in 1..Len(comments) : all[i] = comments[i]
        /\ \A i \in Len(comments) + 1..Len(comments) + Len(new) : all[i] = new[i - Len(comments)]
    BY <1>3, ListsConcat
  <2>2. comments' = all
    BY <1>1
  <2> HIDE DEF all
  <2> QED BY <1>3, <2>1, <2>2
<1>5. \A i \in Len(comments) + 1..Len(comments) + Len(batch) : comments'[i].by = who
  <2> TAKE i \in Len(comments) + 1..Len(comments) + Len(batch)
  <2>1. i - Len(comments) \in 1..Len(batch)
    BY SMTT(60), <1>2
  <2> QED BY <1>1, <1>2, <1>4, <2>1
<1>6. 1..Len(comments') = (1..Len(comments)) \cup (Len(comments) + 1..Len(comments) + Len(batch))
  BY SMTT(60), <1>2, <1>4
<1>7. \A c : c # who => Made(c)' = Made(c)
  BY <1>4, <1>5, <1>6 DEF Made, Ids
<1>8. Made(who)' = Made(who) \cup (Len(comments) + 1..Len(comments) + Len(batch))
  BY <1>4, <1>5, <1>6 DEF Made, Ids
<1> QED BY <1>2, <1>4, <1>7, <1>8
-----------------------------------------------------------------------------
\* What a call relies on stays so while others go on.
Keeps(d) ==
    /\ ask'[d] = ask[d] /\ answer'[d] = answer[d] /\ created'[d] = created[d]
    /\ pre'[d] = pre[d] /\ sends'[d] = sends[d]
    /\ crowded \subseteq crowded' /\ unlisted \subseteq unlisted' /\ doubtful \subseteq doubtful'

\* A step of somebody else that posts nothing.
LEMMA OthersWait ==
    ASSUME NEW d \in Calls, CallInv(d), Keeps(d), comments' = comments
    PROVE  CallInv(d)'
<1>1. Made(d)' = Made(d) /\ NewIds(d)' = NewIds(d) /\ IsList(sends[d])' = IsList(sends[d])
  BY DEF Keeps, Made, NewIds, Ids, IsList
<1> QED BY <1>1 DEF CallInv, Keeps

\* A step of somebody else that posts comments, which the calls between their
\* listings will find.
LEMMA OthersPost ==
    ASSUME ReviewInv, NEW d \in Calls, Keeps(d), NEW batch, IsList(batch),
           NEW who, who # d, PostComments(batch, who)
    PROVE  CallInv(d)'
<1>1. CallInv(d) /\ IsList(comments)
  BY DEF ReviewInv
<1>2. /\ Made(d)' = Made(d)
      /\ Len(comments) \in Nat /\ Len(comments') \in Nat /\ Len(comments) <= Len(comments')
  <2>1. /\ Made(d)' = Made(d) /\ Len(comments) \in Nat /\ Len(batch) \in Nat
        /\ Len(comments') = Len(comments) + Len(batch)
    BY <1>1, PostAppends
  <2>2. Len(comments') \in Nat /\ Len(comments) <= Len(comments')
    BY SMTT(60), <2>1
  <2> QED BY <2>1, <2>2
<1>3. ask[d] \in {"post", "relist"} => d \in crowded'
  BY DEF PostComments
<1>4. IsList(sends[d])' = IsList(sends[d])
  BY DEF Keeps, IsList
<1>5. ask[d] = "relist" => Made(d) \subseteq NewIds(d)'
  BY SMTT(60), <1>1, <1>2 DEF CallInv, NewIds, Ids, Keeps
<1>6. ask[d] \in {"post", "relist"} => pre[d] \in 0..Len(comments')
  BY SMTT(60), <1>1, <1>2 DEF CallInv
<1> QED BY <1>1, <1>2, <1>3, <1>4, <1>5, <1>6 DEF CallInv, Keeps

\* What a step of one call leaves to show: that the lists stay lists, that
\* the other calls are left alone, and what becomes of the call itself.
Only(c) == \A d \in Calls \ {c} : Keeps(d)
Mapped ==
    /\ ask = [c \in Calls |-> ask[c]] /\ answer = [c \in Calls |-> answer[c]]
    /\ pre = [c \in Calls |-> pre[c]] /\ sends = [c \in Calls |-> sends[c]]
    /\ created = [c \in Calls |-> created[c]]

\* A step of a call that posts nothing.
LEMMA StepKeeps ==
    ASSUME ReviewInv, NEW c \in Calls, Only(c), review' = review, comments' = comments,
           Mapped', CallInv(c)'
    PROVE  ReviewInv'
<1>1. \A d \in Calls \ {c} : CallInv(d)'
  BY OthersWait DEF ReviewInv, Only
<1>2. IsList(comments)'
  BY DEF ReviewInv, IsList
<1> QED BY <1>1, <1>2 DEF ReviewInv, Mapped

\* A step of a call that posts comments.
LEMMA PostKeeps ==
    ASSUME ReviewInv, NEW c \in Calls, Only(c), review' = review,
           NEW batch, IsList(batch), PostComments(batch, c), Mapped', CallInv(c)'
    PROVE  ReviewInv'
<1>1. \A d \in Calls \ {c} : CallInv(d)'
  BY OthersPost DEF Only
<1>2. IsList(comments)'
  <2>1. IsList(comments')
    BY PostAppends DEF ReviewInv
  <2> QED BY <2>1 DEF IsList
<1> QED BY <1>1, <1>2 DEF ReviewInv, Mapped

\* The end of a call.
LEMMA FinishKeeps ==
    ASSUME ReviewInv, NEW c \in Calls, NEW how \in {"ok", "error"}, Finish(c, how),
           review' = review, comments' = comments, pre' = pre, sends' = sends,
           created' = [created EXCEPT ![c] = created'[c]],
           crowded \subseteq crowded', unlisted \subseteq unlisted', doubtful \subseteq doubtful',
           how = "ok" => /\ created'[c] \subseteq Made(c) \/ c \in crowded'
                         /\ Made(c) \subseteq created'[c] \/ c \in unlisted',
           how = "error" => Made(c) = {} \/ c \in doubtful'
    PROVE  ReviewInv'
<1>1. /\ \A d \in Calls \ {c} : created'[d] = created[d]
      /\ created' = [d \in Calls |-> created'[d]]
  BY DEF ReviewInv
<1>2. /\ \A d \in Calls \ {c} : ask'[d] = ask[d] /\ answer'[d] = answer[d]
      /\ ask'[c] = "done" /\ answer'[c] = how
      /\ ask' = [d \in Calls |-> ask'[d]] /\ answer' = [d \in Calls |-> answer'[d]]
  BY DEF Finish, ReviewInv
<1>3. Mapped'
  BY <1>1, <1>2 DEF Mapped, ReviewInv
<1>4. Only(c)
  BY <1>1, <1>2 DEF Only, Keeps
<1>5. Made(c)' = Made(c)
  BY DEF Made, Ids
<1>6. CallInv(c)'
  BY <1>2, <1>5 DEF CallInv
<1> QED BY <1>3, <1>4, <1>6, StepKeeps
-----------------------------------------------------------------------------
\* People comment or resolve.
LEMMA PeopleKeep ==
    ASSUME ReviewInv
    PROVE  /\ \A p, parent, open : HumanComments(p, parent, open) => ReviewInv'
           /\ \A r : HumanToggles(r) => ReviewInv'
<1>1. ASSUME NEW p, NEW parent, NEW open, HumanComments(p, parent, open) PROVE ReviewInv'
  <2> DEFINE batch == <<[path |-> p, parent |-> parent, open |-> open]>>
  <2>1. PostComments(batch, "human") /\ UNCHANGED <<review, callVars, unlisted, doubtful>>
    BY <1>1 DEF HumanComments
  <2>2. IsList(batch)
    BY OneIsList
  <2> HIDE DEF batch
  <2>3. crowded \subseteq crowded'
    BY <2>1 DEF PostComments
  <2>4. \A d \in Calls : Keeps(d) /\ d # "human"
    BY <2>1, <2>3, ReviewAssumption DEF Keeps, callVars
  <2>5. \A d \in Calls : CallInv(d)'
    BY <2>1, <2>2, <2>4, OthersPost
  <2>6. IsList(comments)'
    <3>1. IsList(comments')
      BY <2>1, <2>2, PostAppends DEF ReviewInv
    <3> QED BY <3>1 DEF IsList
  <2> QED BY <2>1, <2>5, <2>6 DEF ReviewInv, callVars
<1>2. ASSUME NEW r, HumanToggles(r) PROVE ReviewInv'
  <2>1. UNCHANGED <<review, comments, callVars, reviewHistory>>
    BY <1>2 DEF HumanToggles
  <2>2. \A d \in Calls : Keeps(d)
    BY <2>1 DEF Keeps, callVars, reviewHistory
  <2>3. \A d \in Calls : CallInv(d)'
    BY <2>1, <2>2, OthersWait DEF ReviewInv
  <2> QED BY <2>1, <2>3 DEF ReviewInv, callVars, IsList
<1> QED BY <1>1, <1>2

\* A call starts, or ends before its first request.
LEMMA BeginKeeps ==
    ASSUME ReviewInv, NEW c \in Calls, Begin(c)
    PROVE  ReviewInv'
<1>1. CallInv(c) /\ Mapped /\ ask[c] = "new" /\ Made(c) = {} /\ created[c] = {} /\ answer[c] = "pending"
  BY DEF ReviewInv, CallInv, Begin, Mapped
<1>2. CASE Finish(c, "error") /\ UNCHANGED sends
  <2>1. created' = [created EXCEPT ![c] = created'[c]]
    BY <1>1 DEF Begin, Mapped
  <2> QED BY <1>1, <1>2, <2>1, FinishKeeps DEF Begin, forgeVars, reviewHistory
<1>3. CASE /\ \E a \in {"read", "list", "reply"} : ask' = [ask EXCEPT ![c] = a]
           /\ \E a : sends' = [sends EXCEPT ![c] = a]
           /\ UNCHANGED answer
  <2>1. Mapped' /\ ask'[c] \in {"read", "list", "reply"}
    BY <1>1, <1>3 DEF Mapped, Begin
  <2>2. Only(c)
    BY <1>1, <1>3 DEF Only, Keeps, Begin, reviewHistory, Mapped
  <2>3. Made(c)' = Made(c)
    BY DEF Made, Ids, Begin, forgeVars
  <2>4. CallInv(c)'
    BY <1>1, <1>3, <2>1, <2>3 DEF CallInv, Begin
  <2> QED BY <2>1, <2>2, <2>4, StepKeeps DEF Begin, forgeVars
<1> QED BY <1>2, <1>3 DEF Begin

\* A read makes no comment.
LEMMA ReadKeeps ==
    ASSUME ReviewInv, NEW c \in Calls, GerritRead(c) \/ GithubRead(c)
    PROVE  ReviewInv'
<1>1. /\ ask[c] = "read" /\ Finish(c, "ok")
      /\ UNCHANGED <<review, forgeVars, pre, sends, created, reviewHistory>>
  BY DEF GerritRead, GithubRead
<1>2. Made(c) = {} /\ created[c] = {} /\ created' = [created EXCEPT ![c] = created'[c]]
  BY <1>1 DEF ReviewInv, CallInv
<1> QED BY <1>1, <1>2, FinishKeeps DEF forgeVars, reviewHistory

\* The review that is composed is a list.
LEMMA ComposedIsList ==
    ASSUME NEW c \in Calls, NEW t, NEW w \in InOrder(c)
    PROVE  IsList(Compose(c, t, w))
<1>1. PICK n \in 0..Len(Replies(c)) : w \in [1..n -> Worded(c)]
  BY DEF InOrder
<1>2. n \in Nat
  BY SMTT(60), <1>1
<1>3. DOMAIN w = 1..n
  BY <1>1
<1>4. Compose(c, t, w) = [k \in 1..n |-> Compose(c, t, w)[k]]
  BY <1>3 DEF Compose
<1> QED BY <1>2, <1>4, FunctionIsList

\* The first listing.
LEMMA ListKeeps ==
    ASSUME ReviewInv, NEW c \in Calls, GerritList(c)
    PROVE  ReviewInv'
<1>1. /\ CallInv(c) /\ Mapped /\ ask[c] = "list" /\ Made(c) = {} /\ created[c] = {}
      /\ answer[c] = "pending" /\ IsList(comments)
  BY DEF ReviewInv, CallInv, GerritList, Mapped
<1>2. CASE (Finish(c, "error") \/ Finish(c, "ok")) /\ UNCHANGED <<pre, sends>>
  <2>1. created' = [created EXCEPT ![c] = created'[c]]
    BY <1>1 DEF GerritList, Mapped
  <2>2. UNCHANGED <<review, comments, pre, sends, created, crowded, unlisted, doubtful>>
    BY <1>2 DEF GerritList, forgeVars, reviewHistory
  <2> QED BY <1>1, <1>2, <2>1, <2>2, FinishKeeps
<1>3. CASE \E t \in gerritThreads(Len(comments)), w \in InOrder(c) :
             /\ pre' = [pre EXCEPT ![c] = Len(comments)]
             /\ sends' = [sends EXCEPT ![c] = Compose(c, t, w)]
             /\ ask' = [ask EXCEPT ![c] = "post"]
             /\ UNCHANGED answer
  <2>1. PICK t \in gerritThreads(Len(comments)), w \in InOrder(c) :
           /\ pre' = [pre EXCEPT ![c] = Len(comments)]
           /\ sends' = [sends EXCEPT ![c] = Compose(c, t, w)]
           /\ ask' = [ask EXCEPT ![c] = "post"]
           /\ UNCHANGED answer
    BY <1>3
  <2>2. UNCHANGED <<review, comments, created, crowded, unlisted, doubtful>>
    BY DEF GerritList, forgeVars, reviewHistory
  <2>3. Mapped' /\ ask'[c] = "post" /\ pre'[c] = Len(comments) /\ sends'[c] = Compose(c, t, w)
    BY <1>1, <2>1, <2>2 DEF Mapped
  <2>4. Only(c)
    BY <1>1, <2>1, <2>2 DEF Only, Keeps, Mapped
  <2>5. Made(c)' = Made(c)
    BY <2>2 DEF Made, Ids
  <2>6. IsList(sends[c])'
    <3>1. IsList(Compose(c, t, w))
      BY ComposedIsList
    <3> QED BY <2>3, <3>1 DEF IsList
  <2>7. Len(comments) \in 0..Len(comments)
    <3>1. Len(comments) \in Nat
      BY <1>1, ListIsCounted
    <3> QED BY SMTT(60), <3>1
  <2>8. CallInv(c)'
    BY <1>1, <2>1, <2>2, <2>3, <2>5, <2>6, <2>7 DEF CallInv
  <2> QED BY <2>2, <2>3, <2>4, <2>8, StepKeeps
<1> QED BY <1>2, <1>3 DEF GerritList

\* The call posts its review: every new comment is its own.
LEMMA GerritPostKeeps ==
    ASSUME ReviewInv, NEW c \in Calls, GerritPost(c)
    PROVE  ReviewInv'
<1>1. /\ CallInv(c) /\ Mapped /\ ask[c] = "post" /\ Made(c) = {} /\ created[c] = {}
      /\ answer[c] = "pending" /\ IsList(comments) /\ IsList(sends[c])
      /\ pre[c] \in 0..Len(comments) /\ (pre[c] = Len(comments) \/ c \in crowded)
  BY DEF ReviewInv, CallInv, GerritPost, Mapped
<1>2. PostComments(sends[c], c) /\ UNCHANGED <<review, pre, sends, created, unlisted>>
  BY DEF GerritPost
<1>3. crowded \subseteq crowded'
  BY <1>2 DEF PostComments
<1> DEFINE posted == Len(comments) + 1..Len(comments) + Len(sends[c])
<1>4. /\ Len(comments) \in Nat /\ Len(sends[c]) \in Nat
      /\ Len(comments') = Len(comments) + Len(sends[c]) /\ Made(c)' = posted
  <2>1. /\ Len(comments) \in Nat /\ Len(sends[c]) \in Nat
        /\ Len(comments') = Len(comments) + Len(sends[c]) /\ Made(c)' = Made(c) \cup posted
    BY <1>1, <1>2, PostAppends
  <2> HIDE DEF posted
  <2> QED BY <1>1, <2>1
<1>5. pre[c] \in 0..Len(comments') /\ posted \subseteq 1..Len(comments') \ 1..pre[c]
  BY SMTT(60), <1>1, <1>4
<1>6. pre[c] = Len(comments) => 1..Len(comments') \ 1..pre[c] \subseteq posted
  BY SMTT(60), <1>4
<1>7. NewIds(c)' = 1..Len(comments') \ 1..pre[c]
  BY <1>2 DEF NewIds, Ids
<1> HIDE DEF posted
<1>8. CASE ask' = [ask EXCEPT ![c] = "relist"] /\ UNCHANGED <<answer, doubtful>>
  <2>1. Mapped' /\ ask'[c] = "relist"
    BY <1>1, <1>2, <1>8 DEF Mapped
  <2>2. Only(c)
    BY <1>1, <1>2, <1>3, <1>8 DEF Only, Keeps, Mapped
  <2>3. CallInv(c)'
    BY <1>1, <1>2, <1>3, <1>4, <1>5, <1>6, <1>7, <1>8, <2>1 DEF CallInv
  <2> QED BY <1>1, <1>2, <2>1, <2>2, <2>3, PostKeeps
<1>9. CASE Finish(c, "error") /\ doubtful' = doubtful \cup {c}
  <2>1. Mapped' /\ ask'[c] = "done" /\ answer'[c] = "error"
    BY <1>1, <1>2, <1>9 DEF Mapped, Finish
  <2>2. Only(c)
    BY <1>1, <1>2, <1>3, <1>9 DEF Only, Keeps, Mapped, Finish
  <2>3. CallInv(c)'
    BY <1>9, <2>1 DEF CallInv
  <2> QED BY <1>1, <1>2, <2>1, <2>2, <2>3, PostKeeps
<1> QED BY <1>8, <1>9 DEF GerritPost

\* The second listing, whether it succeeds or fails.
LEMMA RelistKeeps ==
    ASSUME ReviewInv, NEW c \in Calls, GerritRelist(c) \/ GerritRelistFails(c)
    PROVE  ReviewInv'
<1>1. /\ ask[c] = "relist" /\ Finish(c, "ok")
      /\ UNCHANGED <<review, comments, pre, sends, crowded, doubtful>>
  BY DEF GerritRelist, GerritRelistFails, forgeVars, reviewHistory
<1>2. /\ Mapped /\ created[c] = {} /\ Made(c) \subseteq NewIds(c)
      /\ NewIds(c) \subseteq Made(c) \/ c \in crowded
  BY <1>1 DEF ReviewInv, CallInv, Mapped
<1>3. CASE GerritRelist(c)
  <2>1. /\ created' = [created EXCEPT ![c] = created'[c]] /\ created'[c] = NewIds(c)
        /\ unlisted' = unlisted
    BY <1>2, <1>3 DEF GerritRelist, Mapped, reviewHistory
  <2> QED BY <1>1, <1>2, <2>1, FinishKeeps
<1>4. CASE GerritRelistFails(c)
  <2>1. /\ created' = [created EXCEPT ![c] = created'[c]] /\ created'[c] = {}
        /\ unlisted' = unlisted \cup {c}
    BY <1>2, <1>4 DEF GerritRelistFails, Mapped
  <2> QED BY <1>1, <1>2, <2>1, FinishKeeps
<1> QED BY <1>3, <1>4

\* A call gives up: it is doubtful if anything of its own is there.
LEMMA GivingUpKeeps ==
    ASSUME ReviewInv, NEW c \in Calls, GithubGivesUp(c),
           UNCHANGED <<review, comments, pre, sends, crowded, unlisted>>,
           doubtful' = IF Made(c) = {} THEN doubtful ELSE doubtful \cup {c}
    PROVE  ReviewInv'
<1>1. created' = [created EXCEPT ![c] = created'[c]]
  BY DEF ReviewInv, GithubGivesUp
<1>2. doubtful \subseteq doubtful' /\ (Made(c) = {} \/ c \in doubtful')
  OBVIOUS
<1> QED BY <1>1, <1>2, FinishKeeps DEF GithubGivesUp

\* Going on with the next mutation.
LEMMA AdvanceMoves ==
    ASSUME Mapped, NEW c \in Calls, NEW from, Advance(c, from)
    PROVE  /\ ask' = [d \in Calls |-> ask'[d]] /\ ask'[c] \in {"reply", "resolve"}
           /\ sends' = [d \in Calls |-> sends'[d]]
           /\ \A d \in Calls \ {c} : ask'[d] = ask[d] /\ sends'[d] = sends[d]
<1>1. CASE ask' = [ask EXCEPT ![c] = "resolve"] /\ sends' = sends
  BY <1>1 DEF Mapped
<1>2. CASE ask' = [ask EXCEPT ![c] = "reply"] /\ sends' = [sends EXCEPT ![c] = Tail(@)]
  BY <1>2 DEF Mapped
<1> QED BY <1>1, <1>2 DEF Advance

\* A reply is skipped or a thread is resolved: no comment is made.
LEMMA AdvanceKeeps ==
    ASSUME ReviewInv, NEW c \in Calls, ask[c] \in {"reply", "resolve"}, NEW from, Advance(c, from),
           UNCHANGED <<review, comments, pre, created, answer, crowded, unlisted, doubtful>>
    PROVE  ReviewInv'
<1>1. Mapped /\ created[c] = Made(c) /\ answer[c] = "pending"
  BY DEF ReviewInv, CallInv, Mapped
<1>2. /\ Mapped' /\ ask'[c] \in {"reply", "resolve"}
      /\ \A d \in Calls \ {c} : ask'[d] = ask[d] /\ sends'[d] = sends[d]
  BY <1>1, AdvanceMoves DEF Mapped
<1>3. Only(c)
  BY <1>2 DEF Only, Keeps
<1>4. Made(c)' = Made(c)
  BY DEF Made, Ids
<1>5. CallInv(c)'
  BY <1>1, <1>2, <1>4 DEF CallInv
<1> QED BY <1>2, <1>3, <1>5, StepKeeps

\* A reply: the comment that is made is the one whose id comes back, unless
\* the answer is lost.
LEMMA ReplyKeeps ==
    ASSUME ReviewInv, NEW c \in Calls, GithubReply(c)
    PROVE  ReviewInv'
<1> DEFINE r == Head(sends[c])
           batch == <<[path |-> comments[r.thread].path, parent |-> r.thread, open |-> TRUE]>>
<1>1. /\ Mapped /\ ask[c] = "reply" /\ created[c] = Made(c) /\ answer[c] = "pending"
      /\ IsList(comments)
  BY DEF ReviewInv, CallInv, GithubReply, Mapped
<1>2. UNCHANGED <<review, pre, unlisted>>
  BY DEF GithubReply
<1>3. CASE Advance(c, "reply") /\ UNCHANGED <<comments, crowded, created, answer, doubtful>>
  BY <1>1, <1>2, <1>3, AdvanceKeeps
<1>4. CASE /\ GithubGivesUp(c) /\ UNCHANGED <<comments, crowded, sends>>
           /\ doubtful' = IF Made(c) = {} THEN doubtful ELSE doubtful \cup {c}
  BY <1>2, <1>4, GivingUpKeeps
<1>5. IsList(batch) /\ Len(batch) = 1
  BY OneIsList
<1> HIDE DEF batch
<1>6. ASSUME PostComments(batch, c)
      PROVE  crowded \subseteq crowded' /\ Made(c)' = Made(c) \cup {Len(comments) + 1}
  <2>1. /\ Len(comments) \in Nat
        /\ Made(c)' = Made(c) \cup (Len(comments) + 1..Len(comments) + Len(batch))
    BY <1>1, <1>5, <1>6, PostAppends
  <2>2. Len(comments) + 1..Len(comments) + Len(batch) = {Len(comments) + 1}
    BY SMTT(60), <1>5, <2>1
  <2> QED BY <1>6, <2>1, <2>2 DEF PostComments
<1>7. CASE /\ PostComments(batch, c)
           /\ created' = [created EXCEPT ![c] = @ \cup {Len(comments) + 1}]
           /\ Advance(c, "reply") /\ UNCHANGED <<answer, doubtful>>
  <2>1. /\ created' = [d \in Calls |-> created'[d]]
        /\ created'[c] = created[c] \cup {Len(comments) + 1}
        /\ \A d \in Calls \ {c} : created'[d] = created[d]
    BY <1>1, <1>7 DEF Mapped
  <2>2. /\ Mapped' /\ ask'[c] \in {"reply", "resolve"}
        /\ \A d \in Calls \ {c} : ask'[d] = ask[d] /\ sends'[d] = sends[d]
    BY <1>1, <1>2, <1>7, <2>1, AdvanceMoves DEF Mapped
  <2>3. Only(c)
    BY <1>2, <1>6, <1>7, <2>1, <2>2 DEF Only, Keeps
  <2>4. CallInv(c)'
    BY <1>1, <1>6, <1>7, <2>1, <2>2 DEF CallInv
  <2> QED BY <1>2, <1>5, <1>7, <2>2, <2>3, <2>4, PostKeeps
<1>8. CASE /\ PostComments(batch, c) /\ GithubGivesUp(c)
           /\ doubtful' = doubtful \cup {c} /\ UNCHANGED sends
  <2>1. Mapped' /\ ask'[c] = "done" /\ answer'[c] = "error"
    BY <1>1, <1>2, <1>8 DEF Mapped, GithubGivesUp, Finish
  <2>2. Only(c)
    BY <1>1, <1>2, <1>6, <1>8 DEF Only, Keeps, Mapped, GithubGivesUp, Finish
  <2>3. CallInv(c)'
    BY <1>8, <2>1 DEF CallInv
  <2> QED BY <1>2, <1>5, <1>8, <2>1, <2>2, <2>3, PostKeeps
<1> QED BY <1>3, <1>4, <1>7, <1>8 DEF GithubReply, batch

\* A thread is resolved, or the mutation fails.
LEMMA ResolveKeeps ==
    ASSUME ReviewInv, NEW c \in Calls, GithubResolve(c)
    PROVE  ReviewInv'
<1>1. ask[c] = "resolve" /\ UNCHANGED <<review, comments, pre, crowded, unlisted>>
  BY DEF GithubResolve
<1>2. CASE /\ GithubGivesUp(c) /\ UNCHANGED sends
           /\ doubtful' = IF Made(c) = {} THEN doubtful ELSE doubtful \cup {c}
  BY <1>1, <1>2, GivingUpKeeps
<1>3. CASE Advance(c, "resolve") /\ UNCHANGED <<created, answer, doubtful>>
  BY <1>1, <1>3, AdvanceKeeps
<1> QED BY <1>2, <1>3 DEF GithubResolve

\* Every reply has gone out.
LEMMA EndKeeps ==
    ASSUME ReviewInv, NEW c \in Calls, GithubEnds(c)
    PROVE  ReviewInv'
<1>1. /\ ask[c] = "reply" /\ Finish(c, "ok")
      /\ UNCHANGED <<review, comments, pre, sends, created, crowded, unlisted, doubtful>>
  BY DEF GithubEnds, forgeVars, reviewHistory
<1>2. created[c] = Made(c) /\ created' = [created EXCEPT ![c] = created'[c]]
  BY <1>1 DEF ReviewInv, CallInv
<1> QED BY <1>1, <1>2, FinishKeeps

\* At first nobody but people has commented.
LEMMA ReviewStarts ==
    ASSUME ReviewInit
    PROVE  ReviewInv
<1>1. IsList(comments) /\ \A i \in DOMAIN comments : comments[i].by \notin Calls
  BY ReviewAssumption DEF ReviewInit
<1>2. \A c \in Calls : Made(c) = {}
  BY <1>1, ListIsCounted DEF Made, Ids
<1> QED BY <1>1, <1>2 DEF ReviewInit, ReviewInv, CallInv

\* Every call stays within what its place in its requests allows.
THEOREM ReviewInvariant == ReviewSpec => []ReviewInv
<1>1. ReviewInit => ReviewInv
  BY ReviewStarts
<1>2. ASSUME ReviewInv, [ReviewNext]_reviewVars
      PROVE  ReviewInv'
  <2>1. ASSUME NEW p, NEW i, NEW open, HumanComments(p, i, open) PROVE ReviewInv'
    BY <1>2, <2>1, PeopleKeep
  <2>2. ASSUME NEW r, HumanToggles(r) PROVE ReviewInv'
    BY <1>2, <2>2, PeopleKeep
  <2>3. ASSUME NEW c \in Calls, Begin(c) \/ GerritRead(c) \/ GithubRead(c) PROVE ReviewInv'
    BY <1>2, <2>3, BeginKeeps, ReadKeeps
  <2>4. ASSUME NEW c \in Calls,
               GerritList(c) \/ GerritPost(c) \/ GerritRelist(c) \/ GerritRelistFails(c)
        PROVE  ReviewInv'
    BY <1>2, <2>4, ListKeeps, GerritPostKeeps, RelistKeeps
  <2>5. ASSUME NEW c \in Calls, GithubReply(c) \/ GithubResolve(c) \/ GithubEnds(c)
        PROVE  ReviewInv'
    BY <1>2, <2>5, ReplyKeeps, ResolveKeeps, EndKeeps
  <2>6. ASSUME NEW c \in Calls, RequestFails(c) PROVE ReviewInv'
    BY <1>2, <2>6, GivingUpKeeps DEF RequestFails, forgeVars
  <2>7. CASE UNCHANGED reviewVars
    <3>1. \A d \in Calls : Keeps(d)
      BY <2>7 DEF Keeps, reviewVars, callVars, reviewHistory
    <3>2. \A d \in Calls : CallInv(d)'
      BY <1>2, <2>7, <3>1, OthersWait DEF ReviewInv, reviewVars, forgeVars
    <3> QED BY <1>2, <2>7, <3>2 DEF ReviewInv, reviewVars, callVars, forgeVars, IsList
  <2> QED BY <1>2, <2>1, <2>2, <2>3, <2>4, <2>5, <2>6, <2>7 DEF ReviewNext
<1> QED BY <1>1, <1>2, PTL DEF ReviewSpec

\* The ids ResolveThreads returns are its own comments, all of them, for any
\* number of calls and comments (gitprovider/review.go:114-116): AnswersAreOwn.
THEOREM AnswersAreAlwaysOwn == ReviewSpec => []AnswersAreOwn
<1>1. ReviewInv => AnswersAreOwn
  BY DEF ReviewInv, CallInv, AnswersAreOwn
<1> QED BY <1>1, ReviewInvariant, PTL
=============================================================================
