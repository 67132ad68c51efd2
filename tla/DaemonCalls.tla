---------------------------- MODULE DaemonCalls -----------------------------
(***************************************************************************)
(* The requests that work on one sandbox through the sbx daemon: secrets,  *)
(* policies, ports, templates, exec and agent runs, stop, idle reaping and *)
(* delete (internal/apiserver: policyservice, sandboxservice, nodeservice; *)
(* internal/sandbox: manager, sdkbackend; internal/audit).                 *)
(*                                                                         *)
(* A handler reads the record, makes its daemon calls one after the other  *)
(* and appends to the audit log; the handlers of several requests          *)
(* interleave between these steps.  The daemon's own tables are modelled   *)
(* from how the backend uses them.  Time passes in ticks of half the idle  *)
(* timeout.                                                                *)
(***************************************************************************)
EXTENDS Naturals, FiniteSets

CONSTANTS
    Clients,     \* requests, one goroutine each
    Setups,      \* what a behaviour starts from, see SetupOK
    MaxFaults,   \* daemon calls and puts that fail
    None

Scopes == {"sandbox", "node"}
Audited == {"SetSecret", "DeleteSecret", "DeleteStoredSecret", "SetPolicy", "DeletePolicyRule",
            "SaveTemplate", "RemoveTemplate"}
Ops == Audited \cup {"PublishPort", "UnpublishPort", "Exec", "AgentRun", "Stop", "Reap", "Delete", "None"}

\* jobs gives every client its request; drops: this daemon forgets a sandbox's
\* secrets with the sandbox; timed: time passes.  The daemon has one secret for
\* an env of a scope.
SetupOK(s) ==
    /\ \A c \in Clients : s.jobs[c].op \in Ops
    /\ s.record \in {"running", "stopped", "none"} /\ s.vm \in {"running", "stopped", "none"}
    /\ s.drops \in BOOLEAN /\ s.timed \in BOOLEAN /\ s.crash \in BOOLEAN
    /\ \A d, e \in s.secrets : d.scope = e.scope /\ d.env = e.env => d = e

ASSUME DaemonCallsAssumption ==
    /\ MaxFaults \in Nat /\ None # "error"
    /\ \A s \in Setups : SetupOK(s)

VARIABLES
    setup,
    pc, seen, outcome,  \* a handler: step, what it read, what the daemon answered
    record,             \* the record's status, "none" when there is no record
    age,                \* ticks since LastActivity
    audit,              \* the audit log: entries <<client, outcome>>
    vm,                 \* the machine under the sandbox's name
    secrets,            \* custom secrets [scope, env, host, token]
    stored,             \* stored secrets [scope, name]
    rules, images,      \* policy rules [scope, host, decision], template tags
    rows,               \* port rows [guest, host, ip]
    fresh,              \* the next placeholder or host port
    proc, touch, polled, \* an agent run: its process, ticks since its bump, poll in this tick
    faults,
    disturbed,          \* history: handlers whose call failed, or what they had read was changed
    orphaned,           \* history: secrets may outlive the sandbox, see Excuse
    late                \* history: agent runs whose activity the reaper may not see, see Bumped

handlers == <<pc, seen, outcome>>
tables == <<secrets, stored, rules, images, rows, fresh>>
runs == <<proc, touch, polled>>
history == <<disturbed, orphaned, late>>
vars == <<setup, handlers, record, age, audit, vm, tables, runs, faults, history>>

Init ==
    /\ setup \in Setups
    /\ pc = [c \in Clients |-> "new"]
    /\ seen = [c \in Clients |-> {}] /\ outcome = [c \in Clients |-> None]
    /\ record = setup.record /\ vm = setup.vm
    /\ age = 0 /\ audit = {}
    /\ secrets = setup.secrets /\ rows = setup.rows /\ fresh = 2
    /\ stored = setup.stored /\ rules = {} /\ images = {}
    /\ proc = [c \in Clients |-> None] /\ touch = [c \in Clients |-> 0]
    /\ polled = [c \in Clients |-> TRUE]
    /\ faults = 0
    /\ disturbed = {} /\ orphaned = FALSE /\ late = {}

-----------------------------------------------------------------------------
job(c) == setup.jobs[c]
Is(c, op) == job(c).op = op
At(c, label) == pc[c] = label
Goto(c, label) == pc' = [pc EXCEPT ![c] = label]
Saw(c, x) == seen' = [seen EXCEPT ![c] = x]
Outcome(c, o) == outcome' = [outcome EXCEPT ![c] = o]
Ended == {"ok", "error", "dead"}

\* A daemon call may fail.
Fault(c) ==
    /\ faults < MaxFaults /\ faults' = faults + 1
    /\ disturbed' = disturbed \cup {c}

\* History: the tables the others have read are not what they were.
Disturb(others) == disturbed' = disturbed \cup others

Busy(op) == {c \in Clients : Is(c, op) /\ pc[c] \notin {"new"} \cup Ended}
Setting(scope) == {c \in Busy("SetSecret") : job(c).scope = scope}

-----------------------------------------------------------------------------
(***************************************************************************)
(* The record first.  The scope "node" needs none.                         *)
(***************************************************************************)
NeedsRecord(c) ==
    /\ job(c).op \notin {"DeleteStoredSecret", "RemoveTemplate"}
    /\ ~(job(c).op \in {"SetSecret", "DeleteSecret", "SetPolicy", "DeletePolicyRule"} /\ job(c).scope = "node")

\* SaveTemplate refuses a running sandbox.
Refuses(c) == Is(c, "SaveTemplate") /\ record = "running"

\* Activity is a put of the record, whose error every caller ignores.
BumpActivity(after) ==
    \/ age' = (IF record = "none" THEN age ELSE 0) /\ after = faults
    \/ record # "none" /\ faults < MaxFaults /\ after = faults + 1 /\ UNCHANGED age

\* Exec and AgentRun count as activity when they begin.
Resolve(c) ==
    /\ At(c, "new") /\ job(c).op \notin {"Stop", "Reap", "Delete", "None"}
    /\ IF (NeedsRecord(c) /\ record = "none") \/ Refuses(c)
       THEN Goto(c, "error") /\ UNCHANGED <<age, faults>>
       ELSE /\ Goto(c, CASE Is(c, "SetSecret") -> "list" [] Is(c, "UnpublishPort") -> "ports"
                         [] Is(c, "AgentRun") -> "start" [] OTHER -> "call")
            /\ IF Is(c, "Exec") THEN BumpActivity(faults') ELSE UNCHANGED <<age, faults>>
    /\ UNCHANGED <<setup, seen, outcome, record, audit, vm, tables, runs, history>>

-----------------------------------------------------------------------------
(***************************************************************************)
(* Requests of one daemon call, and how they end.                          *)
(***************************************************************************)
\* The audit entry, whose error is ignored, and then the answer.
AuditStep(c) ==
    /\ At(c, "audit")
    /\ \/ audit' = audit \cup {<<c, outcome[c]>>} /\ UNCHANGED <<faults, disturbed>>
       \/ Fault(c) /\ UNCHANGED audit
    /\ Goto(c, IF Is(c, "RemoveTemplate") /\ outcome[c] = "ok" THEN "templates" ELSE outcome[c])
    /\ UNCHANGED <<setup, seen, outcome, record, age, vm, tables, runs, orphaned, late>>

\* RemoveTemplate answers with what is left; when the listing fails it answers
\* an error though the image is gone.
ListTemplates(c) ==
    /\ At(c, "templates")
    /\ \/ Goto(c, "ok") /\ UNCHANGED <<faults, disturbed>>
       \/ Goto(c, "error") /\ Fault(c)
    /\ UNCHANGED <<setup, seen, outcome, record, age, audit, vm, tables, runs, orphaned, late>>

\* The daemon has answered o.
Answered(c, o) ==
    /\ Outcome(c, o)
    /\ Goto(c, IF job(c).op \in Audited THEN "audit" ELSE o)

Fails(c) ==
    /\ Answered(c, "error") /\ Fault(c)
    /\ UNCHANGED <<setup, seen, record, age, audit, vm, tables, runs, orphaned, late>>

\* PolicyAllow and PolicyDeny; PolicyRemoveRule.
SetPolicy(c) ==
    /\ Is(c, "SetPolicy") /\ Answered(c, "ok")
    /\ rules' = rules \cup {[scope |-> job(c).scope, host |-> job(c).host, decision |-> job(c).decision]}
    /\ UNCHANGED <<vm, secrets, stored, images, rows, fresh, disturbed>>

DeletePolicyRule(c) ==
    /\ Is(c, "DeletePolicyRule") /\ Answered(c, "ok")
    /\ rules' = {r \in rules : r.scope # job(c).scope \/ r.host # job(c).host}
    /\ UNCHANGED <<vm, secrets, stored, images, rows, fresh, disturbed>>

\* RemoveCustom goes by host.
OfHost(scope, host) == {e \in secrets : e.scope = scope /\ e.host = host}

DeleteSecret(c) ==
    /\ Is(c, "DeleteSecret") /\ Answered(c, "ok")
    /\ secrets' = secrets \ OfHost(job(c).scope, job(c).host)
    /\ Disturb(Setting(job(c).scope))
    /\ UNCHANGED <<vm, stored, rules, images, rows, fresh>>

\* The scope is the daemon's own name of it; no record is looked up.
DeleteStoredSecret(c) ==
    /\ Is(c, "DeleteStoredSecret") /\ Answered(c, "ok")
    /\ stored' = stored \ {[scope |-> job(c).scope, name |-> job(c).name]}
    /\ UNCHANGED <<vm, secrets, rules, images, rows, fresh, disturbed>>

\* The daemon refuses to save a machine that runs.
SaveTemplate(c) ==
    /\ Is(c, "SaveTemplate")
    /\ \/ vm = "stopped" /\ Answered(c, "ok") /\ images' = images \cup {job(c).tag}
       \/ vm # "stopped" /\ Answered(c, "error") /\ UNCHANGED images
    /\ UNCHANGED <<vm, secrets, stored, rules, rows, fresh, disturbed>>

RemoveTemplate(c) ==
    /\ Is(c, "RemoveTemplate")
    /\ \/ job(c).tag \in images /\ Answered(c, "ok") /\ images' = images \ {job(c).tag}
       \/ job(c).tag \notin images /\ Answered(c, "error") /\ UNCHANGED images
    /\ UNCHANGED <<vm, secrets, stored, rules, rows, fresh, disturbed>>

\* A published port has one row for each host address.
PublishPort(c) ==
    /\ Is(c, "PublishPort")
    /\ \/ /\ vm # "none" /\ Answered(c, "ok") /\ fresh' = fresh + 1
          /\ rows' = rows \cup {[guest |-> job(c).guest, host |-> fresh, ip |-> i] : i \in {4, 6}}
          /\ Disturb(Busy("UnpublishPort"))
       \/ vm = "none" /\ Answered(c, "error") /\ UNCHANGED <<rows, fresh, disturbed>>
    /\ UNCHANGED <<vm, secrets, stored, rules, images>>

\* An exec starts a stopped machine, behind the record's back.
Exec(c) ==
    /\ Is(c, "Exec")
    /\ \/ vm # "none" /\ Answered(c, "ok") /\ vm' = "running"
       \/ vm = "none" /\ Answered(c, "error") /\ UNCHANGED vm
    /\ UNCHANGED <<tables, disturbed>>

Call(c) ==
    /\ At(c, "call")
    /\ \/ Fails(c)
       \/ /\ \/ SetPolicy(c) \/ DeletePolicyRule(c) \/ DeleteSecret(c) \/ DeleteStoredSecret(c)
             \/ SaveTemplate(c) \/ RemoveTemplate(c) \/ PublishPort(c) \/ Exec(c)
          /\ UNCHANGED <<setup, seen, record, age, audit, runs, faults, orphaned, late>>

-----------------------------------------------------------------------------
(***************************************************************************)
(* SetSecret: the placeholder of the env's entry is read and given again,  *)
(* for the daemon refuses to replace an entry without it.                  *)
(***************************************************************************)
\* SecretList keeps the rows of one scope; the daemon lists all for "node".
SecretList(scope) == {e \in secrets : e.scope = scope}

SetSecretList(c) ==
    /\ At(c, "list")
    /\ Goto(c, "set")
    /\ \/ Saw(c, SecretList(job(c).scope)) /\ UNCHANGED <<faults, disturbed>>
       \/ Saw(c, {}) /\ Fault(c)
    /\ UNCHANGED <<setup, outcome, record, age, audit, vm, tables, runs, orphaned, late>>

\* Mutant: the entry is written as a new one.
NoPlaceholder(c) == {}

Placeholder(c) == {e.token : e \in {x \in seen[c] : x.env = job(c).env}}

\* History: a secret written when the cleanup of its sandbox has been, or
\* will not be, may stay.
Excuse == record = "none" \/ \E d \in Busy("Delete") : pc[d] \in {"clean", "forget"}

SetCustom(c) ==
    LET j == job(c)
        old == {e \in secrets : e.scope = j.scope /\ e.env = j.env}
        write(token) ==
            /\ secrets' = (secrets \ old) \cup {[scope |-> j.scope, env |-> j.env, host |-> j.host, token |-> token]}
            /\ Disturb(Setting(j.scope) \ {c})
            /\ orphaned' = (orphaned \/ (j.scope = "sandbox" /\ Excuse))
            /\ Answered(c, "ok") IN
    /\ At(c, "set")
    /\ \/ \E t \in Placeholder(c) : {e.token : e \in old} \subseteq {t} /\ write(t) /\ UNCHANGED fresh
       \/ Placeholder(c) = {} /\ old = {} /\ write(fresh) /\ fresh' = fresh + 1
       \/ /\ old # {} /\ {e.token : e \in old} # Placeholder(c)
          /\ Answered(c, "error") /\ UNCHANGED <<secrets, fresh, disturbed, orphaned>>
    /\ UNCHANGED <<setup, seen, record, age, audit, vm, stored, rules, images, rows, runs, faults, late>>

SetCustomFails(c) == At(c, "set") /\ Fails(c)

-----------------------------------------------------------------------------
(***************************************************************************)
(* UnpublishPort: the host ports of the guest port are read and taken back *)
(* one by one; the first error ends it.                                    *)
(***************************************************************************)
\* Mutant: every row of the daemon's listing.
RawPorts(rs) == rs

\* dedupePorts: the rows of one mapping differ in the host address only.
dedupePorts(rs) == {[guest |-> r.guest, host |-> r.host] : r \in rs}

Ports(c) ==
    /\ At(c, "ports")
    /\ \/ /\ vm # "none"
          /\ Saw(c, {p \in dedupePorts(rows) : p.guest = job(c).guest})
          /\ Goto(c, "unpublish") /\ UNCHANGED <<faults, disturbed>>
       \/ vm = "none" /\ Goto(c, "error") /\ UNCHANGED <<seen, faults, disturbed>>
       \/ Goto(c, "error") /\ Fault(c) /\ UNCHANGED seen
    /\ UNCHANGED <<setup, outcome, record, age, audit, vm, tables, runs, orphaned, late>>

\* One call takes back the rows of every address.
Unpublish(c) ==
    /\ At(c, "unpublish")
    /\ \/ seen[c] = {} /\ Goto(c, "ok") /\ UNCHANGED <<seen, rows, disturbed, faults>>
       \/ \E p \in seen[c] :
            LET hit == {r \in rows : r.guest = p.guest /\ r.host = p.host} IN
            /\ Saw(c, seen[c] \ {p})
            /\ \/ hit # {} /\ rows' = rows \ hit /\ Disturb(Busy("UnpublishPort") \ {c}) /\ UNCHANGED <<pc, faults>>
               \/ hit = {} /\ Goto(c, "error") /\ UNCHANGED <<rows, disturbed, faults>>
               \/ Goto(c, "error") /\ Fault(c) /\ UNCHANGED rows
    /\ UNCHANGED <<setup, outcome, record, age, audit, vm, secrets, stored, rules, images, fresh, runs, orphaned, late>>

-----------------------------------------------------------------------------
(***************************************************************************)
(* Agent runs, stop and the reaper.                                        *)
(***************************************************************************)
Killed == [c \in Clients |-> IF proc[c] = "running" THEN "killed" ELSE proc[c]]

Reapers == {c \in Clients : Is(c, "Reap")}

\* History: from a bump that does not reset the record's clock, or that comes
\* when the reaper has made its listing, the run's activity is not seen, until
\* the next bump that does.
Listing == \E r \in Reapers : pc[r] # "new"
Bumped(c) ==
    /\ BumpActivity(faults')
    /\ late' = IF Listing \/ age' # 0 THEN late \cup {c} ELSE late \ {c}

\* The operation's goroutine: the run's beginning is activity.
AgentStart(c) ==
    /\ At(c, "start")
    /\ Bumped(c)
    /\ Goto(c, "exec")
    /\ UNCHANGED <<setup, seen, outcome, record, audit, vm, tables, runs, disturbed, orphaned>>

ExecDetached(c) ==
    /\ At(c, "exec")
    /\ \/ /\ vm # "none" /\ vm' = "running" /\ proc' = [proc EXCEPT ![c] = "running"]
          /\ Goto(c, "poll") /\ UNCHANGED <<faults, disturbed>>
       \/ vm = "none" /\ Goto(c, "error") /\ UNCHANGED <<vm, proc, faults, disturbed>>
       \/ Goto(c, "error") /\ Fault(c) /\ UNCHANGED <<vm, proc>>
    /\ UNCHANGED <<setup, seen, outcome, record, age, audit, tables, touch, polled, orphaned, late>>

\* Mutant: a long run is no activity.
KeepAliveNever(c) == FALSE

\* A long run is activity again every half timeout, since the last bump that
\* was tried.
KeepAlive(c) == touch[c] > 1

PollDetached(c) ==
    /\ At(c, "poll") /\ polled' = [polled EXCEPT ![c] = TRUE]
    /\ \/ /\ proc[c] = "running" /\ vm # "none" /\ UNCHANGED <<pc, disturbed>>
          /\ IF KeepAlive(c) THEN Bumped(c) /\ touch' = [touch EXCEPT ![c] = 0]
                             ELSE UNCHANGED <<age, touch, faults, late>>
       \/ /\ proc[c] # "running" \/ vm = "none"
          /\ Goto(c, IF proc[c] = "exit 0" /\ vm # "none" THEN "ok" ELSE "error")
          /\ UNCHANGED <<age, touch, faults, disturbed, late>>
       \/ Goto(c, "error") /\ Fault(c) /\ UNCHANGED <<age, touch, late>>
    /\ UNCHANGED <<setup, seen, outcome, record, audit, vm, tables, proc, orphaned>>

\* The process in the machine.
ProcExit(c) ==
    /\ proc[c] = "running"
    /\ \E code \in {"exit 0", "exit 1"} : proc' = [proc EXCEPT ![c] = code]
    /\ UNCHANGED <<setup, handlers, record, age, audit, vm, tables, touch, polled, faults, history>>

\* StopSandbox takes any record; the reaper those it lists as idle for more
\* than the timeout, which is two ticks.
StopBegin(c) ==
    /\ At(c, "new")
    /\ \/ Is(c, "Stop") /\ Goto(c, IF record = "none" THEN "error" ELSE "stop")
       \/ Is(c, "Reap") /\ record = "running" /\ age > 2 /\ Goto(c, "stop")
    /\ UNCHANGED <<setup, seen, outcome, record, age, audit, vm, tables, runs, faults, history>>

\* The reaper's loop begins anew whatever the stop answered.
StopEnds(c, label) == Goto(c, IF Is(c, "Reap") THEN "new" ELSE label)

StopMachine(c) ==
    /\ At(c, "stop")
    /\ \/ vm # "none" /\ vm' = "stopped" /\ proc' = Killed /\ Goto(c, "mark") /\ UNCHANGED <<faults, disturbed>>
       \/ vm = "none" /\ StopEnds(c, "error") /\ UNCHANGED <<vm, proc, faults, disturbed>>
       \/ StopEnds(c, "error") /\ Fault(c) /\ UNCHANGED <<vm, proc>>
    /\ UNCHANGED <<setup, seen, outcome, record, age, audit, tables, touch, polled, orphaned, late>>

StopMark(c) ==
    /\ At(c, "mark")
    /\ IF record = "none" THEN StopEnds(c, "error") /\ UNCHANGED record
                          ELSE StopEnds(c, "ok") /\ record' = "stopped"
    /\ UNCHANGED <<setup, seen, outcome, age, audit, vm, tables, runs, faults, history>>

-----------------------------------------------------------------------------
(***************************************************************************)
(* Delete: the machine, its secrets as far as that goes, the record.       *)
(***************************************************************************)
DeleteBegin(c) ==
    /\ At(c, "new") /\ Is(c, "Delete")
    /\ Goto(c, IF record = "none" THEN "reap" ELSE "remove")
    /\ UNCHANGED <<setup, seen, outcome, record, age, audit, vm, tables, runs, faults, history>>

InSandbox(es) == {e \in es : e.scope = "sandbox"}

\* The daemon forgets the ports with the machine, and some the secrets.
\* Without a record only the machine is removed.
Remove(c) ==
    /\ pc[c] \in {"reap", "remove"}
    /\ \/ /\ vm' = "none" /\ rows' = {} /\ proc' = Killed
          /\ secrets' = IF setup.drops /\ vm # "none" THEN secrets \ InSandbox(secrets) ELSE secrets
          /\ Goto(c, IF At(c, "reap") THEN "ok" ELSE "secrets")
          /\ orphaned' = (orphaned \/ At(c, "reap"))
          /\ Disturb(Setting("sandbox") \cup Busy("UnpublishPort")) /\ UNCHANGED faults
       \/ Goto(c, "error") /\ Fault(c) /\ UNCHANGED <<vm, rows, proc, secrets, orphaned>>
    /\ UNCHANGED <<setup, seen, outcome, record, age, audit, stored, rules, images, fresh, touch, polled, late>>

\* removeCustomSecrets: errors are swallowed.
CleanList(c) ==
    /\ At(c, "secrets")
    /\ \/ Saw(c, SecretList("sandbox")) /\ Goto(c, "clean") /\ UNCHANGED <<faults, disturbed, orphaned>>
       \/ Saw(c, {}) /\ Goto(c, "clean") /\ Fault(c) /\ orphaned' = TRUE
    /\ UNCHANGED <<setup, outcome, record, age, audit, vm, tables, runs, late>>

\* Mutant: by name, as a stored secret is removed.
CleanNothing(e) == {}

CleanHit(e) == OfHost("sandbox", e.host)

CleanNext(c) ==
    /\ At(c, "clean")
    /\ \/ seen[c] = {} /\ Goto(c, "forget") /\ UNCHANGED <<seen, secrets, faults, disturbed, orphaned>>
       \/ \E e \in seen[c] :
            /\ Saw(c, seen[c] \ {e}) /\ UNCHANGED pc
            /\ \/ secrets' = secrets \ CleanHit(e) /\ Disturb(Setting("sandbox")) /\ UNCHANGED <<faults, orphaned>>
               \/ Fault(c) /\ orphaned' = TRUE /\ UNCHANGED secrets
    /\ UNCHANGED <<setup, outcome, record, age, audit, vm, stored, rules, images, rows, fresh, runs, late>>

DeleteRecord(c) ==
    /\ At(c, "forget")
    /\ \/ record' = "none" /\ Goto(c, "ok") /\ UNCHANGED <<faults, disturbed>>
       \/ Goto(c, "error") /\ Fault(c) /\ UNCHANGED record
    /\ UNCHANGED <<setup, seen, outcome, age, audit, vm, tables, runs, orphaned, late>>

-----------------------------------------------------------------------------
\* An agent run polls several times in a tick.  One that takes a tick to start
\* is counted as late: its own clock begins after the start.
Tick ==
    /\ setup.timed
    /\ \A c \in Clients : At(c, "poll") => polled[c]
    /\ age' = IF age < 3 THEN age + 1 ELSE age
    /\ touch' = [c \in Clients |-> IF At(c, "poll") /\ touch[c] < 3 THEN touch[c] + 1 ELSE touch[c]]
    /\ polled' = [c \in Clients |-> ~At(c, "poll")]
    /\ late' = late \cup {c \in Clients : At(c, "exec")}
    /\ UNCHANGED <<setup, handlers, record, audit, vm, tables, proc, faults, disturbed, orphaned>>

\* The node dies and starts again: the handlers are gone, the daemon is not.
Crash ==
    /\ setup.crash /\ faults < MaxFaults /\ faults' = faults + 1
    /\ pc' = [c \in Clients |-> IF Is(c, "Reap") THEN "new"
                               ELSE IF pc[c] \in {"new"} \cup Ended THEN pc[c] ELSE "dead"]
    /\ UNCHANGED <<setup, seen, outcome, record, age, audit, vm, tables, runs, history>>

Handle(c) ==
    \/ Resolve(c) \/ Call(c) \/ AuditStep(c) \/ ListTemplates(c)
    \/ SetSecretList(c) \/ SetCustom(c) \/ SetCustomFails(c) \/ Ports(c) \/ Unpublish(c)
    \/ AgentStart(c) \/ ExecDetached(c) \/ PollDetached(c) \/ ProcExit(c)
    \/ StopBegin(c) \/ StopMachine(c) \/ StopMark(c)
    \/ DeleteBegin(c) \/ Remove(c) \/ CleanList(c) \/ CleanNext(c) \/ DeleteRecord(c)

Next == Tick \/ Crash \/ \E c \in Clients : Handle(c)

Spec == Init /\ [][Next]_vars

-----------------------------------------------------------------------------
\* A create-or-replace does what it says: SetSecret fails only when a call of
\* its own failed or the secrets of its scope were written while it worked, so
\* that the rotation of a secret goes through and keeps the placeholder.
RotationSucceeds ==
    /\ \A c \in Clients : Is(c, "SetSecret") /\ outcome[c] = "error" => c \in disturbed
    /\ \A d, e \in secrets : d.scope = e.scope /\ d.env = e.env => d = e

\* removeCustomSecrets: a deleted sandbox leaves no secrets behind, unless a
\* call of the cleanup failed, a SetSecret came after it, or there was no
\* record to delete.
NoOrphanSecrets ==
    (record = "none" /\ ~orphaned /\ \E c \in Clients : Is(c, "Delete") /\ pc[c] = "ok") => InSandbox(secrets) = {}

\* UnpublishPort that answers ok has taken back every mapping of the guest port,
\* with all its rows, and fails only when a call failed or others changed the
\* ports meanwhile.
UnpublishIsWhole ==
    \A c \in Clients :
        (Is(c, "UnpublishPort") /\ record # "none" /\ c \notin disturbed) =>
            /\ pc[c] = "error" => vm = "none"
            /\ pc[c] = "unpublish" /\ seen[c] = {} => \A r \in rows : r.guest # job(c).guest

\* "Keep a long-running agent's sandbox alive ... so it is never idle-stopped
\* mid-run": the reaper stops no machine under an agent run whose last bump
\* before the listing of the idle sandboxes went through and which, if that was
\* its first, was started within a tick.
AgentIsSpared ==
    [][\A r \in Reapers : (pc[r] = "stop" /\ pc'[r] = "mark") =>
        \A c \in Clients : pc[c] = "poll" /\ proc[c] = "running" => c \in late]_vars
=============================================================================
