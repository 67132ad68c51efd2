------------------------------ MODULE MCDaemon ------------------------------
(***************************************************************************)
(* Instances of DaemonCalls and Streams for TLC: three requests, or a      *)
(* request and streams, at a time.                                         *)
(***************************************************************************)
EXTENDS Streams, TLC

CONSTANTS c1, c2, c3, s1, s2

Secret(scope, env, host) == [op |-> "SetSecret", scope |-> scope, env |-> env, host |-> host]
Entry(scope, env, host, token) == [scope |-> scope, env |-> env, host |-> host, token |-> token]
Rows(guest, host) == {[guest |-> guest, host |-> host, ip |-> i] : i \in {4, 6}}
Op(op) == [op |-> op]

Base ==
    [jobs |-> <<>>, streams |-> [s \in Streams |-> "none"], ticks |-> FALSE,
     record |-> "running", vm |-> "running", drops |-> FALSE, timed |-> FALSE, crash |-> FALSE,
     secrets |-> {Entry("sandbox", "E", "x", 0), Entry("node", "E", "x", 1)},
     stored |-> {[scope |-> "sandbox", name |-> "s"]}, rows |-> Rows(80, 0) \cup Rows(80, 1)]

Three(x, y, z) == [Base EXCEPT !.jobs = (c1 :> x) @@ (c2 :> y) @@ (c3 :> z)]

\* Secrets set, replaced, removed and swept with the sandbox.
SecretSetups ==
    {[Three(Secret("sandbox", "E", "y"), x, Op("Delete")) EXCEPT !.drops = d, !.crash = TRUE] :
        d \in BOOLEAN,
        x \in {Secret("sandbox", "E", "z"), Secret("sandbox", "F", "y"), Secret("node", "E", "y"), Op("Delete"),
               [op |-> "DeleteSecret", scope |-> "sandbox", host |-> "x"],
               [op |-> "DeleteStoredSecret", scope |-> "sandbox", name |-> "s"]}}
    \cup {[Three(Secret("sandbox", "E", "y"), Secret("node", "E", "y"), Op("Delete")) EXCEPT !.record = "none"]}

PortSetups ==
    {Three([op |-> "UnpublishPort", guest |-> 80], x, y) :
        x \in {[op |-> "PublishPort", guest |-> 80], [op |-> "UnpublishPort", guest |-> 80]},
        y \in {Op("Delete"), [op |-> "PublishPort", guest |-> 81]}}

Policy(op, d) == [op |-> op, scope |-> "sandbox", host |-> "x", decision |-> d]

TemplateSetups ==
    {Three([op |-> "SaveTemplate", tag |-> "t"], [op |-> "RemoveTemplate", tag |-> "t"], Op("Exec")),
     Three([op |-> "SaveTemplate", tag |-> "t"], Op("Stop"), Op("Exec")),
     Three(Policy("SetPolicy", "allow"), Policy("DeletePolicyRule", ""), Policy("SetPolicy", "deny"))}

AgentSetups ==
    {[Three(Op("AgentRun"), Op("Reap"), x) EXCEPT !.timed = TRUE, !.crash = TRUE,
                                                     !.ticks = (x.op = "Exec")] :
        x \in {Op("Stop"), Op("Delete"), Op("Exec"), Op("AgentRun")}}

\* A stream of each kind while the sandbox is stopped, used or deleted.
StreamSetups ==
    {[Three(x, Op("None"), Op("None")) EXCEPT !.streams = (s1 :> a) @@ (s2 :> "none")] :
        x \in {Op("Stop"), Op("Delete"), Op("Exec")}, a \in {"logs", "terminal", "stats"}}
    \cup {[Three(Op("None"), Op("None"), Op("None")) EXCEPT !.streams = (s1 :> "logs") @@ (s2 :> "terminal")]}

AllSetups == StreamSetups \cup SecretSetups \cup PortSetups \cup TemplateSetups \cup AgentSetups
=============================================================================
