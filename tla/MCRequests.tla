---------------------------- MODULE MCRequests ----------------------------
(***************************************************************************)
(* Instances of Requests, Admission and Review for TLC.  A behaviour is of *)
(* one of three kinds: calls find their way to the node that serves them,  *)
(* a create is admitted somewhere, or calls read and answer a review.      *)
(***************************************************************************)
EXTENDS Requests, Admission, Review, TLC

CONSTANTS n1, n2, n3, x1, x2, r1, r2, c1, c2,
          Kinds        \* subset of {"route", "create", "review"}

VARIABLE kind

allVars == <<kind, vars, createVars, reviewVars>>

-----------------------------------------------------------------------------
(* Routing *)

Keyring == [n \in Nodes |-> [k \in {"shared", "reader", "entry"} |->
              CASE k = "shared" -> "admin"
                [] k = "reader" -> "read-only"
                [] k = "entry"  -> IF n = n1 THEN "admin" ELSE None]]
NoneDenied == [n \in Nodes |-> {}]
Homes == [n \in Nodes |-> CASE n = n1 -> x1 [] n = n2 -> x2 [] n = n3 -> None]

Ask1(via, m, t, k, c, csrf) ==
    [entry |-> n1, via |-> via, method |-> m, target |-> t, key |-> k,
     cookie |-> c, csrf |-> csrf]

\* r1 takes every route: forwarded, control, local-only, proxied, streamed,
\* from a node; r2 fills the pool before it or after it.
Asked ==
    [r \in Requests |->
        {Ask1("grpc", "Exec", n2, "shared", None, FALSE),
         Ask1("grpc", "Cordon", n3, "shared", None, FALSE),
         Ask1("node", "Provision", n2, None, None, FALSE)}
        \cup (IF r = r2 THEN {} ELSE
        {Ask1("grpc", "Exec", n2, "entry", None, FALSE),
         Ask1("grpc", "WriteFiles", n2, "shared", None, FALSE),
         Ask1("grpc", "GetSandbox", n3, "reader", None, FALSE),
         Ask1("rest", "Drain", n2, None, "admin", TRUE),
         Ask1("rest", "upload", n2, "entry", None, FALSE),
         Ask1("rest", "download", n1, "reader", None, FALSE),
         Ask1("rest", "logs", n2, None, "read-only", FALSE),
         Ask1("rest", "Provision", None, "shared", None, FALSE),
         Ask1("rest", "StopSandbox", n2, None, "admin", FALSE)})]

-----------------------------------------------------------------------------
(* Creating *)

Ref(host, path, tag) == [host |-> host, path |-> path, tag |-> tag]
Mount(name, ro) == [name |-> name, ro |-> ro]
NodeCfg(ws, ks, cpu, strategy) ==
    [workspaces |-> ws, kits |-> ks, strategy |-> strategy,
     defaults |-> [cpu |-> cpu, mem |-> 0, disk |-> 0]]
Wish(cpu, strategy, template, ks, ws, clone) ==
    [size |-> [cpu |-> cpu, mem |-> 0, disk |-> 0], strategy |-> strategy,
     template |-> template, kits |-> ks, ws |-> ws, clone |-> clone]

\* The same names stand for different things on the two nodes.
Uneven ==
    n1 :> NodeCfg(("src" :> "rw") @@ ("ref" :> "ro"), ("k" :> "plain") @@ ("v" :> "volumes"), 1, "")
    @@ n2 :> NodeCfg(("src" :> "git") @@ ("ref" :> "ro"), ("k" :> "missing") @@ ("v" :> "garbled"), 4, "")
\* The second node does not boot.
Alone ==
    n1 :> NodeCfg("src" :> "git", "k" :> "plain", 3, "bin-pack")
    @@ n2 :> NodeCfg("src" :> "rw", "v" :> "sandbox", 0, "least-actual-load")

\* The registry of the template is in reach of the second node only; images
\* that name no registry come and go.
Case(cfg, wish) ==
    LET refs == {wish.template} \ {Nil}
    IN  [cfg |-> cfg, images |-> [n \in {n1, n2} |-> {}], request |-> wish, refs |-> {ref \in refs : ~Pullable(ref)},
         pulls |-> [n \in {n1, n2} |-> IF n = n2 THEN {DaemonName(ref) : ref \in refs} ELSE {}]]

Creates ==
    {Case(Uneven, Wish(0, "", Nil, {}, <<Mount("src", FALSE)>>, TRUE)),
     Case(Alone,  Wish(0, "", Nil, {}, <<Mount("src", FALSE)>>, FALSE)),
     Case(Alone,  Wish(0, "", Nil, {}, <<Mount("src", FALSE)>>, TRUE)),
     Case(Uneven, Wish(2, "spread", Nil, {"v"}, <<>>, FALSE)),
     Case(Uneven, Wish(0, "", Nil, {"k"}, <<Mount("ref", FALSE)>>, FALSE)),
     Case(Uneven, Wish(0, "", Nil, {"k"}, <<>>, FALSE)),
     Case(Uneven, Wish(0, "", Ref("", "lib", ""), {}, <<Mount("src", FALSE), Mount("ref", FALSE)>>, FALSE)),
     Case(Uneven, Wish(0, "", Ref("", "org", "v1"), {}, <<>>, FALSE)),
     Case(Uneven, Wish(0, "", Ref("localhost:5000", "org", ""), {}, <<>>, FALSE)),
     Case(Alone,  Wish(0, "random", Nil, {}, <<>>, FALSE))}

-----------------------------------------------------------------------------
(* Reviewing *)

\* A discussion of two comments in one file and one of a single comment.
Said == <<[path |-> "f", parent |-> 0, open |-> TRUE, by |-> "human", at |-> 1],
          [path |-> "f", parent |-> 1, open |-> TRUE, by |-> "human", at |-> 2],
          [path |-> "g", parent |-> 0, open |-> TRUE, by |-> "human", at |-> 3]>>
Say(thread, body, resolve) == [thread |-> thread, body |-> body, resolve |-> resolve]
Reads == [op |-> "read", replies |-> <<>>]
Answers(replies) == [op |-> "resolve", replies |-> replies]
Talk(forge, lacks, first, second) ==
    [forge |-> forge, lacks |-> lacks, first |-> Said, jobs |-> (c1 :> first @@ c2 :> second)]

Talks ==
    UNION {{Talk(f, "nothing", Answers(<<Say(1, TRUE, TRUE), Say(3, TRUE, FALSE)>>), Reads),
            Talk(f, "nothing", Answers(<<Say(1, TRUE, TRUE), Say(2, TRUE, TRUE)>>), Reads),
            Talk(f, "nothing", Answers(<<Say(1, FALSE, TRUE)>>), Answers(<<Say(1, TRUE, TRUE)>>))} :
              f \in {"github", "gerrit"}}
    \cup {Talk("gerrit", "nothing", Answers(<<Say(3, TRUE, TRUE), Say(3, TRUE, FALSE)>>), Reads),
          Talk("gerrit", "user", Reads, Reads), Talk("github", "token", Reads, Reads),
          Talk("gitlab", "nothing", Reads, Reads)}

-----------------------------------------------------------------------------
\* The parts a behaviour is not about stand still in one initial state.
MCInit ==
    /\ kind \in Kinds
    /\ Init /\ AdmissionInit /\ ReviewInit
    /\ kind # "route" => call = [r \in Requests |-> Start(CHOOSE s \in Asked[r] : TRUE)]
    /\ kind # "create" => setup = CHOOSE s \in Creates : TRUE
    /\ kind # "review" => review = CHOOSE s \in Talks : TRUE

MCNext ==
    /\ UNCHANGED kind
    /\ \/ kind = "route" /\ Next /\ UNCHANGED <<createVars, reviewVars>>
       \/ kind = "create" /\ AdmissionNext /\ UNCHANGED <<vars, reviewVars>>
       \/ kind = "review" /\ ReviewNext /\ UNCHANGED <<vars, createVars>>

MCFairness ==
    /\ \A r \in Requests : WF_vars(kind = "route" /\ Step(r)) /\ WF_vars(kind = "route" /\ Retry(r))
    /\ \A n \in Hosts : /\ WF_createVars(kind = "create" /\ RefreshLocalState(n))
                        /\ WF_createVars(kind = "create" /\ Gossip(n))

MCSpec == MCInit /\ [][MCNext]_allVars /\ MCFairness

\* A caller who keeps asking reaches the owner.
RetriesArrive == kind = "route" => RetryReachesOwner
=============================================================================
