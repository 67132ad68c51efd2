------------------------------ MODULE Requests ------------------------------
(***************************************************************************)
(* The path of a request through the swarm, from the node that accepts it  *)
(* to the handler that runs it: the HTTP middleware and the owner proxy,   *)
(* the in-process gateway, the gRPC interceptors (authenticate, authorize, *)
(* forward), the pool of pinned peer connections and the routing table.    *)
(* Sources: apiserver/{server,authn,authz,forward,forward_http}.go,        *)
(* auth/, nodekey/, peer/ and routing/.                                    *)
(*                                                                         *)
(* A sandbox id is abstracted to the node that owns it: the prefix of the  *)
(* id is all the path ever reads (ADR-0002).  Node ids are derived from    *)
(* node keys, so "the pin of node n" is n itself.  Addresses are what      *)
(* moves: a node may stop and another may come up where it was.            *)
(***************************************************************************)
EXTENDS Naturals, FiniteSets

CONSTANTS
    Nodes, Addrs,
    Requests,      \* requests in flight
    Shapes,        \* [Requests -> SUBSET Shape]: what each caller may ask
    RoleForKey,    \* [Nodes -> [Keys -> role or None]]: the configured API keys
    Denied,        \* [Nodes -> SUBSET Nodes]: who each node's denylist names
    Home,          \* [Nodes -> Addrs \cup {None}]: where nodes listen at first
    MaxBoots,      \* bound on nodes coming up
    None

VARIABLES
    at,        \* address -> the node that listens there, or None
    tbl,       \* node -> its routing table: node -> [addr, pub] or None
    pool,      \* node -> its peer pool: address -> the node it is pinned to
    call,      \* request -> where it is and what it carries
    ran,       \* the handlers that ran: [req, node, role]
    boots

vars == <<at, tbl, pool, call, ran, boots>>

\* A request as its caller makes it.  via "rest" carries an API key or a
\* session cookie; "grpc" an API key; "node" is a coordinator's own RPC.
Shape ==
    [entry : Nodes, via : {"rest", "grpc", "node"}, method : STRING,
     target : Nodes \cup {None}, key : STRING \cup {None},
     cookie : {"admin", "read-only", None}, csrf : BOOLEAN]

-----------------------------------------------------------------------------
(* Method tables *)

\* What the gRPC server registers, by service.
SandboxService ==
    {"CreateSandbox", "GetSandbox", "ListSandboxes", "DeleteSandbox",
     "StartSandbox", "StopSandbox", "Exec", "WriteFiles", "AgentRun",
     "PublishPort", "ListPorts", "UnpublishPort", "SaveTemplate", "GetStats",
     "ListBlocked", "PublishSandbox", "ListBranches", "PublishWork",
     "ReadReview", "ResolveThreads", "KeepAlive", "ListOperations"}
NodeService ==
    {"GetNodeInfo", "Cordon", "Uncordon", "Drain", "RevokeNode", "ListRevoked",
     "ListNodes", "ListTemplates", "RemoveTemplate"}
PolicyService ==
    {"ListPolicy", "SetPolicy", "DeletePolicyRule", "CheckPolicy",
     "ListSecrets", "SetSecret", "DeleteSecret", "DeleteStoredSecret"}
InternalService == {"Provision"}
EventService == {"WatchEvents"}

\* The gateway has routes for the first three only.
SandboxRoutes == SandboxService
NodeRoutes == NodeService
PolicyRoutes == PolicyService

mutatingMethods ==
    {"CreateSandbox", "DeleteSandbox", "StartSandbox", "StopSandbox", "Exec",
     "WriteFiles", "AgentRun", "PublishPort", "UnpublishPort", "SaveTemplate",
     "PublishSandbox", "PublishWork", "ReadReview", "ResolveThreads",
     "ListBranches", "KeepAlive", "SetPolicy", "DeletePolicyRule", "SetSecret",
     "DeleteSecret", "DeleteStoredSecret", "Cordon", "Uncordon", "Drain",
     "RevokeNode", "RemoveTemplate"}

internalMethods == {"Provision"}

readMethods ==
    {"GetSandbox", "ListSandboxes", "ListPorts", "GetStats", "ListBlocked",
     "GetNodeInfo", "ListRevoked", "ListPolicy", "CheckPolicy", "ListSecrets",
     "WatchEvents", "ListOperations", "ListNodes", "ListTemplates"}

\* Every registered method is in one of the three buckets.
ASSUME Classified ==
    mutatingMethods \cup internalMethods \cup readMethods
        = UNION {SandboxService, NodeService, PolicyService, InternalService, EventService}

\* Shapes are shapes, and the only RPC a coordinator makes is Provision.
ASSUME RequestsAssumption ==
    /\ \A r \in Requests : \A s \in Shapes[r] :
          s \in Shape /\ (s.via = "node" => s.method \in internalMethods)
    /\ None \notin {"admin", "read-only", "node"}

isNodeControlMethod(m) == m \in {"Cordon", "Uncordon", "Drain", "RemoveTemplate"}

ForwardableNoExec == {"GetSandbox", "StopSandbox", "Cordon", "Uncordon", "Drain"}
\* The methods newReplyFor knows a reply for: the ones that can be forwarded.
Forwardable ==
    {"GetSandbox", "DeleteSandbox", "StartSandbox", "StopSandbox", "Exec",
     "AgentRun", "PublishPort", "UnpublishPort", "SaveTemplate", "ListPorts",
     "GetStats", "ListBlocked", "PublishSandbox", "ListBranches", "KeepAlive",
     "Cordon", "Uncordon", "Drain", "RemoveTemplate"}

\* Handlers of the HTTP mux itself, in front of the gateway: the terminal and
\* the file routes need admin, the log and stats streams any role.
adminRoutes == {"terminal", "upload", "download"}
streamRoutes == {"logs", "stats"}

-----------------------------------------------------------------------------
(* Routing table and peer pool *)

Known(n, m) == tbl[n][m] # None
Addr(n, m) == tbl[n][m].addr
PubKey(n, m) == Known(n, m) /\ tbl[n][m].pub
IsLocal(n, m) == m = n

\* An empty public key keeps the pinned one.
Upsert(n, m, a, pub) ==
    tbl' = [tbl EXCEPT ![n][m] = [addr |-> a, pub |-> pub \/ PubKey(n, m)]]

Remove(n, m) == tbl' = [tbl EXCEPT ![n][m] = None]

\* The connection cached for an address keeps the pin and the node-key
\* audience of the node it was first dialled for.
ConnOk(n, a, m) == pool[n][a] # None \/ PubKey(n, m)
Conn(n, a, m) ==
    pool' = IF pool[n][a] = None THEN [pool EXCEPT ![n][a] = m] ELSE pool

\* tlsutil.PinnedVerify: the handshake succeeds only with the pinned node.
PinnedVerify(a, pin) == at[a] = pin

-----------------------------------------------------------------------------
(* Authentication and authorization *)

\* nodekey.Verify at n: the token names n as its audience by construction of
\* the connection it came over, so what is left is the caller.
VerifyNodeKey(n, from) ==
    from # None /\ from \notin Denied[n] /\ PubKey(n, from)

isUserRole(role) == role \in {"admin", "read-only"}

RoleOf(n, key) == IF key = None THEN None ELSE RoleForKey[n][key]

\* Signer.Verify of a session cookie or of the gateway's role token: signed
\* with the swarm's key, so any node verifies it until it expires.
Verify(c, role) == IF c.stale THEN None ELSE role

RequireRole(got) == got = "admin"

\* The signed role first, then the API key, then the node key.
authenticate(n, c, key) ==
    IF isUserRole(Verify(c, c.authz)) THEN c.authz
    ELSE IF RoleOf(n, key) # None THEN RoleOf(n, key)
    ELSE IF VerifyNodeKey(n, c.from) THEN "node"
    ELSE None

authorizeNode(m, role) ==
    /\ role # None
    /\ m \in internalMethods \cup readMethods \/ role \in {"admin", "node"}
authorize(m, role) ==
    /\ role # None
    /\ IF m \in internalMethods THEN role = "node"
       ELSE m \in readMethods \/ role = "admin"

\* By the HTTP verb of the route, not by what the method does: ListBranches is
\* a GET, CheckPolicy and ReadReview are POSTs.
isSafeMethod(m) ==
    \/ m \in {"GetSandbox", "ListSandboxes", "ListPorts", "GetStats", "ListBlocked",
              "ListBranches", "ListOperations", "GetNodeInfo", "ListRevoked",
              "ListNodes", "ListTemplates", "ListPolicy", "ListSecrets"}
    \/ m \in streamRoutes \cup {"terminal", "download"}

-----------------------------------------------------------------------------
(* Steps of a request *)

Start(s) ==
    [shape |-> s, here |-> s.entry, hops |-> 0, addr |-> None, from |-> None,
     role |-> None, authz |-> None, stale |-> FALSE, answer |-> None,
     pc |-> CASE s.via = "rest" -> "http"
              [] s.via = "grpc" -> "grpc"
              [] s.via = "node" -> "ask"]

Up(n) == \E a \in Addrs : at[a] = n
shape(r) == call[r].shape
here(r) == call[r].here
At(r, pc) == call[r].pc = pc /\ Up(here(r))

Go(r, new) == call' = [call EXCEPT ![r] = new]

Answer(r, a) == Go(r, [call[r] EXCEPT !.pc = "done", !.answer = a])

\* auth.Middleware.Authenticate.  A bearer key that is not known is refused
\* even when a cookie comes with it.
Authenticate(r) ==
    LET s == shape(r)
        role == IF s.key # None THEN RoleOf(here(r), s.key)
                ELSE Verify(call[r], s.cookie)
    IN  /\ At(r, "http")
        /\ IF role = None THEN Answer(r, "unauthenticated")
           ELSE IF s.key = None /\ ~isSafeMethod(s.method) /\ ~s.csrf
             THEN Answer(r, "denied")
           ELSE Go(r, [call[r] EXCEPT !.pc = "proxy", !.role = role])
        /\ UNCHANGED <<at, tbl, pool, ran, boots>>

\* A path under /v1/sandboxes/{id} whose owner is another, known node leaves
\* by the proxy; everything else is for the local mux.
OwnerProxy(r) ==
    LET s == shape(r)  n == here(r)  o == s.target
        remote == o # None /\ ~isNodeControlMethod(s.method)
                  /\ ~IsLocal(n, o) /\ Known(n, o)
    IN  /\ At(r, "proxy")
        /\ IF ~remote THEN Go(r, [call[r] EXCEPT !.pc = "mux"])
           ELSE IF ~PubKey(n, o) THEN Answer(r, "unavailable")
           ELSE Go(r, [call[r] EXCEPT !.pc = "proxied", !.addr = Addr(n, o)])
        /\ UNCHANGED <<at, tbl, pool, ran, boots>>

\* The reverse proxy dials afresh, pinned to the owner; the owner's own
\* middleware authenticates the request again.
Proxied(r) ==
    /\ At(r, "proxied")
    /\ IF PinnedVerify(call[r].addr, shape(r).target)
         THEN Go(r, [call[r] EXCEPT !.pc = "http", !.here = shape(r).target,
                                    !.hops = @ + 1])
         ELSE Answer(r, "unavailable")
    /\ UNCHANGED <<at, tbl, pool, ran, boots>>

\* The local mux: the file and terminal routes behind RequireRole, the
\* streams, and the gateway, whose loopback call carries the role in a token.
Mux(r) ==
    LET m == shape(r).method IN
    /\ At(r, "mux")
    /\ IF m \in adminRoutes /\ ~RequireRole(call[r].role) THEN Answer(r, "denied")
       ELSE IF m \in adminRoutes \cup streamRoutes
         THEN Go(r, [call[r] EXCEPT !.pc = "handle"])
       ELSE IF m \notin SandboxRoutes \cup NodeRoutes \cup PolicyRoutes
         THEN Answer(r, "noroute")
       ELSE Go(r, [call[r] EXCEPT !.pc = "grpc", !.authz = call[r].role,
                                  !.stale = FALSE])
    /\ UNCHANGED <<at, tbl, pool, ran, boots>>

\* Falls through to the local handler, as an unknown owner does.
RouteLocal(n, m, target) ==
    IF m \in internalMethods \/ target = None \/ IsLocal(n, target) \/ ~Known(n, target)
    THEN "self" ELSE "peer"

\* Where the forwarder sends a call.  A Provision names no node: it is handled
\* wherever the connection leads.
Route(n, m, target) ==
    IF m \in internalMethods \/ target = None \/ IsLocal(n, target) THEN "self"
    ELSE IF Known(n, target) THEN "peer"
    ELSE IF isNodeControlMethod(m) THEN "nowhere"
    ELSE "self"

\* The interceptor chain of the gRPC server, in the order Build gives it.
Unary(r) ==
    LET c == call[r]  s == shape(r)
        role == authenticate(c.here, c, s.key)
        route == Route(c.here, s.method, s.target)
    IN  /\ At(r, "grpc")
        /\ IF role = None THEN Answer(r, "unauthenticated")
           ELSE IF ~authorize(s.method, role) THEN Answer(r, "denied")
           ELSE IF route = "nowhere" THEN Answer(r, "notfound")
           ELSE Go(r, [c EXCEPT !.role = role,
                                !.pc = IF route = "self" THEN "handle" ELSE "dial",
                                !.addr = IF route = "self" THEN @
                                         ELSE Addr(c.here, s.target)])
        /\ UNCHANGED <<at, tbl, pool, ran, boots>>

\* The pool is asked before the reply type is looked up: a method that cannot
\* be forwarded is handled locally, but only once the owner can be dialled.
Dial(r) ==
    LET c == call[r]  s == shape(r) IN
    /\ At(r, "dial")
    /\ IF ConnOk(c.here, c.addr, s.target)
         THEN /\ Conn(c.here, c.addr, s.target)
              /\ Go(r, [c EXCEPT !.pc = IF s.method \in Forwardable \cup internalMethods
                                        THEN "invoke" ELSE "handle"])
         ELSE /\ Answer(r, "unavailable")
              /\ UNCHANGED pool
    /\ UNCHANGED <<at, tbl, ran, boots>>

\* conn.Invoke, with the caller's metadata and this node's key.
Invoke(r) ==
    LET c == call[r]  pin == pool[c.here][c.addr] IN
    /\ At(r, "invoke")
    /\ IF PinnedVerify(c.addr, pin)
         THEN Go(r, [c EXCEPT !.pc = "grpc", !.here = pin, !.from = c.here,
                              !.hops = @ + 1])
         ELSE Answer(r, "unavailable")
    /\ UNCHANGED <<at, tbl, pool, ran, boots>>

\* The handler.  A sandbox handler finds the sandbox only on its owner;
\* DeleteSandbox answers with an operation and succeeds for an unknown id.
\* RemoveTemplate refuses a foreign node id, the other node-control handlers
\* act on this node whatever the request names.
Handle(r) ==
    LET c == call[r]  s == shape(r)
        own == s.target \in {None, c.here} \/ s.method \in internalMethods
    IN  /\ At(r, "handle")
        /\ ran' = ran \cup {[req |-> r, node |-> c.here, role |-> c.role]}
        /\ Answer(r, IF own \/ s.method \in {"DeleteSandbox", "Cordon", "Uncordon", "Drain"}
                     THEN "ok" ELSE "notfound")
        /\ UNCHANGED <<at, tbl, pool, boots>>

\* A session (12 hours) or a gateway token (30 seconds) passes its expiry.
Expire(r) ==
    /\ call[r].pc # "done" /\ ~call[r].stale
    /\ shape(r).cookie # None \/ call[r].authz # None
    /\ Go(r, [call[r] EXCEPT !.stale = TRUE])
    /\ UNCHANGED <<at, tbl, pool, ran, boots>>

\* A caller who got no answer from the owner asks again.
Retry(r) ==
    /\ call[r].pc = "done" /\ call[r].answer \in {"unavailable", "notfound"}
    /\ Up(shape(r).entry)
    /\ Go(r, Start(shape(r)))
    /\ UNCHANGED <<at, tbl, pool, ran, boots>>

-----------------------------------------------------------------------------
(* The swarm around it *)

\* A node goes down: what it was serving breaks off, and nothing of its
\* pool and table survives.
Stop(n) ==
    /\ Up(n)
    /\ boots < MaxBoots
    /\ at' = [a \in Addrs |-> IF at[a] = n THEN None ELSE at[a]]
    /\ tbl' = [tbl EXCEPT ![n] = [m \in Nodes |-> None]]
    /\ pool' = [pool EXCEPT ![n] = [a \in Addrs |-> None]]
    /\ call' = [r \in Requests |->
                 IF here(r) = n /\ call[r].pc # "done"
                 THEN [call[r] EXCEPT !.pc = "done", !.answer = "unavailable"]
                 ELSE call[r]]
    /\ UNCHANGED <<ran, boots>>

Boot(n, a) ==
    /\ ~Up(n) /\ at[a] = None
    /\ boots < MaxBoots
    /\ at' = [at EXCEPT ![a] = n]
    /\ boots' = boots + 1
    /\ UNCHANGED <<tbl, pool, call, ran>>

\* Gossip: n hears of m, from its meta (no key yet) or its bulk state.
Learn(n, m, pub) ==
    /\ n # m /\ Up(n)
    /\ \E a \in Addrs :
         /\ at[a] = m
         /\ tbl[n][m] \notin {[addr |-> a, pub |-> TRUE], [addr |-> a, pub |-> pub]}
         /\ Upsert(n, m, a, pub)
    /\ UNCHANGED <<at, pool, call, ran, boots>>

Forget(n, m) ==
    /\ Up(n) /\ Known(n, m) /\ ~Up(m)
    /\ Remove(n, m)
    /\ UNCHANGED <<at, pool, call, ran, boots>>

-----------------------------------------------------------------------------

\* A coordinator's Provision (attemptFor) starts at the table of its node.
Ask(r) ==
    LET s == shape(r)  n == here(r) IN
    /\ At(r, "ask")
    /\ IF Known(n, s.target)
         THEN Go(r, [call[r] EXCEPT !.pc = "dial", !.addr = Addr(n, s.target)])
         ELSE Answer(r, "unavailable")
    /\ UNCHANGED <<at, tbl, pool, ran, boots>>

Init ==
    /\ at = [a \in Addrs |-> IF \E n \in Nodes : Home[n] = a
                             THEN CHOOSE n \in Nodes : Home[n] = a ELSE None]
    /\ tbl = [n \in Nodes |-> [m \in Nodes |->
                IF n # m /\ Home[n] # None /\ Home[m] # None
                THEN [addr |-> Home[m], pub |-> TRUE] ELSE None]]
    /\ pool = [n \in Nodes |-> [a \in Addrs |-> None]]
    /\ call \in {c \in [Requests -> {Start(s) : s \in UNION {Shapes[r] : r \in Requests}}] :
                  \A r \in Requests : c[r].shape \in Shapes[r]}
    /\ ran = {}
    /\ boots = 0

Step(r) ==
    \/ Authenticate(r) \/ OwnerProxy(r) \/ Proxied(r) \/ Mux(r)
    \/ Ask(r) \/ Unary(r) \/ Dial(r) \/ Invoke(r) \/ Handle(r)

Next ==
    \/ \E r \in Requests : Step(r) \/ Expire(r) \/ Retry(r)
    \/ \E n \in Nodes : Stop(n) \/ \E a \in Addrs : Boot(n, a)
    \/ \E n, m \in Nodes : Forget(n, m) \/ \E pub \in BOOLEAN : Learn(n, m, pub)

Spec == Init /\ [][Next]_vars

\* Requests are served by goroutines of their own, and callers retry.
FairSpec == Spec /\ \A r \in Requests : WF_vars(Step(r)) /\ WF_vars(Retry(r))

-----------------------------------------------------------------------------
(* Properties *)

\* Cordon, Uncordon and Drain act on the node whose handler runs, so the
\* handler runs on the node the request names (forward.go:66, ADR-0018),
\* however stale the tables and the pools on the way are.
NamedNodeActs ==
    \A x \in ran :
        LET s == shape(x.req) IN
        s.method \in {"Cordon", "Uncordon", "Drain", "RemoveTemplate"} /\ s.target # None
            => x.node = s.target

\* A handler that changes something runs only for a caller who is an admin by
\* a credential of their own, however many nodes vouched for the request on
\* the way: a node key alone never authorizes a mutation (authz.go:19).
CallerIsAdmin ==
    \A x \in ran :
        LET s == shape(x.req) IN
        s.method \in mutatingMethods \cup adminRoutes
            => /\ x.role = "admin"
               /\ \/ s.cookie = "admin"
                  \/ s.key # None
                     /\ "admin" \in {RoleForKey[n][s.key] : n \in {s.entry, x.node}}

\* What must hold for good for a forwarded call to get through: the owner is
\* up where the entry node believes it is, its key is known, and the entry
\* node has not cached a connection to an earlier tenant of that address.
\* The last is needed because the pool never drops a connection (client.go:66).
Settled(r) ==
    LET s == shape(r)  n == s.entry IN
    /\ s.target # None /\ Up(n) /\ Up(s.target) /\ PubKey(n, s.target)
    /\ at[Addr(n, s.target)] = s.target
    /\ pool[n][Addr(n, s.target)] \in {None, s.target}

\* The calls the swarm promises to route by their id (ADR-0002), of those the
\* forwarder relays.
Routed == {"GetSandbox", "Exec", "StopSandbox", "DeleteSandbox", "Cordon", "Drain"}

\* A caller who keeps asking reaches the owner of the sandbox once the swarm
\* has settled, whatever moved before.
RetryReachesOwner ==
    \A r \in Requests :
        (/\ shape(r).via = "grpc" /\ shape(r).target # None
         /\ shape(r).method \in Routed
         /\ \A n \in Nodes : RoleOf(n, shape(r).key) = "admin")
            => (<>[]Settled(r) => <>(\E x \in ran : x.req = r /\ x.node = shape(r).target))

=============================================================================
