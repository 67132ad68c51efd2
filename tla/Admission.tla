------------------------------ MODULE Admission -----------------------------
(***************************************************************************)
(* From a create request to a sandbox: what a node admits at boot, what it *)
(* advertises, what a request is completed to, which nodes are asked, and  *)
(* what the node that is asked makes of it.                                *)
(*                                                                         *)
(* internal/config (Validate), internal/sandbox (kits, workspace           *)
(* arguments, Create), internal/imageref, internal/node (the advertised    *)
(* state, its refresh, the candidates), internal/membership (the gossiped  *)
(* copy) and internal/apiserver (sizes, strategy, the clone rule).         *)
(*                                                                         *)
(* The hard part is that one create is judged three times on different     *)
(* knowledge: by the entry node's sizes, by the entry node's copy of what  *)
(* a peer advertised, and by the peer.  Capacity, cordons, the ranking and *)
(* retries are in Capacity, NodeControl, Scheduler and Placement: here any *)
(* eligible node may be asked next and may decline for capacity.           *)
(*                                                                         *)
(* CPU and memory are counted in halves (of a core, of a GiB) so that a    *)
(* default below one core exists.  An image reference is a record: host    *)
(* "" names no registry, path "lib" is one component and "org" are two,    *)
(* tag "" is absent.                                                       *)
(***************************************************************************)
EXTENDS Integers, Sequences, FiniteSets

CONSTANTS
    Hosts,
    entry,       \* the node the request enters at
    Setups,      \* [cfg, images, pulls, request, refs]: see SetupOK
    MaxHostBoots, \* bound: boots of a node
    MaxChanges,  \* bound: changes to the daemons' images and failed lists of them
    Nil

Manifests == {"plain", "sandbox", "resources", "command", "image", "volumes", "garbled", "missing"}
Dims == {"cpu", "mem", "disk"}

\* A deployment and a request: what the nodes are configured with, the images
\* their daemons start with and those they can pull from a registry, under the
\* daemon's names for them, and the sizes.
SetupOK(s) ==
    /\ \A n \in Hosts :
         /\ \A k \in DOMAIN s.cfg[n].kits : s.cfg[n].kits[k] \in Manifests
         /\ \A w \in DOMAIN s.cfg[n].workspaces :
               s.cfg[n].workspaces[w] \in {"rw", "ro", "git", "git without base"}
         /\ \A ref \in s.images[n] : ref.host # ""
    /\ s.images = [n \in Hosts |-> s.images[n]]
    /\ s.cfg[entry].defaults \in [Dims -> Int] /\ s.request.size \in [Dims -> Int]

ASSUME AdmissionAssumption ==
    /\ entry \in Hosts
    /\ \A s \in Setups : SetupOK(s)
    /\ Nil \notin {"clone rule", "workspace", "primary", "kit", "load", "template",
                  "none eligible"}

VARIABLES
    setup,       \* the deployment and the request, chosen once
    booted,      \* how often a node was booted
    up,          \* the nodes that run
    kits,        \* the kits a node resolves (SDKBackend.kits)
    unchecked,   \* history: of these, the ones advertised without inspection
    images,      \* what a node's daemon holds, as the daemon names it
    local,       \* what a node advertises (Cluster.local)
    view,        \* what the entry node has received of a node, or Nil
    pc,          \* the request: "new", "place", "try", "done"
    sized,       \* the completed request
    eligible,    \* the eligible nodes not asked yet
    snap,        \* history: what the eligible nodes were known to offer
    declined,    \* history: [node, why, current] of the attempts that failed
    outcome,     \* Nil, "created", "invalid", "none eligible", "declined", "failed",
                 \* "lost"
    box,         \* the sandbox that was created, or Nil
    changes

nodeVars == <<booted, up, kits, unchecked, local>>
reqVars == <<pc, sized, eligible, snap, declined, outcome, box>>
createVars == <<setup, nodeVars, images, view, reqVars, changes>>

Cfg(n) == setup.cfg[n]
Request == setup.request

(***************************************************************************)
(* Image references                                                        *)
(***************************************************************************)
Pullable(ref) == ref.host # ""

\* Mutant: a missing tag stays missing.
CanonicalUntagged(ref) ==
    [host |-> IF Pullable(ref) THEN ref.host ELSE "docker.io",
     path |-> IF ~Pullable(ref) /\ ref.path = "lib" THEN "library/lib" ELSE ref.path,
     tag  |-> ref.tag]

\* As a node matches a request with what the daemon lists.
Canonical(ref) ==
    [host |-> IF Pullable(ref) THEN ref.host ELSE "docker.io",
     path |-> IF ~Pullable(ref) /\ ref.path = "lib" THEN "library/lib" ELSE ref.path,
     tag  |-> IF ref.tag = "" THEN "latest" ELSE ref.tag]

\* The daemon's own name for a reference: Docker Hub is the default registry,
\* "library" its default namespace, "latest" the default tag.
DaemonName(ref) ==
    LET hub == ref.host \in {"", "docker.io"}
    IN  [host |-> IF hub THEN "docker.io" ELSE ref.host,
         path |-> IF hub /\ ref.path = "lib" THEN "library/lib" ELSE ref.path,
         tag  |-> IF ref.tag = "" THEN "latest" ELSE ref.tag]

\* The daemon runs what it holds and what it can pull.  It pulls an image of
\* Docker Hub without the name of a registry as well, and a registry may be out
\* of a node's reach.
DaemonHas(n, ref) == DaemonName(ref) \in images[n] \cup setup.pulls[n]

(***************************************************************************)
(* Boot                                                                    *)
(***************************************************************************)
\* Validate, as far as it bears on creates.
Validate(cfg) ==
    /\ cfg.strategy \in {"", "least-loaded", "bin-pack", "spread"}
    /\ \A w \in DOMAIN cfg.workspaces : cfg.workspaces[w] # "git without base"

\* kitInfoFrom: the facts of a manifest.  A block that does not parse counts
\* as declaring resources.
KitInfo(manifest) ==
    [kind |-> IF manifest = "sandbox" THEN "sandbox" ELSE "mixin",
     declares |-> IF manifest \in {"plain", "sandbox"} THEN {}
                  ELSE IF manifest = "garbled" THEN {"resources"} ELSE {manifest}]

\* admit: a mixin that declares none of these.
Admit(info) ==
    /\ info.kind = "mixin"
    /\ info.declares \cap {"resources", "command", "image", "volumes"} = {}

\* admitKits, with the kits whose inspection failed or timed out: those are
\* kept.  The inspections run at the same time and share nothing.
AdmitKits(cfg, broken) ==
    {k \in DOMAIN cfg.kits : k \in broken \/ Admit(KitInfo(cfg.kits[k]))}

\* The initial NodeState of New, built after the kits were admitted.
Advertised(n, admitted, templates) ==
    [workspaces |-> DOMAIN Cfg(n).workspaces, kits |-> admitted, templates |-> templates]

\* A restart of the entry node forgets its peers and gives up the request.
ForgetPeers ==
    /\ view' = [n \in Hosts |-> Nil]
    /\ IF pc \in {"place", "try"} THEN pc' = "done" /\ outcome' = "lost"
       ELSE UNCHANGED <<pc, outcome>>

\* Load and Validate, NewSDKBackend, New.  An inspection fails for a
\* reference that does not load, and may fail for any other.  A failing
\* template list leaves the advertised list empty.
BootHost(n) ==
    /\ booted[n] < MaxHostBoots
    /\ booted' = [booted EXCEPT ![n] = @ + 1]
    /\ IF ~Validate(Cfg(n))
       THEN UNCHANGED <<up, kits, unchecked, local>>
       ELSE \E slow \in SUBSET DOMAIN Cfg(n).kits, listed \in BOOLEAN :
              LET broken == slow \cup {k \in DOMAIN Cfg(n).kits : Cfg(n).kits[k] = "missing"}
                  ok == AdmitKits(Cfg(n), broken)
              IN  /\ Cardinality(slow) <= 1
                  /\ up' = up \cup {n}
                  /\ kits' = [kits EXCEPT ![n] = ok]
                  /\ unchecked' = [unchecked EXCEPT ![n] = ok \cap broken]
                  /\ local' = [local EXCEPT ![n] =
                                 Advertised(n, ok, IF listed THEN images[n] ELSE {})]
    /\ IF n = entry THEN ForgetPeers ELSE UNCHANGED <<view, pc, outcome>>
    /\ UNCHANGED <<setup, images, sized, eligible, snap, declined, box, changes>>

(***************************************************************************)
(* Keeping the advertisement current                                       *)
(***************************************************************************)
\* SaveTemplate, RemoveTemplate, or somebody at the daemon itself.
ImageChanges(n, ref) ==
    /\ changes < MaxChanges /\ changes' = changes + 1
    /\ images' = [images EXCEPT ![n] =
                    IF DaemonName(ref) \in @ THEN @ \ {DaemonName(ref)}
                    ELSE @ \cup {DaemonName(ref)}]
    /\ UNCHANGED <<setup, nodeVars, view, reqVars>>

\* Mutant: the templates stay what they were at boot.
UpdateLocalTemplatesNever(n) == local' = local

\* UpdateLocalTemplates
UpdateLocalTemplates(n) ==
    local' = [local EXCEPT ![n].templates = images[n]]

\* refreshLocalState, every 10 seconds.
RefreshLocalState(n) ==
    /\ n \in up
    /\ UpdateLocalTemplates(n)
    /\ UNCHANGED <<setup, booted, up, kits, unchecked, images, view, reqVars, changes>>

\* The list fails: the last known one stays advertised.
RefreshFails(n) ==
    /\ n \in up
    /\ changes < MaxChanges /\ changes' = changes + 1
    /\ UNCHANGED <<setup, nodeVars, images, view, reqVars>>

\* A push/pull brings the peer's state to the entry node.
Gossip(n) ==
    /\ {entry, n} \subseteq up /\ n # entry
    /\ view' = [view EXCEPT ![n] = local[n]]
    /\ UNCHANGED <<setup, nodeVars, images, reqVars, changes>>

(***************************************************************************)
(* Completing the request                                                  *)
(***************************************************************************)
floor == [cpu |-> 2, mem |-> 2, disk |-> 1]
NoDefaults == [cpu |-> 0, mem |-> 0, disk |-> 0]

\* Mutant: without a default an unset resource stays unset.
effectiveSpecNoFloor(size, defaults) ==
    [d \in Dims |-> IF size[d] > 0 THEN size[d] ELSE defaults[d]]

\* effectiveSpec: an unset resource takes the default, and the floor if there
\* is none.  A request counts whole cores: the default is truncated.
effectiveSpec(size, defaults) ==
    [d \in Dims |->
        IF size[d] > 0 THEN size[d]
        ELSE IF defaults[d] > 0
        THEN IF d = "cpu" THEN 2 * (defaults[d] \div 2) ELSE defaults[d]
        ELSE floor[d]]

\* resolveStrategy
resolveStrategy(asked, default) ==
    LET s == IF asked # "" THEN asked ELSE IF default # "" THEN default ELSE "least-loaded"
    IN  IF s \in {"least-loaded", "bin-pack", "spread", "least-actual-load"} THEN s ELSE Nil

\* CreateSandbox up to the start of the placement.
CreateSandbox ==
    /\ pc = "new" /\ entry \in up
    /\ IF resolveStrategy(Request.strategy, Cfg(entry).strategy) = Nil
       THEN /\ pc' = "done" /\ outcome' = "invalid"
            /\ UNCHANGED sized
       ELSE /\ pc' = "place"
            /\ sized' = effectiveSpec(Request.size, Cfg(entry).defaults)
            /\ UNCHANGED outcome
    /\ UNCHANGED <<setup, nodeVars, images, view, eligible, snap, declined, box, changes>>

(***************************************************************************)
(* Choosing the nodes to ask                                               *)
(***************************************************************************)
\* What a node offers at this moment.
Live(n) == Advertised(n, kits[n], images[n])

\* buildCandidates: the entry node with the templates it lists now, the peers
\* as received.
Candidates(templates) ==
    [n \in {entry} \cup {m \in Hosts : view[m] # Nil} |->
        IF n = entry THEN [workspaces |-> DOMAIN Cfg(n).workspaces,
                           kits |-> kits[n], templates |-> templates]
        ELSE view[n]]

\* requestFromSpec and fits: names only; the capability "clone" is on all nodes.
Fits(c) ==
    /\ {Request.ws[i].name : i \in DOMAIN Request.ws} \subseteq c.workspaces
    /\ Request.kits \subseteq c.kits
    /\ \/ Request.template = Nil
       \/ Pullable(Request.template)
       \/ {Request.template, Canonical(Request.template)} \cap c.templates # {}

\* A list of its own templates that fails counts as empty.
ChooseNodes ==
    /\ pc = "place"
    /\ \E templates \in {images[entry], {}} : snap' = Candidates(templates)
    /\ eligible' = {n \in DOMAIN snap' : Fits(snap'[n])}
    /\ IF eligible' = {} THEN pc' = "done" /\ outcome' = "none eligible"
       ELSE pc' = "try" /\ UNCHANGED outcome
    /\ UNCHANGED <<setup, nodeVars, images, view, sized, declined, box, changes>>

(***************************************************************************)
(* What the asked node does                                                *)
(***************************************************************************)
IsGit(n, w) == w \in DOMAIN Cfg(n).workspaces /\ Cfg(n).workspaces[w] = "git"

\* workspaceResolver: a git base is read-only whatever the operator wrote.
ReadOnly(n, w) == Cfg(n).workspaces[w] \in {"ro", "git"}

\* ProvisionLocal: clone mode takes exactly one workspace, git-backed; a
\* git-backed workspace takes clone mode.
CloneRuleHolds(n) ==
    IF Request.clone THEN Len(Request.ws) = 1 /\ IsGit(n, Request.ws[1].name)
    ELSE \A i \in DOMAIN Request.ws : ~IsGit(n, Request.ws[i].name)

\* workspaceArg: how the i-th workspace is mounted, Nil if it is refused.
workspaceArg(i, ro) ==
    IF i = 1 THEN IF ro /\ ~Request.clone THEN Nil ELSE "rw"
    ELSE IF ro THEN "ro" ELSE "rw"

Mounts(n) == [i \in DOMAIN Request.ws |->
                workspaceArg(i, ReadOnly(n, Request.ws[i].name) \/ Request.ws[i].ro)]

\* Why the node does not create the sandbox, in the order of the checks.
Refusal(n) ==
    IF ~CloneRuleHolds(n) THEN "clone rule"
    ELSE IF \E i \in DOMAIN Request.ws : Request.ws[i].name \notin DOMAIN Cfg(n).workspaces
    THEN "workspace"
    ELSE IF \E i \in DOMAIN Request.ws : Mounts(n)[i] = Nil THEN "primary"
    ELSE IF ~(Request.kits \subseteq kits[n]) THEN "kit"
    ELSE IF \E k \in Request.kits : Cfg(n).kits[k] = "missing" THEN "load"
    ELSE IF Request.template # Nil /\ ~DaemonHas(n, Request.template) THEN "template"
    ELSE Nil

\* Only an unknown kit lets the coordinator go on with the next node.
Declines(n, why) ==
    /\ declined' = declined \cup
         {[node |-> n, why |-> why, current |-> snap[n] = Live(n)]}
    /\ eligible' = eligible \ {n}
    /\ IF why \notin {"kit", "capacity", "down"}
       THEN pc' = "done" /\ outcome' = "failed"
       ELSE IF eligible' = {} THEN pc' = "done" /\ outcome' = "declined"
       ELSE UNCHANGED <<pc, outcome>>
    /\ UNCHANGED box

\* attemptFor: a local attempt takes the spec as it was completed; a peer
\* (Provision) completes what it receives again, with the floor only.  A daemon
\* keeps the image it pulled.
AttemptOn(n) ==
    /\ pc = "try" /\ n \in eligible /\ n \in up
    /\ LET size == IF n = entry THEN sized ELSE effectiveSpec(sized, NoDefaults)
       IN  IF Refusal(n) # Nil THEN Declines(n, Refusal(n)) /\ UNCHANGED images
           ELSE /\ images' = [images EXCEPT ![n] = @ \cup {DaemonName(ref) : ref \in {Request.template} \ {Nil}}]
                /\ box' = [node |-> n, size |-> size, mounts |-> Mounts(n),
                            kits |-> Request.kits, unchecked |-> unchecked[n]]
                /\ pc' = "done" /\ outcome' = "created"
                /\ UNCHANGED <<eligible, declined>>
    /\ UNCHANGED <<setup, nodeVars, view, sized, snap, changes>>

\* The attempt fails for reasons outside this module: a peer that cannot be
\* reached, a call that breaks off, no capacity, a git command that fails.
AttemptFails(n) ==
    /\ pc = "try" /\ n \in eligible
    /\ \/ n # entry /\ \E why \in {"down", "call"} : Declines(n, why)
       \/ n \in up /\ CloneRuleHolds(n) /\ Declines(n, "capacity")
       \/ n \in up /\ CloneRuleHolds(n) /\ Request.clone /\ Declines(n, "git")
    /\ UNCHANGED <<setup, nodeVars, images, view, sized, snap, changes>>

AdmissionInit ==
    /\ setup \in Setups
    /\ booted = [n \in Hosts |-> 0] /\ up = {}
    /\ kits = [n \in Hosts |-> {}] /\ unchecked = [n \in Hosts |-> {}]
    /\ images = setup.images
    /\ local = [n \in Hosts |-> [workspaces |-> {}, kits |-> {}, templates |-> {}]]
    /\ view = [n \in Hosts |-> Nil]
    /\ pc = "new" /\ sized = Nil /\ eligible = {} /\ snap = <<>> /\ declined = {}
    /\ outcome = Nil /\ box = Nil
    /\ changes = 0

AdmissionNext ==
    \/ CreateSandbox \/ ChooseNodes
    \/ \E n \in Hosts :
         \/ BootHost(n) \/ RefreshLocalState(n) \/ RefreshFails(n) \/ Gossip(n)
         \/ AttemptOn(n) \/ AttemptFails(n)
         \/ \E ref \in setup.refs : ImageChanges(n, ref)

AdmissionSpec == AdmissionInit /\ [][AdmissionNext]_createVars

\* The ticker runs as long as the node; memberlist pushes and pulls with every
\* peer in turn.
AdmissionFairness ==
    \A n \in Hosts : WF_createVars(RefreshLocalState(n)) /\ WF_createVars(Gossip(n))

FairAdmission == AdmissionSpec /\ AdmissionFairness

(***************************************************************************)
(* Properties                                                              *)
(***************************************************************************)
\* The node would have to pull the template.
NotHeld(n) == Request.template # Nil /\ DaemonName(Request.template) \notin images[n]

\* The scheduler lets a node be asked only if what it is known to offer
\* covers the request (fits, scheduler.go:107), so the node that is asked
\* refuses a workspace, a kit or a template only if it no longer offers what
\* the entry node had of it; and a request finds no node only if none of the
\* nodes whose advertisement the entry node had in full could have served it.
\* For templates the rule goes by the form of the reference (ADR-0024), so there
\* are two exceptions: a template that names a registry may turn out to be out
\* of the asked node's reach, and one that names none is not placed on a node
\* that could have pulled it from Docker Hub.
AdvertisedIsServed ==
    /\ \A d \in declined :
          d.why \in {"workspace", "kit", "template"} =>
             ~d.current \/ (d.why = "template" /\ Pullable(Request.template))
    /\ outcome = "none eligible" =>
          \A n \in DOMAIN snap : snap[n] = Live(n) =>
             Refusal(n) # Nil \/ (NotHeld(n) /\ ~Pullable(Request.template))

\* What a sandbox is given is what was admitted: each unset resource is
\* "filled from the configured default, else the built-in floor (no untracked
\* sandboxes)" (sandboxservice.go:78-79), so every size is positive, and the
\* one the target reserves is the one the entry node placed, unless the entry
\* node's default is a fraction of a core; a kit that declares resources, a
\* command, an image or volumes (kits.go:32-45) is only ever applied if its
\* inspection failed at boot; and a workspace that is read-only is mounted
\* read/write only as the source of a clone.
CreatedAsAdmitted ==
    box # Nil =>
      /\ \/ \A d \in DOMAIN box.size : box.size[d] > 0 /\ box.size[d] = sized[d]
         \/ Cfg(entry).defaults.cpu = 1
      /\ \A k \in box.kits : Cfg(box.node).kits[k] \in {"plain"} \/ k \in box.unchecked
      /\ \A i \in DOMAIN box.mounts :
           (box.mounts[i] = "rw" /\ ~Request.clone) =>
              ~Request.ws[i].ro /\ Cfg(box.node).workspaces[Request.ws[i].name] = "rw"

\* Templates "used to be a boot-time snapshot, so a template saved at runtime
\* was invisible to peers until a restart" (node.go:620-621): once the images
\* of a node stop changing, the entry node comes to know them and keeps
\* knowing them, though some lists fail.
AdvertsConverge ==
    \A n \in Hosts \ {entry} :
        <>[]({entry, n} \subseteq up => view[n] # Nil /\ view[n].templates = images[n])

\* No sandbox without a size (sandboxservice.go:78-79), without the exception
\* for a fractional default: it does not hold.
NoUntracked == box # Nil => \A d \in DOMAIN box.size : box.size[d] > 0
=============================================================================
