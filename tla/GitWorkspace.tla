---------------------------- MODULE GitWorkspace ----------------------------
(***************************************************************************)
(* A git-backed workspace of a node: its base repository                   *)
(* (internal/git/workspace.go), the clones that sandboxes get of it        *)
(* (provision_git.go) and the ways their work goes upstream                *)
(* (sandboxservice.go, publish_work.go, internal/gitprovider).             *)
(*                                                                         *)
(* A git command, an exec in a sandbox and a request to the forge are one  *)
(* step each, and each may fail, before or after it took effect.  A branch *)
(* is the sequence of its commits; of a commit only its author and its     *)
(* Change-Id trailer are kept, so a push is a fast-forward when the old    *)
(* sequence is a prefix of the new one.  The pipelines are the defaults of *)
(* config.go.  The upstream repository, the forge, and the agents in the   *)
(* sandboxes are external.                                                 *)
(***************************************************************************)
EXTENDS Naturals, Sequences, FiniteSetsExt

CONSTANTS
    Procs,       \* goroutines in ProvisionLocal, doPublish or PublishWork
    Boxes,       \* the clone-mode sandboxes a behaviour can create
    Old,         \* those of them that a base from an earlier run has
    Main,        \* the upstream's default branch
    Features,    \* branches agents create
    Review,      \* review/<id>, the local branch of a Gerrit change
    Change,      \* the Change-Id of that change
    Upstream,    \* the author of commits made elsewhere
    Providers,   \* the forges the workspace may be on
    AllowPush,   \* the workspace's allow_push
    StartsEmpty, \* BOOLEAN: the upstream may have no commit yet
    CallsFail,   \* BOOLEAN: commands, execs and requests may fail
    Selections,  \* sets of branches a PublishSandbox may name
    MaxCommits,  \* bound on the commits of agents and of others upstream
    MaxRequests, \* bound on the requests
    MaxCrashes,
    None

Branches == Features \cup {Main, Review}

\* gerritChangeID derives an id from the source branch; it stands for that id.
ChangeIds == Branches \cup {Change}

Commits == [by : Boxes \cup {Upstream}, id : ChangeIds \cup {None}]

\* The branches of a repository, and the clone of it in a sandbox.
Hist == Seq(Commits) \ {<<>>}
Refs == [Branches -> Hist \cup {None}]
Clones == [refs : Refs, head : Branches \cup {None}, branch : Branches]

IsBranch(h) == h = None \/ h \in Hist

ASSUME GitAssumption ==
    /\ Main # Review /\ {Main, Review} \cap Features = {} /\ Change \notin Branches
    /\ Old \subseteq Boxes /\ Upstream \notin Boxes
    /\ Providers \subseteq {"github", "gitlab", "gerrit", "plain"}
    /\ {AllowPush, StartsEmpty, CallsFail} \subseteq BOOLEAN
    /\ Selections \subseteq SUBSET Branches
    /\ MaxCommits \in Nat /\ MaxRequests \in Nat /\ MaxCrashes \in Nat
    /\ None \notin Procs \cup Boxes \cup ChangeIds \cup Hist \cup Clones

VARIABLES
    mu,       \* Workspace.mu: its holder, or None
    made,     \* the base on disk: "absent", "attached" (a branch is checked
              \* out) or "ready" (HEAD is detached)
    base,     \* refs/heads of the base
    provider,
    up,       \* refs/heads upstream
    changes,  \* Gerrit: the current patchset of each change
    prs,      \* the number of open pull requests for each source branch
    box,      \* the clone of a sandbox and its recorded branch, or None
    pc,       \* the next step of a goroutine
    call,     \* its request and local variables
    requests, \* the requests so far
    commits,  \* the commits so far
    crashes,
    cut,      \* history: the making of the base was interrupted
    overlaid  \* history: the base's branches last written from a bundle or a
              \* patchset, and not pushed since

disk == <<made, base, overlaid>>
remote == <<provider, up, changes, prs>>
node == <<requests, commits, crashes, cut>>
vars == <<mu, disk, remote, box, pc, call, node>>

NoRefs == [br \in Branches |-> None]

Idle == [kind |-> "none", box |-> None, review |-> FALSE, branch |-> None,
         strategy |-> None, target |-> None, todo |-> {}, refs |-> NoRefs,
         patchset |-> None, stolen |-> FALSE]

Commit(author, id) == [by |-> author, id |-> id]

\* The clone the daemon makes of the base, for a record with that branch.
Clone(branch) == [refs |-> base, head |-> None, branch |-> branch]

\* The node starts with a base, and sandboxes of it, from an earlier run or
\* with neither.
Init ==
    LET root == <<Commit(Upstream, None)>> IN
    /\ mu = None
    /\ provider \in Providers
    /\ made \in {"absent", "ready"}
    /\ \/ up = [NoRefs EXCEPT ![Main] = root]
       \/ StartsEmpty /\ made = "absent" /\ up = NoRefs
    /\ base = IF made = "ready" THEN up ELSE NoRefs
    /\ changes = [id \in ChangeIds |->
                    IF id = Change /\ provider = "gerrit"
                    THEN Append(root, Commit(Upstream, Change)) ELSE None]
    /\ prs = [br \in Branches |-> 0]
    /\ box = [b \in Boxes |-> IF b \in Old /\ made = "ready" THEN Clone(Main) ELSE None]
    /\ pc = [p \in Procs |-> "idle"] /\ call = [p \in Procs |-> Idle]
    /\ requests = 0 /\ commits = 0 /\ crashes = 0 /\ cut = FALSE /\ overlaid = {}

-----------------------------------------------------------------------------
Goto(p, label) == pc' = [pc EXCEPT ![p] = label] /\ UNCHANGED call

Update(p, label, c) == pc' = [pc EXCEPT ![p] = label] /\ call' = [call EXCEPT ![p] = c]

Return(p) == Update(p, "idle", Idle)

\* The handler returns, and its deferred or explicit unlock runs if it has the lock.
UnlockReturn(p) == Return(p) /\ mu' = IF mu = p THEN None ELSE mu

Fail(p) == CallsFail /\ UnlockReturn(p)

-----------------------------------------------------------------------------
(***************************************************************************)
(* EnsureBase                                                              *)
(***************************************************************************)
AfterEnsure(c) ==
    IF c.kind = "work" THEN "bundle" ELSE IF c.review THEN "resolve" ELSE "pre"

\* A base that is there is taken as it is.
EnsureBase(p) ==
    /\ pc[p] = "ensure" /\ mu = None
    /\ IF made = "absent" THEN mu' = p /\ Goto(p, "clone")
                          ELSE Goto(p, AfterEnsure(call[p])) /\ UNCHANGED mu
    /\ UNCHANGED <<disk, remote, box, node>>

\* git clone.  One that fails removes what it made; one that is killed does not.
CloneBase(p) ==
    /\ pc[p] = "clone"
    /\ \/ /\ made' = "attached" /\ base' = [base EXCEPT ![Main] = up[Main]]
          /\ Goto(p, "detach") /\ UNCHANGED <<mu, cut>>
       \/ Fail(p) /\ UNCHANGED <<made, base, cut>>
       \/ Fail(p) /\ made' = "attached" /\ cut' = TRUE /\ UNCHANGED base
    /\ UNCHANGED <<overlaid, remote, box, requests, commits, crashes>>

\* Mutant: the clone is left on its branch.
DetachForgotten(p) ==
    /\ pc[p] = "detach"
    /\ mu' = None /\ Goto(p, AfterEnsure(call[p]))
    /\ UNCHANGED <<disk, remote, box, node>>

\* git checkout --detach, unless rev-parse finds no HEAD; a rev-parse that is
\* killed looks the same.
Detach(p) ==
    /\ pc[p] = "detach"
    /\ \/ /\ base[Main] # None
          /\ made' = "ready" /\ mu' = None /\ Goto(p, AfterEnsure(call[p])) /\ UNCHANGED cut
       \/ /\ base[Main] = None \/ CallsFail
          /\ mu' = None /\ Goto(p, AfterEnsure(call[p]))
          /\ cut' = (cut \/ base[Main] # None) /\ UNCHANGED made
       \/ Fail(p) /\ cut' = TRUE /\ UNCHANGED made
    /\ UNCHANGED <<base, overlaid, remote, box, requests, commits, crashes>>

-----------------------------------------------------------------------------
(***************************************************************************)
(* ProvisionLocal                                                          *)
(***************************************************************************)
\* A clone-mode request; review: it names a Review to work on.
Provision(p, b, review) ==
    /\ pc[p] = "idle" /\ box[b] = None /\ \A q \in Procs : call[q].box # b
    /\ Update(p, "ensure", [Idle EXCEPT !.kind = "provision", !.box = b,
                                        !.review = review, !.branch = Main])
    /\ UNCHANGED <<mu, disk, remote, box>>

\* The head of a pull request is a branch the PRE fetch brings; that of a
\* change is a patchset, which has to be fetched.
ResolveReviewHead(p) ==
    /\ pc[p] = "resolve"
    /\ \/ /\ provider = "github"
          /\ \E br \in Branches :
                prs[br] > 0 /\ Update(p, "pre", [call[p] EXCEPT !.branch = br])
          /\ UNCHANGED mu
       \/ /\ provider = "gerrit"
          /\ Update(p, "fetchref", [call[p] EXCEPT !.branch = Review, !.patchset = changes[Change]])
          /\ UNCHANGED mu
       \/ provider # "gerrit" /\ UnlockReturn(p)   \* no such request, or not supported
       \/ Fail(p)
    /\ UNCHANGED <<disk, remote, box, node>>

\* call after the base's branch br was overwritten: a provision that has
\* fetched the review's patchset and has no lock yet has lost it.
Overwritten(br) ==
    [q \in Procs |-> IF br = Review /\ pc[q] = "pre" /\ call[q].patchset # None
                     THEN [call[q] EXCEPT !.stolen = TRUE] ELSE call[q]]

\* FetchRef: +<patchset>:refs/heads/review/<id>, under a lock of its own.
FetchRef(p) ==
    /\ pc[p] = "fetchref" /\ mu = None
    /\ \/ /\ base' = [base EXCEPT ![Review] = call[p].patchset]
          /\ pc' = [pc EXCEPT ![p] = "pre"] /\ call' = Overwritten(Review)
          /\ overlaid' = overlaid \cup {Review} /\ UNCHANGED mu
       \/ Fail(p) /\ UNCHANGED <<base, overlaid>>
    /\ UNCHANGED <<made, remote, box, node>>

\* The base after +refs/heads/*:refs/heads/* brought the branches in got.
Fetched(got) == [br \in Branches |-> IF br \in got /\ up[br] # None THEN up[br] ELSE base[br]]

\* What is left of overlaid then.
Uncovered(got) == overlaid \ {br \in got : up[br] # None}

\* git refuses to fetch into the branch that is checked out, born or not.
Refuses(refs) == made = "absent" \/ (made = "attached" /\ refs[Main] # None)

\* Mutant: the lock is released after the fetch, before the clone is made.
PreLockReleased(p) ==
    /\ pc[p] = "pre" /\ mu = None /\ ~Refuses(up)
    /\ base' = Fetched(Branches) /\ overlaid' = Uncovered(Branches)
    /\ Update(p, "create", [call[p] EXCEPT !.refs = up])
    /\ UNCHANGED <<mu, made, remote, box, node>>

\* PreLock; a fetch that is killed may have moved some of the branches.
PreLock(p) ==
    /\ pc[p] = "pre" /\ mu = None
    /\ \/ /\ ~Refuses(up) /\ mu' = p /\ base' = Fetched(Branches) /\ overlaid' = Uncovered(Branches)
          /\ Update(p, "create", [call[p] EXCEPT !.refs = up])
       \/ /\ ~Refuses(up) /\ Fail(p)
          /\ \E got \in SUBSET Branches : base' = Fetched(got) /\ overlaid' = Uncovered(got)
       \/ Refuses(up) /\ UnlockReturn(p) /\ UNCHANGED <<base, overlaid>>
    /\ UNCHANGED <<made, remote, box, node>>

\* AdmitAndCreate, in which the daemon clones the base, and the deferred unlock.
Create(p) ==
    /\ pc[p] = "create"
    /\ \/ /\ box' = [box EXCEPT ![call[p].box] = Clone(call[p].branch)]
          /\ UnlockReturn(p)
       \/ Fail(p) /\ UNCHANGED box
    /\ UNCHANGED <<disk, remote, node>>

-----------------------------------------------------------------------------
(***************************************************************************)
(* doPublish and PublishWork                                               *)
(***************************************************************************)
\* PublishSandbox and, with no branches, maybeAutoPublish before a stop.
Publish(p, b, branches) ==
    /\ pc[p] = "idle" /\ box[b] # None /\ AllowPush
    /\ Update(p, "head", [Idle EXCEPT !.kind = "publish", !.box = b, !.todo = branches])
    /\ UNCHANGED <<mu, disk, remote, box>>

Supports(strategy) ==
    \/ strategy \in {"branch", "patch"}
    \/ <<provider, strategy>> \in {<<"github", "pull_request">>, <<"gitlab", "merge_request">>,
                                  <<"gerrit", "gerrit_change">>}

PublishWork(p, b, strategy, target) ==
    /\ pc[p] = "idle" /\ box[b] # None
    /\ Supports(strategy) /\ (strategy = "patch" \/ AllowPush)
    /\ Update(p, "head", [Idle EXCEPT !.kind = "work", !.box = b,
                                      !.strategy = strategy, !.target = target])
    /\ UNCHANGED <<mu, disk, remote, box>>

\* The requested branches, or agentHeadBranch.  PublishWork takes the recorded
\* branch if HEAD is detached or the exec fails; doPublish fails then.
SourceBranch(p) ==
    LET c == call[p]
        with(source) == [c EXCEPT !.todo = source] IN
    /\ pc[p] = "head"
    /\ \/ c.todo # {} /\ Goto(p, "bundle")
       \/ /\ c.todo = {} /\ box[c.box].head # None
          /\ Update(p, IF c.kind = "work" THEN "ensure" ELSE "bundle", with({box[c.box].head}))
       \/ /\ c.todo = {} /\ (box[c.box].head = None \/ CallsFail)
          /\ IF c.kind = "work" THEN Update(p, "ensure", with({box[c.box].branch})) ELSE Return(p)
    /\ UNCHANGED <<mu, disk, remote, box, node>>

\* git bundle in the sandbox, and the copy of it to the host.
BundleBranches(p) ==
    LET c == call[p]
        refs == box[c.box].refs IN
    /\ pc[p] = "bundle"
    /\ \/ /\ \A br \in c.todo : refs[br] # None
          /\ Update(p, "fetch", [c EXCEPT !.refs = [br \in Branches |-> IF br \in c.todo THEN refs[br] ELSE None]])
          /\ UNCHANGED mu
       \/ (\E br \in c.todo : refs[br] = None) /\ UnlockReturn(p)
       \/ Fail(p)
    /\ UNCHANGED <<disk, remote, box, node>>

\* The handler is done with branch br and has no lock: doPublish goes on with
\* the next branch, whatever became of this one.
Done(p, br) ==
    LET rest == [call[p] EXCEPT !.todo = @ \ {br}, !.refs[br] = None] IN
    /\ mu' = IF mu = p THEN None ELSE mu
    /\ IF rest.todo # {} THEN Update(p, "fetch", rest) ELSE Return(p)

\* Mutant: the lock is released between the fetch and the push.
FetchReleased(p, br) ==
    /\ pc[p] = "fetch" /\ mu = None /\ br \in call[p].todo
    /\ ~Refuses([NoRefs EXCEPT ![br] = call[p].refs[br]])
    /\ base' = [base EXCEPT ![br] = call[p].refs[br]] /\ overlaid' = overlaid \cup {br}
    /\ pc' = [pc EXCEPT ![p] = "push"]
    /\ call' = [Overwritten(br) EXCEPT ![p].branch = br]
    /\ UNCHANGED <<mu, made, remote, box, node>>

\* The first step of Publish's pipeline, and FetchFromBundle: the bundle's
\* branch overwrites the base's, and the lock is kept.
FetchFromBundle(p, br) ==
    LET refused == Refuses([NoRefs EXCEPT ![br] = call[p].refs[br]]) IN
    /\ pc[p] = "fetch" /\ mu = None /\ br \in call[p].todo
    /\ \/ /\ ~refused /\ mu' = p
          /\ base' = [base EXCEPT ![br] = call[p].refs[br]] /\ overlaid' = overlaid \cup {br}
          /\ pc' = [pc EXCEPT ![p] = "push"]
          /\ call' = [Overwritten(br) EXCEPT ![p].branch = br]
       \/ (refused \/ CallsFail) /\ Done(p, br) /\ UNCHANGED <<base, overlaid>>
    /\ UNCHANGED <<made, remote, box, node>>

\* The branch s is what the first commits of t are.
IsPrefix(s, t) == Len(s) <= Len(t) /\ SubSeq(t, 1, Len(s)) = s

Last(s) == s[Len(s)]
Front(s) == SubSeq(s, 1, Len(s) - 1)

FastForward(old, new) == old # None => IsPrefix(old, new)

Dest(c) == IF c.strategy = "branch" /\ c.target # None THEN c.target ELSE c.branch

OpensRequest(c) == c.strategy \in {"pull_request", "merge_request"}

NeedsTarget(c) == c.strategy \in {"pull_request", "merge_request", "gerrit_change"} /\ c.target = None

\* git push, of Publish's pipeline and of Branch, PullRequest and MergeRequest.
Push(p) ==
    LET c == call[p]
        ff == FastForward(up[Dest(c)], base[c.branch])
        pushed == /\ up' = [up EXCEPT ![Dest(c)] = base[c.branch]]
                  /\ overlaid' = overlaid \ ({c.branch} \cap {Dest(c)}) IN
    /\ pc[p] = "push" /\ ~NeedsTarget(c) /\ c.strategy \notin {"patch", "gerrit_change"}
    /\ \/ ff /\ pushed /\ IF OpensRequest(c) THEN Goto(p, "list") /\ UNCHANGED mu ELSE Done(p, c.branch)
       \/ (~ff \/ CallsFail) /\ Done(p, c.branch) /\ UNCHANGED <<up, overlaid>>
       \/ ff /\ CallsFail /\ pushed /\ Done(p, c.branch)
    /\ UNCHANGED <<made, base, provider, changes, prs, box, node>>

\* Patch only reads the base; the other strategies refuse to do without a target.
PatchOrRefuse(p) ==
    /\ pc[p] = "push" /\ (NeedsTarget(call[p]) \/ call[p].strategy = "patch")
    /\ Done(p, call[p].branch)
    /\ UNCHANGED <<disk, remote, box, node>>

\* createOrUpdate: the open request for the branch is listed; an update of its
\* title and text is not told apart.
ListRequests(p) ==
    LET br == call[p].branch IN
    /\ pc[p] = "list"
    /\ \/ prs[br] = 0 /\ Goto(p, "open") /\ UNCHANGED mu
       \/ (prs[br] > 0 \/ CallsFail) /\ Done(p, br)
    /\ UNCHANGED <<disk, remote, box, node>>

\* createOrUpdate: POST.
OpenRequest(p) ==
    LET br == call[p].branch IN
    /\ pc[p] = "open" /\ Done(p, br)
    /\ \/ br # call[p].target /\ prs' = [prs EXCEPT ![br] = @ + 1]
       \/ (br = call[p].target \/ CallsFail) /\ UNCHANGED prs
    /\ UNCHANGED <<disk, provider, up, changes, box, node>>

\* Mutant: the trailers of the source are not looked at.
ChangeIdDerived(source, target) == source

\* existingChangeID, else gerritChangeID.  What makes git log fail (the
\* deadline, no such target) makes commit-tree fail as well.
ChangeId(source, target) ==
    LET new == {i \in DOMAIN base[source] : ~IsPrefix(SubSeq(base[source], 1, i), base[target])}
        trailers == {i \in new : base[source][i].id # None} IN
    IF trailers = {} THEN source ELSE base[source][Max(trailers)].id

\* GerritChange: the source's tree in one commit on the target, pushed to
\* refs/for/<target>.
GerritChange(p) ==
    LET c == call[p]
        id == ChangeId(c.branch, c.target)
        squashed == Append(base[c.target], Commit(Last(base[c.branch]).by, id)) IN
    /\ pc[p] = "push" /\ c.strategy = "gerrit_change" /\ c.target # None
    /\ Done(p, c.branch)
    /\ \/ base[c.target] # None /\ changes' = [changes EXCEPT ![id] = squashed]
       \/ (base[c.target] = None \/ CallsFail) /\ UNCHANGED changes
    /\ UNCHANGED <<disk, provider, up, prs, box, node>>

-----------------------------------------------------------------------------
(***************************************************************************)
(* The agents, the upstream, and the node's crash and restart              *)
(***************************************************************************)
Committed ==
    commits < MaxCommits /\ commits' = commits + 1 /\ UNCHANGED <<requests, crashes, cut>>

\* An agent commits on a branch of its clone, or on a new one.
AgentCommit(b, br) ==
    /\ box[b] # None /\ Committed
    /\ \E from \in Branches :
        LET h == box[b].refs[from] IN
        /\ h # None
        /\ from = br \/ (br \in Features /\ box[b].refs[br] = None)
        /\ box' = [box EXCEPT ![b].refs[br] = Append(h, Commit(b, None)), ![b].head = br]
    /\ UNCHANGED <<mu, disk, remote, pc, call>>

UpstreamCommit(br) ==
    /\ (up[br] # None \/ br = Main) /\ Committed
    /\ up' = [up EXCEPT ![br] = Append(IF @ = None THEN <<>> ELSE @, Commit(Upstream, None))]
    /\ UNCHANGED <<mu, disk, provider, changes, prs, box, pc, call>>

\* The node stops, its goroutines and git children with it, and starts again.
Crash ==
    /\ crashes < MaxCrashes /\ crashes' = crashes + 1
    /\ mu' = None
    /\ pc' = [p \in Procs |-> "idle"] /\ call' = [p \in Procs |-> Idle]
    /\ \/ /\ \E p \in Procs : pc[p] = "clone"
          /\ made' = "attached" /\ cut' = TRUE
       \/ /\ UNCHANGED made
          /\ cut' = (cut \/ \E p \in Procs : pc[p] = "detach" /\ base[Main] # None)
    /\ UNCHANGED <<base, overlaid, remote, box, requests, commits>>

-----------------------------------------------------------------------------
Serve(p) ==
    \/ EnsureBase(p) \/ CloneBase(p) \/ Detach(p)
    \/ ResolveReviewHead(p) \/ FetchRef(p) \/ PreLock(p) \/ Create(p)
    \/ SourceBranch(p) \/ BundleBranches(p) \/ (\E br \in Branches : FetchFromBundle(p, br))
    \/ Push(p) \/ PatchOrRefuse(p) \/ ListRequests(p) \/ OpenRequest(p) \/ GerritChange(p)

Strategies == {"branch", "patch", "pull_request", "merge_request", "gerrit_change"}

Request(p) ==
    /\ requests < MaxRequests /\ requests' = requests + 1
    /\ UNCHANGED <<commits, crashes, cut>>
    /\ \E b \in Boxes :
        \/ \E review \in BOOLEAN : Provision(p, b, review)
        \/ \E branches \in Selections : Publish(p, b, branches)
        \/ \E strategy \in Strategies, target \in {Main, None} : PublishWork(p, b, strategy, target)

Next ==
    \/ \E p \in Procs : Request(p) \/ Serve(p)
    \/ \E b \in Boxes, br \in Branches : AgentCommit(b, br)
    \/ \E br \in Branches : UpstreamCommit(br)
    \/ Crash

\* Every command has a deadline, and sync.Mutex hands the lock to a goroutine
\* that has waited long.
Spec == Init /\ [][Next]_vars /\ \A p \in Procs : SF_vars(Serve(p))

-----------------------------------------------------------------------------
(***************************************************************************)
(* Properties                                                              *)
(***************************************************************************)
\* The types of the variables.
GitTypeOK ==
    /\ made \in {"absent", "attached", "ready"} /\ provider \in Providers
    /\ \A br \in Branches : IsBranch(base[br]) /\ IsBranch(up[br])
    /\ \A id \in ChangeIds : IsBranch(changes[id])
    /\ prs \in [Branches -> Nat]
    /\ \A b \in Boxes : box[b] # None => \A br \in Branches : IsBranch(box[b].refs[br])
    /\ mu \in Procs \cup {None}

\* A sandbox is created with every branch the upstream had at its PRE fetch,
\* at the commit it had there, whatever is published in the meantime:
\* ProvisionLocal holds the lock from the fetch to the end of Create. A
\* review's sandbox also has the patchset that resolveReviewHead found, unless
\* the base's branch was overwritten between FetchRef and PreLock, or the
\* upstream has a branch of that name, which PreLock fetches over it.
CloneIsUpstream ==
    [][\A p \in Procs : pc[p] = "create" /\ box' # box =>
        LET b == call[p].box IN
        box[b] = None /\ box'[b] # None =>
            /\ \A br \in Branches : call[p].refs[br] # None => box'[b].refs[br] = call[p].refs[br]
            /\ call[p].patchset # None =>
                   \/ box'[b].refs[Review] = call[p].patchset
                   \/ call[p].stolen \/ call[p].refs[Review] # None]_vars

\* What a publish puts upstream is what the publishing sandbox had when it was
\* bundled, though all sandboxes share the base's branches: the fetch from the
\* bundle and the push are one section. A change is one commit of the sandbox's
\* on commits the target has upstream: GerritChange takes its parent from the
\* base, which is behind the upstream and never beside it, as no push is
\* forced. The exception is a target that a publish wrote in the base and did
\* not get upstream: until the next PRE fetch all changes carry its commits.
DeliversOwn ==
    [][\A p \in Procs : pc[p] = "push" /\ pc'[p] # "push" =>
        LET own == call[p].refs[call[p].branch]
            target == call[p].target IN
        /\ \A br \in Branches : up'[br] # up[br] => up'[br] = own
        /\ \A id \in ChangeIds : changes'[id] # changes[id] =>
               /\ Last(changes'[id]).by = Last(own).by
               /\ target \in overlaid \/ IsPrefix(Front(changes'[id]), up[target])]_vars

\* What is published again updates what is there (ADR-0021). createOrUpdate
\* keeps to one open request per source branch, through lost answers, retries
\* and publishes of several sandboxes at once; and work on a review goes to the
\* review's change and never opens another, as long as the change is not
\* merged: its trailer comes along from FetchRef through the clone, the agent's
\* commits and the bundle to existingChangeID.
OneDeliverable ==
    /\ \A br \in Branches : prs[br] <= 1
    /\ changes[Review] # None => up[Main] # None /\ \E i \in DOMAIN up[Main] : up[Main][i].id = Change

\* A base that EnsureBase left is detached, unless its making was interrupted
\* or the upstream had no commit.
BaseIsReady ==
    made = "attached" => \/ cut \/ base[Main] = None
                         \/ mu # None /\ pc[mu] = "detach"

\* Every request returns, whatever fails and whoever holds the lock.
RequestsEnd == \A p \in Procs : pc[p] # "idle" ~> pc[p] = "idle"

\* provision_git.go:37-38: "fetch its Patchset into the base, then check that out".
\* Does not hold; see CloneIsUpstream.
ReviewIsCurrent ==
    [][\A p \in Procs : pc[p] = "create" /\ box' # box /\ call[p].patchset # None =>
        LET b == call[p].box IN
        box[b] = None /\ box'[b] # None => box'[b].refs[Review] = call[p].patchset]_vars

\* workspace.go:113: "nothing checked out to conflict with a later fetch".
\* Does not hold: git does not fetch into an unborn branch that is checked out.
EnsuredIsUsable ==
    \A p \in Procs : pc[p] = "pre" => cut \/ ~Refuses(up)

=============================================================================
