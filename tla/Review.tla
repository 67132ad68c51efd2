------------------------------- MODULE Review -------------------------------
(***************************************************************************)
(* Reading and answering a review on a forge: ReadReview and               *)
(* ResolveThreads of the API (internal/apiserver/review.go) and their      *)
(* GitHub and Gerrit implementations (internal/gitprovider).               *)
(*                                                                         *)
(* Nothing is kept on the node.  The state is the forge's, shared with the *)
(* people who comment on the same review, and a call is a sequence of HTTP *)
(* requests between which they go on commenting:                           *)
(*   Gerrit  list the comments, post all replies in one review, list again *)
(*           and take the difference for the ids of what was posted;       *)
(*   GitHub  for each reply a mutation that replies and a mutation that    *)
(*           resolves the thread.                                          *)
(* A request may fail before its effect or lose its answer after it.       *)
(*                                                                         *)
(* A comment's id is its place in the sequence comments: both forges only  *)
(* append published comments, so a listing is the length it had.  A Gerrit *)
(* comment names the comment it answers and says whether that leaves the   *)
(* discussion unresolved; a GitHub comment names its thread's first        *)
(* comment, and the thread itself is resolved or not.                      *)
(***************************************************************************)
EXTENDS Integers, Sequences, FiniteSets

CONSTANTS
    Calls,      \* the API calls
    Reviews,    \* [forge, lacks, first, jobs]: see ReviewInit
    Page,       \* threads a GitHub query returns, and comments of each (100 in
                \* githubReadQuery)
    MaxHuman,   \* bound: what people do while calls are under way
    MaxFailures \* bound: requests that fail

IsList(s) == s \in Seq({s[i] : i \in DOMAIN s})

\* The comments that are there first are nobody's but people's.
ASSUME ReviewAssumption ==
    /\ "human" \notin Calls
    /\ \A s \in Reviews :
         IsList(s.first) /\ \A i \in DOMAIN s.first : s.first[i].by \notin Calls

VARIABLES
    review,     \* the deployment and the calls, chosen once
    comments,   \* the forge: [path, parent, open, by, at] in order of arrival
    closed,     \* GitHub: first comments of the resolved threads
    ask,        \* the request each call makes next
    pre,        \* Gerrit: length of the call's first listing
    sends,      \* Gerrit: the composed review; GitHub: the replies left
    created,    \* ids of the comments the call knows it made
    shown,      \* the threads a read found, as sets of ids
    answer,     \* what the caller is told: "pending", "ok" or "error"
    crowded,    \* history: somebody else commented between a call's listings
    unlisted,   \* history: calls whose second listing failed
    doubtful,   \* history: calls that failed when a reply was on the forge
    human,      \* what people did so far
    failures    \* requests that failed so far

forgeVars == <<comments, closed>>
callVars == <<ask, pre, sends, created, shown, answer>>
reviewHistory == <<crowded, unlisted, doubtful>>
reviewVars == <<review, forgeVars, callVars, reviewHistory, human, failures>>

Ids == 1..Len(comments)
Job(c) == review.jobs[c]
Replies(c) == Job(c).replies
Made(c) == {i \in Ids : comments[i].by = c}

(***************************************************************************)
(* The forge                                                               *)
(***************************************************************************)
\* Appends a batch of comments by one author, all with the same time stamp.
\* Calls that are between their two listings will find it in their difference.
PostComments(batch, who) ==
    LET now == 1 + (IF comments = <<>> THEN 0 ELSE comments[Len(comments)].at)
        stamped == [k \in DOMAIN batch |->
                      [path |-> batch[k].path, parent |-> batch[k].parent,
                       open |-> batch[k].open, by |-> who, at |-> now]]
    IN  /\ comments' = comments \o stamped
        /\ crowded' = crowded \cup
                        {d \in Calls \ {who} : ask[d] \in {"post", "relist"}}

\* Somebody starts a discussion or answers a comment.  On GitHub an answer
\* goes to the thread; on Gerrit to any of its comments.
HumanComments(p, parent, open) ==
    /\ human < MaxHuman /\ \E c \in Calls : ask[c] # "done"
    /\ parent \in {0} \cup {i \in Ids : /\ comments[i].path = p
                                        /\ \/ review.forge = "gerrit"
                                           \/ comments[i].parent = 0}
    /\ parent = 0 \/ review.forge = "github" => open
    /\ PostComments(<<[path |-> p, parent |-> parent, open |-> open]>>, "human")
    /\ human' = human + 1
    /\ UNCHANGED <<review, closed, callVars, unlisted, doubtful, failures>>

\* Somebody resolves or reopens a GitHub thread.
HumanToggles(r) ==
    /\ human < MaxHuman /\ \E c \in Calls : ask[c] # "done"
    /\ review.forge = "github" /\ comments[r].parent = 0
    /\ closed' = IF r \in closed THEN closed \ {r} ELSE closed \cup {r}
    /\ human' = human + 1
    /\ UNCHANGED <<review, comments, callVars, reviewHistory, failures>>

(***************************************************************************)
(* Grouping Gerrit's flat list into threads, from a listing of length n    *)
(***************************************************************************)
\* Mutant: the comment a comment answers is its root.
gerritRootOneUp(n) ==
    [i \in 1..n |-> IF comments[i].parent \in 1..n THEN comments[i].parent ELSE i]

\* gerritRoot: walk in_reply_to as far as it leads within the path.
gerritRoot(n) ==
    LET walk[i \in 1..n] ==
          LET p == comments[i].parent
          IN  IF p \in 1..n /\ comments[p].path = comments[i].path
              THEN walk[p] ELSE i
    IN  walk

Group(n, r) == {i \in 1..n : gerritRoot(n)[i] = r}

\* The newest comments of a group.  The code sorts by time and takes the last;
\* comments of one review share their time, so which one it is stays open.
Newest(g) == {i \in g : \A j \in g : comments[j].at <= comments[i].at}

\* gerritThreads: one result for every choice of newest comments.  A thread is
\* unresolved when its newest comment is; the result maps first to newest.
gerritThreads(n) ==
    LET roots == {gerritRoot(n)[i] : i \in 1..n}
        picks == {f \in [roots -> 1..n] : \A r \in roots : f[r] \in Newest(Group(n, r))}
    IN  {[r \in {q \in roots : comments[f[q]].open} |-> f[r]] : f \in picks}

(***************************************************************************)
(* Starting a call                                                         *)
(***************************************************************************)
ReviewInit ==
    /\ review \in Reviews
    /\ comments = review.first
    /\ closed = {}
    /\ ask = [c \in Calls |-> "new"]
    /\ pre = [c \in Calls |-> 0]
    /\ sends = [c \in Calls |-> <<>>]
    /\ created = [c \in Calls |-> {}]
    /\ shown = [c \in Calls |-> {}]
    /\ answer = [c \in Calls |-> "pending"]
    /\ crowded = {} /\ unlisted = {} /\ doubtful = {}
    /\ human = 0 /\ failures = 0

Finish(c, how) ==
    /\ ask' = [ask EXCEPT ![c] = "done"]
    /\ answer' = [answer EXCEPT ![c] = how]

\* reviewEnv: the workspace exists and is git-backed.
reviewEnv == review.lacks # "workspace"

\* The dispatch on the provider: only GitHub and Gerrit have reviews.
Supported == review.forge \in {"github", "gerrit"}

\* GitHub's client needs a token; Gerrit's also an endpoint and a user.
newRESTClient == review.lacks # "token"
newGerritClient == review.lacks \notin {"token", "endpoint", "user"}

Begin(c) ==
    /\ ask[c] = "new"
    /\ IF /\ reviewEnv /\ Supported
          /\ IF review.forge = "gerrit" THEN newGerritClient ELSE newRESTClient
       THEN /\ ask' = [ask EXCEPT ![c] =
                        IF Job(c).op = "read" THEN "read"
                        ELSE IF review.forge = "gerrit" THEN "list" ELSE "reply"]
            /\ sends' = [sends EXCEPT ![c] =
                           IF review.forge = "github" THEN Replies(c) ELSE <<>>]
            /\ UNCHANGED answer
       ELSE Finish(c, "error") /\ UNCHANGED sends
    /\ UNCHANGED <<review, forgeVars, pre, created, shown, reviewHistory, human, failures>>

(***************************************************************************)
(* ReadReview                                                              *)
(***************************************************************************)
\* gerritReadReview: the comments; the change's head is asked for next, for
\* information, and a failure there changes nothing.
GerritRead(c) ==
    /\ ask[c] = "read" /\ review.forge = "gerrit"
    /\ \E t \in gerritThreads(Len(comments)) :
          shown' = [shown EXCEPT ![c] = {Group(Len(comments), r) : r \in DOMAIN t}]
    /\ Finish(c, "ok")
    /\ UNCHANGED <<review, forgeVars, pre, sends, created, reviewHistory, human, failures>>

\* The first page of a set of ids.
FirstPage(s) == {i \in s : Cardinality({j \in s : j <= i}) <= Page}

\* githubReadReview: the first page of threads, without the resolved ones, and
\* the first page of the comments of each.
GithubRead(c) ==
    LET first == FirstPage({r \in Ids : comments[r].parent = 0})
    IN  /\ ask[c] = "read" /\ review.forge = "github"
        /\ shown' = [shown EXCEPT ![c] =
                       {FirstPage({r} \cup {i \in Ids : comments[i].parent = r}) : r \in first \ closed}]
        /\ Finish(c, "ok")
        /\ UNCHANGED <<review, forgeVars, pre, sends, created, reviewHistory, human, failures>>

(***************************************************************************)
(* ResolveThreads on Gerrit                                                *)
(***************************************************************************)
\* A reply without a body is skipped, whatever it asks.
Worded(c) == {j \in DOMAIN Replies(c) : Replies(c)[j].body}

\* The worded replies in their order: there is one such sequence.
InOrder(c) ==
    {w \in UNION {[1..n -> Worded(c)] : n \in 0..Len(Replies(c))} :
        /\ Worded(c) \subseteq {w[k] : k \in DOMAIN w}
        /\ \A k, l \in DOMAIN w : k < l => w[k] < w[l]}

\* The review to post: a reply answers its thread's newest comment.
Compose(c, t, w) ==
    [k \in DOMAIN w |->
        LET reply == Replies(c)[w[k]]
        IN  [path |-> comments[reply.thread].path, parent |-> t[reply.thread],
             open |-> ~reply.resolve]]

\* The first listing.  A reply to a thread that is not (or no longer)
\* unresolved fails the whole call, before anything is posted.
GerritList(c) ==
    /\ ask[c] = "list"
    /\ \E t \in gerritThreads(Len(comments)), w \in InOrder(c) :
          LET wanted == {Replies(c)[k].thread : k \in Worded(c)}
          IN  IF ~(wanted \subseteq DOMAIN t)
              THEN Finish(c, "error") /\ UNCHANGED <<pre, sends>>
              ELSE IF wanted = {}
              THEN Finish(c, "ok") /\ UNCHANGED <<pre, sends>>
              ELSE /\ pre' = [pre EXCEPT ![c] = Len(comments)]
                   /\ sends' = [sends EXCEPT ![c] = Compose(c, t, w)]
                   /\ ask' = [ask EXCEPT ![c] = "post"]
                   /\ UNCHANGED answer
    /\ UNCHANGED <<review, forgeVars, created, shown, reviewHistory, human, failures>>

\* SetReview publishes all replies at once; the answer may get lost.
GerritPost(c) ==
    /\ ask[c] = "post"
    /\ PostComments(sends[c], c)
    /\ \/ /\ ask' = [ask EXCEPT ![c] = "relist"]
          /\ UNCHANGED <<answer, doubtful, failures>>
       \/ /\ failures < MaxFailures /\ failures' = failures + 1
          /\ Finish(c, "error")
          /\ doubtful' = doubtful \cup {c}
    /\ UNCHANGED <<review, closed, pre, sends, created, shown, unlisted, human>>

\* Mutant: every comment of the second listing.
NewIdsAll(c) == Ids

\* gerritCommentIDs of the second listing that the first one did not have.
NewIds(c) == Ids \ 1..pre[c]

GerritRelist(c) ==
    /\ ask[c] = "relist"
    /\ created' = [created EXCEPT ![c] = NewIds(c)]
    /\ Finish(c, "ok")
    /\ UNCHANGED <<review, forgeVars, pre, sends, shown, reviewHistory, human, failures>>

\* The second listing fails: the replies are posted, so the call succeeds,
\* without ids.
GerritRelistFails(c) ==
    /\ ask[c] = "relist"
    /\ failures < MaxFailures /\ failures' = failures + 1
    /\ unlisted' = unlisted \cup {c}
    /\ Finish(c, "ok")
    /\ UNCHANGED <<review, forgeVars, pre, sends, created, shown, crowded, doubtful, human>>

(***************************************************************************)
(* ResolveThreads on GitHub                                                *)
(***************************************************************************)
IsThread(r) == r \in Ids /\ comments[r].parent = 0

\* After the reply the thread is resolved if asked; then the next reply.
Advance(c, from) ==
    IF from = "reply" /\ Head(sends[c]).resolve
    THEN /\ ask' = [ask EXCEPT ![c] = "resolve"]
         /\ UNCHANGED sends
    ELSE /\ ask' = [ask EXCEPT ![c] = "reply"]
         /\ sends' = [sends EXCEPT ![c] = Tail(@)]

\* The forge refuses a thread it does not know, the connection fails, or the
\* answer is an error document.  githubResolveThreads returns the ids it has
\* beside the error; the handler drops them.
GithubGivesUp(c) ==
    /\ Finish(c, "error")
    /\ created' = [created EXCEPT ![c] = {}]

GithubReply(c) ==
    /\ ask[c] = "reply" /\ sends[c] # <<>>
    /\ LET r == Head(sends[c])
       IN  IF ~r.body
           THEN /\ Advance(c, "reply")
                /\ UNCHANGED <<comments, crowded, created, answer, doubtful, failures>>
           ELSE IF ~IsThread(r.thread)
           THEN /\ GithubGivesUp(c)
                /\ doubtful' = IF Made(c) = {} THEN doubtful ELSE doubtful \cup {c}
                /\ UNCHANGED <<comments, crowded, sends, failures>>
           ELSE /\ PostComments(<<[path |-> comments[r.thread].path, parent |-> r.thread,
                              open |-> TRUE]>>, c)
                /\ \/ /\ created' = [created EXCEPT ![c] = @ \cup {Len(comments) + 1}]
                      /\ Advance(c, "reply")
                      /\ UNCHANGED <<answer, doubtful, failures>>
                   \/ /\ failures < MaxFailures /\ failures' = failures + 1
                      /\ GithubGivesUp(c)
                      /\ doubtful' = doubtful \cup {c}
                      /\ UNCHANGED sends
    /\ UNCHANGED <<review, closed, pre, shown, unlisted, human>>

GithubResolve(c) ==
    /\ ask[c] = "resolve"
    /\ LET r == Head(sends[c]).thread
       IN  IF ~IsThread(r)
           THEN /\ GithubGivesUp(c)
                /\ doubtful' = IF Made(c) = {} THEN doubtful ELSE doubtful \cup {c}
                /\ UNCHANGED <<closed, sends, failures>>
           ELSE /\ closed' = closed \cup {r}
                /\ \/ /\ Advance(c, "resolve")
                      /\ UNCHANGED <<created, answer, doubtful, failures>>
                   \/ /\ failures < MaxFailures /\ failures' = failures + 1
                      /\ GithubGivesUp(c)
                      /\ doubtful' = IF Made(c) = {} THEN doubtful ELSE doubtful \cup {c}
                      /\ UNCHANGED sends
    /\ UNCHANGED <<review, comments, pre, shown, crowded, unlisted, human>>

GithubEnds(c) ==
    /\ ask[c] = "reply" /\ sends[c] = <<>>
    /\ Finish(c, "ok")
    /\ UNCHANGED <<review, forgeVars, pre, sends, created, shown, reviewHistory, human, failures>>

\* A request fails before it has any effect: the call ends with its error.
RequestFails(c) ==
    /\ ask[c] \in {"read", "list", "post", "reply", "resolve"}
    /\ ask[c] = "reply" => sends[c] # <<>> /\ Head(sends[c]).body
    /\ failures < MaxFailures /\ failures' = failures + 1
    /\ GithubGivesUp(c)
    /\ doubtful' = IF Made(c) = {} THEN doubtful ELSE doubtful \cup {c}
    /\ UNCHANGED <<review, forgeVars, pre, sends, shown, crowded, unlisted, human>>

Paths == {review.first[i].path : i \in DOMAIN review.first}

ReviewNext ==
    \/ \E p \in Paths, i \in 0..Len(comments), open \in BOOLEAN : HumanComments(p, i, open)
    \/ \E r \in Ids : HumanToggles(r)
    \/ \E c \in Calls :
         \/ Begin(c) \/ GerritRead(c) \/ GithubRead(c)
         \/ GerritList(c) \/ GerritPost(c) \/ GerritRelist(c) \/ GerritRelistFails(c)
         \/ GithubReply(c) \/ GithubResolve(c) \/ GithubEnds(c)
         \/ RequestFails(c)

ReviewSpec == ReviewInit /\ [][ReviewNext]_reviewVars

(***************************************************************************)
(* Properties                                                              *)
(***************************************************************************)
\* ResolveThreads "returns the ids of the comments it created", which the
\* caller keeps so that the bot's own reply never triggers it again
\* (gitprovider/review.go:114-116).  The ids a successful call returns are
\* its own unless somebody commented between its two listings, and all of
\* its own unless the second listing failed; a call that ends with an error
\* has posted nothing unless a request failed when a reply was already there.
\* On Gerrit that means only a lost answer: the replies go out in one request.
AnswersAreOwn ==
    \A c \in Calls :
      /\ answer[c] = "ok" => /\ created[c] \subseteq Made(c) \/ c \in crowded
                             /\ Made(c) \subseteq created[c] \/ c \in unlisted
      /\ answer[c] = "error" => Made(c) = {} \/ c \in doubtful

\* The reference for threads: the smallest sets of comments closed under
\* answering and being answered.
Closed(s, list) ==
    \A i \in s, j \in DOMAIN list :
        list[i].parent = j \/ list[j].parent = i => j \in s
Thread(i, list) ==
    CHOOSE s \in SUBSET DOMAIN list :
        /\ i \in s /\ Closed(s, list)
        /\ \A t \in SUBSET s : i \in t /\ Closed(t, list) => t = s
LeftOpen(s, list, done) ==
    IF review.forge = "github" THEN s \cap done = {}
    ELSE \E i \in s : list[i].open /\ \A j \in s : list[j].at <= list[i].at
LeftClosed(s, list, done) ==
    IF review.forge = "github" THEN s \cap done # {}
    ELSE \E i \in s : ~list[i].open /\ \A j \in s : list[j].at <= list[i].at

\* gerritThreads "groups the change's published comments into threads" by
\* walking reply chains (gerrit_review.go:147-149), while a reply answers the
\* newest comment its call had listed, which need not be the newest any more.
\* However the replies fan out: a read shows every unresolved discussion,
\* whole, and nothing else, but for what githubReadQuery does not ask for:
\* threads after the first page of them, and comments after a thread's first
\* page; and once a Gerrit call has posted, every discussion it was to resolve
\* is resolved.
ThreadsStep ==
    \A c \in Calls :
      /\ (Job(c).op = "read" /\ answer[c] = "pending" /\ answer'[c] = "ok") =>
           LET whole == {Thread(i, comments) : i \in Ids}
               asked(s) == IF review.forge = "github" THEN FirstPage(s) ELSE s
           IN  /\ shown'[c] \subseteq {asked(s) : s \in {t \in whole : LeftOpen(t, comments, closed)}}
               /\ \/ {asked(s) : s \in {t \in whole : ~LeftClosed(t, comments, closed)}} \subseteq shown'[c]
                  \/ review.forge = "github" /\ Cardinality(whole) > Page
      /\ (ask[c] = "post" /\ comments' # comments /\ comments'[Len(comments')].by = c) =>
           \A k \in DOMAIN Replies(c) :
              (\A j \in DOMAIN Replies(c) :
                 Replies(c)[j].thread = Replies(c)[k].thread
                   => Replies(c)[j].body /\ Replies(c)[j].resolve)
                => ~LeftOpen(Thread(Replies(c)[k].thread, comments'), comments', closed)

ThreadsStayWhole == [][ThreadsStep]_reviewVars

\* ResolveThreads "resolves the thread when Reply.Resolve is set"
\* (gitprovider/review.go:114).  It does not hold on Gerrit, where a reply
\* without a body is skipped with its resolution and the call succeeds.
ResolvesWhenSet ==
    \A c \in Calls :
        (ask[c] = "done" /\ answer[c] = "ok" /\ review.forge = "gerrit" /\ Made(c) = {}) =>
            \A k \in DOMAIN Replies(c) : ~Replies(c)[k].resolve
=============================================================================
