-------------------------- MODULE PlacementProofs --------------------------
(***************************************************************************)
(* Proofs about a create: how it is placed once and only once (Placement)  *)
(* and what it may ask of the node that gets it (Admission).               *)
(*                                                                         *)
(* OneUnlessExcused is for any nodes, requests and entry nodes, any room,  *)
(* any size of the dedup caches, any lost or late answers, any cordons,    *)
(* expired entries and restarts.  It is not inductive.  A request that is  *)
(* not excused has one handler at work at most, the one of its             *)
(* coordinator's last call (OneCall); there is no sandbox when a node is   *)
(* chosen, refuses or is about to create (Clean); and the node that has    *)
(* the sandbox knows it under the request id, or is about to write it      *)
(* down, until the coordinator has it (Kept): the retry finds it there.    *)
(*                                                                         *)
(* A node refuses a create for exactly what its advertisement lacks, so a  *)
(* refusal of an eligible node shows that the advertisement was old.       *)
(***************************************************************************)
EXTENDS Placement, Admission, FiniteSetTheorems, TLAPS

\* Most leaves are first-order; those that need more name SMTT.
\* The times are generous, so that no proof depends on how busy a machine is.
USE ZenonT(60)

-----------------------------------------------------------------------------
(* Part 1: one sandbox for a request *)

Entries == Seq(Requests \X Sandboxes)

TypeInv ==
    /\ ppc \in [Requests -> {"new", "pick", "local", "dial", "wait", "done", "failed"}]
    /\ left \in [Requests -> SUBSET Nodes] /\ target \in [Requests -> Nodes \cup {None}]
    /\ tries \in [Requests -> {0, 1, 2}]
    /\ hpc \in [Calls -> {"none", "cordon", "dedup", "create", "put", "ended"}]
    /\ answer \in [Calls -> Sandboxes \cup {Nack, Failure, None}]
    /\ \A c \in Calls : hpc[c] = "put" => answer[c] \in Sandboxes
    /\ made \in SUBSET Sandboxes /\ dedup \in [Nodes -> Entries]

\* The call a coordinator has sent last.
Current(r) == <<r, target[r], tries[r]>>

\* A handler is at work.
Active == {"cordon", "dedup", "create", "put"}

\* The request has no sandbox.
NoneMade(r) == \A s \in made : s[1] # r

\* The cache has sandbox s under request r.
Knows(entries, r, s) == \E i \in DOMAIN entries : entries[i][1] = r /\ entries[i][2] = s

\* A handler works only for the coordinator's last call.
OneCall(r) ==
    /\ ppc[r] = "dial" => target[r] \in Nodes
    /\ ppc[r] = "wait" => Current(r) \in Calls
    /\ \A c \in Calls : (c[1] = r /\ hpc[c] \in Active) => c = Current(r) /\ ppc[r] \in {"wait", "failed"}

\* While the coordinator has still to choose a node, and when a handler is about
\* to create or has refused, there is no sandbox.
Clean(r) ==
    /\ ppc[r] \in {"new", "pick", "local", "dial"} => NoneMade(r)
    /\ (ppc[r] = "wait" /\ hpc[Current(r)] = "ended" /\ answer[Current(r)] = Nack) => NoneMade(r)
    /\ \A c \in Calls : (c[1] = r /\ hpc[c] = "create") => NoneMade(r)

\* Until the placement is done, the node that has the sandbox remembers the
\* request, or is about to.
Kept(r) ==
    /\ \A c \in Calls : (c[1] = r /\ hpc[c] = "put") => answer[c] = c /\ c \in made
    /\ \A s \in made : s[1] = r =>
          \/ ppc[r] = "done"
          \/ s \in Calls /\ s[2] = target[r] /\ (hpc[s] = "put" \/ Knows(dedup[s[2]], r, s))
    /\ \A s, t \in made : (s[1] = r /\ t[1] = r) => s = t

ReqInv(r) == OneCall(r) /\ Clean(r) /\ Kept(r)

PlaceInv == TypeInv /\ \A r \in Requests \ excused : ReqInv(r)

-----------------------------------------------------------------------------
(***************************************************************************)
(* Calls, sandboxes and caches                                             *)
(***************************************************************************)
\* What a call is.
LEMMA CallIs ==
    ASSUME NEW c \in Calls
    PROVE  /\ c[1] \in Requests /\ c[2] \in Nodes /\ c \in Sandboxes /\ c = <<c[1], c[2], c[3]>>
           /\ c # Nack /\ c # Failure /\ c # None
<1>1. c[1] \in Requests /\ c[2] \in Nodes /\ c \in Sandboxes /\ c = <<c[1], c[2], c[3]>>
  BY SMTT(60) DEF Calls, Sandboxes
<1> QED BY <1>1, PlacementAssumption

\* A call of a request to a node.
LEMMA CallOf ==
    ASSUME NEW r \in Requests, NEW n \in Nodes, NEW k \in {1, 2}
    PROVE  <<r, n, k>> \in Calls /\ <<r, n, k>>[1] = r /\ <<r, n, k>>[2] = n
BY DEF Calls

\* The sandbox of a local attempt.
LEMMA LocalOf ==
    ASSUME NEW r \in Requests
    PROVE  <<r, Entry[r], 0>> \in Sandboxes /\ <<r, Entry[r], 0>>[1] = r
<1>1. Entry[r] \in Nodes
  BY PlacementAssumption
<1> QED BY <1>1 DEF Sandboxes

\* An entry that is not the oldest outlives it.
LEMMA TailKnows ==
    ASSUME NEW s \in Entries, s # <<>>, NEW r, NEW x, Knows(s, r, x), Head(s)[1] # r
    PROVE  Knows(Tail(s), r, x)
<1>1. PICK i \in DOMAIN s : s[i][1] = r /\ s[i][2] = x
  BY DEF Knows
<1>2. i \in 1 .. Len(s) /\ i # 1 /\ Len(s) \in Nat
  BY SMTT(60), <1>1 DEF Entries
<1>3. (i - 1) \in DOMAIN Tail(s) /\ Tail(s)[i - 1] = s[i]
  BY SMTT(60), <1>2 DEF Entries
<1> QED BY <1>1, <1>3 DEF Knows

\* A cache without its oldest entry is another.
LEMMA TailDiffers ==
    ASSUME NEW T, NEW s \in Seq(T), s # <<>>
    PROVE  Tail(s) # s
<1>1. \A k \in Nat : k - 1 # k
  BY SMTT(60)
<1>2. Len(s) \in Nat
  BY SMTT(60)
<1>3. Len(Tail(s)) = Len(s) - 1
  BY SMTT(60)
<1> QED BY <1>1, <1>2, <1>3

\* What a cache is without its oldest entry.
LEMMA TailIs ==
    ASSUME NEW s \in Entries, s # <<>>
    PROVE  Tail(s) \in Entries /\ Head(s)[1] \in Requests
BY SMTT(60) DEF Entries

\* One sequence after another.
LEMMA Joined ==
    ASSUME NEW T, NEW a \in Seq(T), NEW b \in Seq(T)
    PROVE  /\ a \o b \in Seq(T) /\ DOMAIN (a \o b) = 1 .. (Len(a) + Len(b))
           /\ \A i \in 1 .. Len(a) : (a \o b)[i] = a[i]
           /\ \A i \in 1 .. Len(b) : (a \o b)[Len(a) + i] = b[i]
<1>1. a \o b \in Seq(T)
  BY SMTT(60)
<1>2. DOMAIN (a \o b) = 1 .. (Len(a) + Len(b))
  BY SMTT(60)
<1>3. \A i \in 1 .. Len(a) : (a \o b)[i] = a[i]
  BY SMTT(60)
<1>4. \A i \in 1 .. Len(b) : (a \o b)[Len(a) + i] = b[i]
  BY SMTT(60)
<1> QED BY <1>1, <1>2, <1>3, <1>4

\* Without r's entry, a cache has the others'.
LEMMA WithoutIs ==
    ASSUME NEW s \in Entries, NEW q
    PROVE  /\ Without(s, q) \in Entries
           /\ \A r, x : r # q /\ Knows(s, r, x) => Knows(Without(s, q), r, x)
<1> DEFINE at == {i \in DOMAIN s : s[i][1] = q}
<1>1. CASE at = {}
  BY <1>1 DEF Without
<1>2. CASE at # {}
  <2> DEFINE k == CHOOSE j \in at : TRUE
  <2> DEFINE a == SubSeq(s, 1, k - 1)
  <2> DEFINE b == SubSeq(s, k + 1, Len(s))
  <2>1. k \in at
    BY <1>2
  <2>2. Without(s, q) = a \o b
    BY <1>2 DEF Without
  <2>3. k \in DOMAIN s /\ s[k][1] = q
    BY <2>1
  <2> HIDE DEF k
  <2>4. k \in 1 .. Len(s) /\ Len(s) \in Nat
    BY SMTT(60), <2>3 DEF Entries
  <2>5. /\ a \in Entries /\ Len(a) = k - 1 /\ \A i \in 1 .. (k - 1) : a[i] = s[i]
    BY SMTT(60), <2>4 DEF Entries
  <2>6. /\ b \in Entries /\ Len(b) = Len(s) - k /\ \A i \in 1 .. (Len(s) - k) : b[i] = s[k + i]
    BY SMTT(60), <2>4 DEF Entries
  <2> HIDE DEF a, b
  <2>7. /\ a \o b \in Entries /\ DOMAIN (a \o b) = 1 .. (Len(a) + Len(b))
        /\ \A i \in 1 .. Len(a) : (a \o b)[i] = a[i]
        /\ \A i \in 1 .. Len(b) : (a \o b)[Len(a) + i] = b[i]
    <3> DEFINE T == Requests \X Sandboxes
    <3>1. a \in Seq(T) /\ b \in Seq(T)
      BY <2>5, <2>6 DEF Entries
    <3>2. Entries = Seq(T)
      BY DEF Entries
    <3> HIDE DEF T
    <3> QED BY SMTT(60), <3>1, <3>2, Joined
  <2>8. ASSUME NEW r, NEW x, r # q, Knows(s, r, x) PROVE Knows(a \o b, r, x)
    <3>1. PICK i \in DOMAIN s : s[i][1] = r /\ s[i][2] = x
      BY <2>8 DEF Knows
    <3>2. i \in 1 .. Len(s) /\ i # k
      BY SMTT(60), <2>3, <2>8, <3>1 DEF Entries
    <3>3. CASE i < k
      <4>0. Len(a) = k - 1 /\ Len(b) = Len(s) - k /\ DOMAIN (a \o b) = 1 .. (Len(a) + Len(b))
        BY <2>5, <2>6, <2>7
      <4>1. i \in 1 .. (k - 1) /\ i \in 1 .. Len(a) /\ i \in DOMAIN (a \o b)
        BY SMTT(60), <2>4, <3>2, <3>3, <4>0
      <4>2. (a \o b)[i] = s[i]
        BY <2>5, <2>7, <4>1
      <4> QED BY <3>1, <4>1, <4>2 DEF Knows
    <3>4. CASE i > k
      <4>0. Len(a) = k - 1 /\ Len(b) = Len(s) - k /\ DOMAIN (a \o b) = 1 .. (Len(a) + Len(b))
        BY <2>5, <2>6, <2>7
      <4>1. /\ i - k \in 1 .. (Len(s) - k) /\ i - k \in 1 .. Len(b) /\ k + (i - k) = i
            /\ Len(a) + (i - k) \in DOMAIN (a \o b)
        BY SMTT(60), <2>4, <3>2, <3>4, <4>0
      <4>2. (a \o b)[Len(a) + (i - k)] = s[i]
        BY <2>6, <2>7, <4>1
      <4> QED BY <3>1, <4>1, <4>2 DEF Knows
    <3> QED BY SMTT(60), <2>4, <3>2, <3>3, <3>4
  <2> QED BY <2>2, <2>7, <2>8
<1> QED BY <1>1, <1>2

\* A cache with another entry.
LEMMA AppendKnows ==
    ASSUME NEW s \in Entries, NEW r \in Requests, NEW x \in Sandboxes
    PROVE  /\ Append(s, <<r, x>>) \in Entries /\ Knows(Append(s, <<r, x>>), r, x)
           /\ \A q, y : Knows(s, q, y) => Knows(Append(s, <<r, x>>), q, y)
<1> DEFINE e == <<r, x>>
<1>1. e \in Requests \X Sandboxes /\ e[1] = r /\ e[2] = x
  OBVIOUS
<1> HIDE DEF e
<1>2. /\ Append(s, e) \in Entries /\ Len(s) + 1 \in DOMAIN Append(s, e) /\ Append(s, e)[Len(s) + 1] = e
      /\ \A i \in DOMAIN s : i \in DOMAIN Append(s, e) /\ Append(s, e)[i] = s[i]
  BY SMTT(60), <1>1 DEF Entries
<1>3. Knows(Append(s, e), r, x) /\ \A q, y : Knows(s, q, y) => Knows(Append(s, e), q, y)
  BY <1>1, <1>2 DEF Knows
<1> QED BY <1>2, <1>3 DEF e

\* What DedupGet finds.
LEMMA RememberedIs ==
    ASSUME NEW n \in Nodes, NEW r
    PROVE  \A x : x \in Remembered(n, r) <=> Knows(dedup[n], r, x)
BY DEF Remembered, Knows

-----------------------------------------------------------------------------
(***************************************************************************)
(* What a step does to a request                                           *)
(***************************************************************************)
\* A step of others: a cache may forget only what is excused.
LEMMA Frame ==
    ASSUME TypeInv, NEW r \in Requests, ReqInv(r),
           ppc'[r] = ppc[r], target'[r] = target[r], tries'[r] = tries[r],
           \A c \in Calls : c[1] = r => hpc'[c] = hpc[c] /\ answer'[c] = answer[c],
           \A s : s[1] = r => (s \in made' <=> s \in made),
           \A s \in made : (s[1] = r /\ Knows(dedup[s[2]], r, s)) => Knows(dedup'[s[2]], r, s)
    PROVE  ReqInv(r)'
<1>0. OneCall(r) /\ Clean(r) /\ Kept(r)
  BY DEF ReqInv
<1>1. Current(r)' = Current(r)
  BY DEF Current
<1>2. Current(r)[1] = r
  BY DEF Current
<1>3. NoneMade(r) => NoneMade(r)'
  BY DEF NoneMade
<1>4. OneCall(r)'
  BY <1>0, <1>1 DEF OneCall
<1>5. Clean(r)'
  BY <1>0, <1>1, <1>2, <1>3 DEF Clean, OneCall
<1>6. Kept(r)'
  BY <1>0 DEF Kept
<1> QED BY <1>4, <1>5, <1>6 DEF ReqInv

\* A coordinator that has still to choose has no call under way.
LEMMA Choosing ==
    ASSUME NEW r \in Requests, ReqInv(r), ppc[r] \in {"new", "pick", "local", "dial"}
    PROVE  NoneMade(r) /\ \A c \in Calls : c[1] = r => hpc[c] \notin Active
BY DEF ReqInv, OneCall, Clean

\* When its last call has ended, none is under way.
LEMMA CallEnded ==
    ASSUME NEW r \in Requests, ReqInv(r), hpc[Current(r)] = "ended"
    PROVE  \A c \in Calls : c[1] = r => hpc[c] \notin Active
BY DEF ReqInv, OneCall, Active

\* A step that leaves a request without calls and without a sandbox.
LEMMA CleanSlate ==
    ASSUME NEW r \in Requests, NoneMade(r)', \A c \in Calls : c[1] = r => hpc'[c] \notin Active,
           ppc'[r] # "wait", ppc'[r] = "dial" => target'[r] \in Nodes
    PROVE  ReqInv(r)'
<1>1. OneCall(r)'
  BY DEF OneCall
<1>2. Clean(r)' /\ Kept(r)'
  BY DEF Clean, Kept, NoneMade, Active
<1> QED BY <1>1, <1>2 DEF ReqInv

\* What holds while a handler works for a request.
LEMMA Serving ==
    ASSUME NEW c \in Calls, ReqInv(c[1]), hpc[c] \in Active
    PROVE  /\ c = Current(c[1]) /\ ppc[c[1]] \in {"wait", "failed"} /\ target[c[1]] = c[2]
           /\ \A d \in Calls : (d[1] = c[1] /\ d # c) => hpc[d] \notin Active
           /\ \A s \in made : s[1] = c[1] =>
                 s \in Calls /\ s[2] = c[2] /\ ((s = c /\ hpc[c] = "put") \/ Knows(dedup[c[2]], c[1], s))
<1> DEFINE r == c[1]
<1>0. OneCall(r) /\ Kept(r)
  BY DEF ReqInv
<1>1. c = Current(r) /\ ppc[r] \in {"wait", "failed"}
  BY <1>0 DEF OneCall
<1>2. target[r] = c[2]
  BY SMTT(60), <1>1 DEF Current
<1>3. \A d \in Calls : (d[1] = r /\ d # c) => hpc[d] \notin Active
  BY <1>0, <1>1 DEF OneCall
<1>4. ASSUME NEW s \in made, s[1] = r
      PROVE  s \in Calls /\ s[2] = c[2] /\ ((s = c /\ hpc[c] = "put") \/ Knows(dedup[c[2]], r, s))
  <2>1. s \in Calls /\ s[2] = target[r] /\ (hpc[s] = "put" \/ Knows(dedup[s[2]], r, s))
    BY <1>0, <1>1, <1>4 DEF Kept
  <2>2. hpc[s] = "put" => s = c
    BY <1>3, <1>4, <2>1 DEF Active
  <2> QED BY <1>2, <2>1, <2>2
<1> QED BY <1>1, <1>2, <1>3, <1>4

\* A step of a handler that makes no sandbox.
LEMMA Served ==
    ASSUME TypeInv, NEW c \in Calls, ReqInv(c[1]), hpc[c] \in Active \ {"put"},
           UNCHANGED <<ppc, target, tries, made, dedup>>,
           \A d \in Calls : d # c => hpc'[d] = hpc[d] /\ answer'[d] = answer[d],
           hpc'[c] \notin {"none", "put"},
           (hpc'[c] = "create" \/ (hpc'[c] = "ended" /\ answer'[c] = Nack)) => NoneMade(c[1])
    PROVE  ReqInv(c[1])'
<1> DEFINE r == c[1]
<1>0. OneCall(r) /\ Clean(r) /\ Kept(r) /\ r \in Requests
  BY CallIs DEF ReqInv
<1>1. /\ c = Current(r) /\ ppc[r] \in {"wait", "failed"}
      /\ \A d \in Calls : (d[1] = r /\ d # c) => hpc[d] \notin Active
      /\ \A s \in made : s[1] = r => s \in Calls /\ s[2] = c[2] /\ Knows(dedup[c[2]], r, s)
  BY Serving
<1>2. Current(r)' = c /\ c[1] = r /\ (NoneMade(r)' <=> NoneMade(r))
  BY <1>1 DEF Current, NoneMade
<1>3. \A d \in Calls : (d[1] = r /\ d # c) => hpc'[d] \notin Active
  BY <1>1
<1>4. target[r] = c[2]
  BY Serving
<1> HIDE DEF r
<1>5. OneCall(r)'
  BY <1>0, <1>1, <1>2, <1>3 DEF OneCall
<1>6. Clean(r)'
  BY <1>1, <1>2, <1>3 DEF Clean, Active, r
<1>7. Kept(r)'
  <2>1. \A d \in Calls : (d[1] = r /\ hpc'[d] = "put") => d = c
    BY <1>3 DEF Active
  <2> QED BY <1>0, <1>1, <1>4, <2>1 DEF Kept
<1> QED BY <1>5, <1>6, <1>7 DEF ReqInv, r

-----------------------------------------------------------------------------
(***************************************************************************)
(* The coordinator                                                         *)
(***************************************************************************)
\* A step of r's coordinator that sends and makes nothing.
LEMMA Coordinated ==
    ASSUME PlaceInv, NEW r \in Requests, UNCHANGED <<hpc, answer, dedup, made, excused>>,
           \A q \in Requests \ {r} : ppc'[q] = ppc[q] /\ target'[q] = target[q] /\ tries'[q] = tries[q],
           TypeInv', r \notin excused => ReqInv(r)'
    PROVE  PlaceInv'
<1>1. ASSUME NEW q \in Requests \ {r}, q \notin excused PROVE ReqInv(q)'
  BY <1>1, Frame DEF PlaceInv
<1> QED BY <1>1 DEF PlaceInv

\* Schedule.
LEMMA ScheduleKeeps ==
    ASSUME PlaceInv, NEW r \in Requests, Schedule(r)
    PROVE  PlaceInv'
<1>0. TypeInv
  BY DEF PlaceInv
<1>1. PICK C \in SUBSET Nodes : /\ left' = [left EXCEPT ![r] = C]
                                /\ ppc' = [ppc EXCEPT ![r] = IF C = {} THEN "failed" ELSE "pick"]
  BY DEF Schedule, PGoto
<1>2. ppc[r] = "new" /\ UNCHANGED <<target, tries, hpc, answer, dedup, made, excused>>
  BY DEF Schedule, handler
<1>3. TypeInv' /\ ppc'[r] \in {"failed", "pick"} /\ \A q \in Requests \ {r} : ppc'[q] = ppc[q]
  BY <1>0, <1>1, <1>2 DEF TypeInv
<1>4. ASSUME r \notin excused PROVE ReqInv(r)'
  <2>1. NoneMade(r) /\ \A c \in Calls : c[1] = r => hpc[c] \notin Active
    BY <1>2, <1>4, Choosing DEF PlaceInv
  <2> QED BY <1>2, <1>3, <2>1, CleanSlate DEF NoneMade
<1> QED BY <1>2, <1>3, <1>4, Coordinated

\* The next candidate.
LEMMA AttemptKeeps ==
    ASSUME PlaceInv, NEW r \in Requests, Attempt(r)
    PROVE  PlaceInv'
<1>0. TypeInv
  BY DEF PlaceInv
<1>1. ppc[r] = "pick" /\ UNCHANGED <<hpc, answer, dedup, made, excused>>
  BY DEF Attempt, handler
<1>2. \/ ppc' = [ppc EXCEPT ![r] = "failed"] /\ UNCHANGED <<left, target, tries>>
      \/ \E n \in left[r] : /\ left' = [left EXCEPT ![r] = @ \ {n}] /\ target' = [target EXCEPT ![r] = n]
                            /\ tries' = [tries EXCEPT ![r] = 0]
                            /\ ppc' = [ppc EXCEPT ![r] = IF n = Entry[r] THEN "local" ELSE "dial"]
  BY DEF Attempt, PGoto
<1>3. /\ TypeInv' /\ ppc'[r] \in {"failed", "local", "dial"} /\ (ppc'[r] = "dial" => target'[r] \in Nodes)
      /\ \A q \in Requests \ {r} : ppc'[q] = ppc[q] /\ target'[q] = target[q] /\ tries'[q] = tries[q]
  <2>1. CASE ppc' = [ppc EXCEPT ![r] = "failed"] /\ UNCHANGED <<left, target, tries>>
    BY <1>0, <1>1, <2>1 DEF TypeInv
  <2>2. ASSUME NEW n \in left[r], left' = [left EXCEPT ![r] = @ \ {n}], target' = [target EXCEPT ![r] = n],
               tries' = [tries EXCEPT ![r] = 0], ppc' = [ppc EXCEPT ![r] = IF n = Entry[r] THEN "local" ELSE "dial"]
        PROVE  /\ TypeInv' /\ ppc'[r] \in {"failed", "local", "dial"} /\ (ppc'[r] = "dial" => target'[r] \in Nodes)
               /\ \A q \in Requests \ {r} : ppc'[q] = ppc[q] /\ target'[q] = target[q] /\ tries'[q] = tries[q]
    <3>1. left[r] \in SUBSET Nodes /\ n \in Nodes /\ left[r] \ {n} \in SUBSET Nodes
      BY <1>0, <2>2 DEF TypeInv
    <3>2. left' \in [Requests -> SUBSET Nodes]
      BY <1>0, <2>2, <3>1 DEF TypeInv
    <3>3. /\ target' \in [Requests -> Nodes \cup {None}] /\ target'[r] = n
          /\ \A q \in Requests \ {r} : target'[q] = target[q]
      BY <1>0, <2>2, <3>1 DEF TypeInv
    <3>4. tries' \in [Requests -> {0, 1, 2}] /\ \A q \in Requests \ {r} : tries'[q] = tries[q]
      BY <1>0, <2>2 DEF TypeInv
    <3>5. /\ ppc' \in [Requests -> {"new", "pick", "local", "dial", "wait", "done", "failed"}]
          /\ ppc'[r] \in {"local", "dial"} /\ \A q \in Requests \ {r} : ppc'[q] = ppc[q]
      BY <1>0, <2>2 DEF TypeInv
    <3> QED BY <1>0, <1>1, <3>1, <3>2, <3>3, <3>4, <3>5 DEF TypeInv
  <2> QED BY <1>2, <2>1, <2>2
<1>4. ASSUME r \notin excused PROVE ReqInv(r)'
  <2>1. NoneMade(r) /\ \A c \in Calls : c[1] = r => hpc[c] \notin Active
    BY <1>1, <1>4, Choosing DEF PlaceInv
  <2> QED BY <1>1, <1>3, <2>1, CleanSlate DEF NoneMade
<1> QED BY <1>1, <1>3, <1>4, Coordinated

\* The local attempt.
LEMMA AttemptLocalKeeps ==
    ASSUME PlaceInv, NEW r \in Requests, AttemptLocal(r)
    PROVE  PlaceInv'
<1> DEFINE x == <<r, Entry[r], 0>>
<1>0. TypeInv
  BY DEF PlaceInv
<1>1. ppc[r] = "local" /\ UNCHANGED <<left, target, tries, hpc, answer, dedup, excused>>
  BY DEF AttemptLocal, handler
<1>2. \/ made' = made \cup {x} /\ ppc' = [ppc EXCEPT ![r] = "done"]
      \/ ppc' = [ppc EXCEPT ![r] = "pick"] /\ UNCHANGED made
      \/ ppc' = [ppc EXCEPT ![r] = "failed"] /\ UNCHANGED made
  BY DEF AttemptLocal, PGoto
<1>3. x \in Sandboxes /\ x[1] = r
  BY LocalOf
<1> HIDE DEF x
<1>4. r \notin excused => NoneMade(r) /\ \A c \in Calls : c[1] = r => hpc[c] \notin Active
  BY <1>1, Choosing DEF PlaceInv
<1>5. CASE made' = made \cup {x} /\ ppc' = [ppc EXCEPT ![r] = "done"]
  <2>1. TypeInv' /\ ppc'[r] = "done" /\ \A q \in Requests \ {r} : ppc'[q] = ppc[q]
    BY <1>0, <1>1, <1>3, <1>5 DEF TypeInv
  <2>2. ASSUME NEW q \in Requests \ {r}, q \notin excused PROVE ReqInv(q)'
    <3>1. \A s : s[1] = q => (s \in made' <=> s \in made)
      BY <1>3, <1>5
    <3> QED BY <1>0, <1>1, <2>1, <2>2, <3>1, Frame DEF PlaceInv
  <2>3. ASSUME r \notin excused PROVE ReqInv(r)'
    <3>1. OneCall(r)' /\ Clean(r)'
      BY <1>1, <1>4, <2>1, <2>3 DEF OneCall, Clean, Active
    <3>2. Kept(r)'
      BY <1>1, <1>4, <1>5, <2>1, <2>3 DEF Kept, NoneMade, Active
    <3> QED BY <3>1, <3>2 DEF ReqInv
  <2> QED BY <1>1, <2>1, <2>2, <2>3 DEF PlaceInv
<1>6. CASE (ppc' = [ppc EXCEPT ![r] = "pick"] \/ ppc' = [ppc EXCEPT ![r] = "failed"]) /\ UNCHANGED made
  <2>1. TypeInv' /\ ppc'[r] \in {"pick", "failed"} /\ \A q \in Requests \ {r} : ppc'[q] = ppc[q]
    BY <1>0, <1>1, <1>6 DEF TypeInv
  <2>2. r \notin excused => ReqInv(r)'
    BY <1>1, <1>4, <1>6, <2>1, CleanSlate DEF NoneMade
  <2> QED BY <1>1, <1>6, <2>1, <2>2, Coordinated
<1> QED BY <1>2, <1>5, <1>6

\* A call is sent: the coordinator of r waits for a call that has just begun.
LEMMA Sent ==
    ASSUME TypeInv, TypeInv', NEW r \in Requests, ReqInv(r), NEW c \in Calls, c[1] = r,
           UNCHANGED <<target, answer, dedup, made>>, ppc[r] \in {"dial", "wait"},
           \A d \in Calls : d[1] = r => hpc[d] \notin Active,
           hpc' = [hpc EXCEPT ![c] = "cordon"], Current(r)' = c, ppc'[r] = "wait"
    PROVE  ReqInv(r)'
<1>0. OneCall(r) /\ Clean(r) /\ Kept(r)
  BY DEF ReqInv
<1>1. hpc'[c] = "cordon" /\ \A d \in Calls : d # c => hpc'[d] = hpc[d]
  BY DEF TypeInv
<1>2. OneCall(r)'
  BY <1>1 DEF OneCall
<1>3. Clean(r)'
  BY <1>1 DEF Clean, Active
<1>4. Kept(r)'
  <2>1. \A d \in Calls : d[1] = r => hpc[d] # "put" /\ hpc'[d] # "put"
    BY <1>1 DEF Active
  <2> QED BY <1>0, <2>1 DEF Kept
<1> QED BY <1>2, <1>3, <1>4 DEF ReqInv

\* A call is sent to the target, or the target is skipped.
LEMMA DialKeeps ==
    ASSUME PlaceInv, NEW r \in Requests, Dial(r)
    PROVE  PlaceInv'
<1> DEFINE c == <<r, target[r], 1>>
<1>0. TypeInv
  BY DEF PlaceInv
<1>1. ppc[r] = "dial" /\ UNCHANGED <<left, target, answer, dedup, made, excused>>
  BY DEF Dial
<1>2. \/ ppc' = [ppc EXCEPT ![r] = "pick"] /\ UNCHANGED <<tries, hpc>>
      \/ /\ tries' = [tries EXCEPT ![r] = 1] /\ hpc' = [hpc EXCEPT ![c] = "cordon"]
         /\ ppc' = [ppc EXCEPT ![r] = "wait"]
  BY DEF Dial, PGoto, HGoto
<1>3. CASE ppc' = [ppc EXCEPT ![r] = "pick"] /\ UNCHANGED <<tries, hpc>>
  <2>1. TypeInv' /\ ppc'[r] = "pick" /\ \A q \in Requests \ {r} : ppc'[q] = ppc[q]
    BY <1>0, <1>1, <1>3 DEF TypeInv
  <2>2. ASSUME r \notin excused PROVE ReqInv(r)'
    <3>1. NoneMade(r) /\ \A d \in Calls : d[1] = r => hpc[d] \notin Active
      BY <1>1, <2>2, Choosing DEF PlaceInv
    <3> QED BY <1>1, <1>3, <2>1, <3>1, CleanSlate DEF NoneMade
  <2> QED BY <1>1, <1>3, <2>1, <2>2, Coordinated
<1>4. CASE /\ tries' = [tries EXCEPT ![r] = 1] /\ hpc' = [hpc EXCEPT ![c] = "cordon"]
           /\ ppc' = [ppc EXCEPT ![r] = "wait"]
  <2>1. /\ ppc' \in [Requests -> {"new", "pick", "local", "dial", "wait", "done", "failed"}] /\ ppc'[r] = "wait"
        /\ tries' \in [Requests -> {0, 1, 2}] /\ tries'[r] = 1
        /\ \A q \in Requests \ {r} : ppc'[q] = ppc[q] /\ tries'[q] = tries[q]
    BY <1>0, <1>4 DEF TypeInv
  <2>2. /\ hpc' \in [Calls -> {"none", "cordon", "dedup", "create", "put", "ended"}]
        /\ \A d \in Calls : (d # c => hpc'[d] = hpc[d]) /\ (hpc'[d] = "put" => hpc[d] = "put")
    BY <1>0, <1>4 DEF TypeInv
  <2>3. TypeInv'
    BY <1>0, <1>1, <2>1, <2>2 DEF TypeInv
  <2>4. c[1] = r
    OBVIOUS
  <2>5. ASSUME NEW q \in Requests \ {r}, q \notin excused PROVE ReqInv(q)'
    <3>1. \A d \in Calls : d[1] = q => hpc'[d] = hpc[d]
      BY <2>2, <2>4
    <3> QED BY <1>0, <1>1, <2>1, <2>5, <3>1, Frame DEF PlaceInv
  <2>6. ASSUME r \notin excused PROVE ReqInv(r)'
    <3>0. ReqInv(r)
      BY <2>6 DEF PlaceInv
    <3>1. c \in Calls
      BY <1>1, <3>0, CallOf DEF ReqInv, OneCall
    <3>2. \A d \in Calls : d[1] = r => hpc[d] \notin Active
      BY <1>1, <3>0, Choosing
    <3>3. Current(r)' = c
      BY <1>1, <2>1 DEF Current
    <3> HIDE DEF c
    <3> QED BY <1>0, <1>1, <1>4, <2>1, <2>3, <2>4, <3>0, <3>1, <3>2, <3>3, Sent
  <2> QED BY <1>1, <2>3, <2>5, <2>6 DEF PlaceInv
<1> QED BY <1>2, <1>3, <1>4

\* The call is repeated.
LEMMA RetryKeeps ==
    ASSUME PlaceInv, NEW r \in Requests, ppc[r] = "wait", tries[r] = 1,
           tries' = [tries EXCEPT ![r] = 2], hpc' = [hpc EXCEPT ![<<r, target[r], 2>>] = "cordon"],
           excused' = (IF hpc[<<r, target[r], 1>>] = "ended" THEN excused ELSE excused \cup {r}),
           UNCHANGED <<ppc, left, target, answer, dedup, made>>
    PROVE  PlaceInv'
<1> DEFINE c == <<r, target[r], 2>>
<1>0. TypeInv
  BY DEF PlaceInv
<1>1. tries' \in [Requests -> {0, 1, 2}] /\ tries'[r] = 2 /\ \A q \in Requests \ {r} : tries'[q] = tries[q]
  BY <1>0 DEF TypeInv
<1>2. /\ hpc' \in [Calls -> {"none", "cordon", "dedup", "create", "put", "ended"}]
      /\ \A d \in Calls : (d # c => hpc'[d] = hpc[d]) /\ (hpc'[d] = "put" => hpc[d] = "put")
  BY <1>0 DEF TypeInv
<1>3. TypeInv'
  BY <1>0, <1>1, <1>2 DEF TypeInv
<1>4. c[1] = r
  OBVIOUS
<1>5. ASSUME NEW q \in Requests \ {r}, q \notin excused' PROVE ReqInv(q)'
  <2>1. q \notin excused
    BY <1>5
  <2>2. \A d \in Calls : d[1] = q => hpc'[d] = hpc[d]
    BY <1>2, <1>4
  <2> QED BY <1>0, <1>1, <1>5, <2>1, <2>2, Frame DEF PlaceInv
<1>6. ASSUME r \notin excused' PROVE ReqInv(r)'
  <2>1. r \notin excused /\ hpc[<<r, target[r], 1>>] = "ended"
    BY <1>6
  <2>2. ReqInv(r) /\ hpc[Current(r)] = "ended"
    BY <2>1 DEF PlaceInv, Current
  <2>3. \A d \in Calls : d[1] = r => hpc[d] \notin Active
    BY <2>2, CallEnded
  <2>4. c \in Calls
    <3>1. Current(r) \in Calls /\ Current(r)[2] = target[r]
      <4>1. Current(r)[2] = target[r]
        BY DEF Current
      <4> QED BY <2>2, <4>1 DEF ReqInv, OneCall
    <3> QED BY <3>1, CallIs, CallOf
  <2>5. Current(r)' = c
    BY <1>1 DEF Current
  <2> HIDE DEF c
  <2> QED BY <1>0, <1>3, <1>4, <2>2, <2>3, <2>4, <2>5, Sent DEF c
<1> QED BY <1>3, <1>5, <1>6 DEF PlaceInv

\* The coordinator gets an answer or an error.
LEMMA WaitKeeps ==
    ASSUME PlaceInv, NEW r \in Requests, Wait(r)
    PROVE  PlaceInv'
<1> DEFINE c == Current(r)
<1>0. TypeInv
  BY DEF PlaceInv
<1>1. ppc[r] = "wait" /\ UNCHANGED <<left, target, answer, dedup, made>>
  BY DEF Wait
<1>2. \/ /\ hpc[c] = "ended" /\ ppc' = [ppc EXCEPT ![r] = "done"] /\ UNCHANGED <<tries, hpc, excused>>
      \/ /\ hpc[c] = "ended" /\ answer[c] = Nack /\ ppc' = [ppc EXCEPT ![r] = "pick"]
         /\ UNCHANGED <<tries, hpc, excused>>
      \/ ppc' = [ppc EXCEPT ![r] = "failed"] /\ UNCHANGED <<tries, hpc, excused>>
      \/ /\ tries[r] = 1 /\ tries' = [tries EXCEPT ![r] = 2]
         /\ hpc' = [hpc EXCEPT ![<<r, target[r], 2>>] = "cordon"]
         /\ excused' = (IF hpc[<<r, target[r], 1>>] = "ended" THEN excused ELSE excused \cup {r})
         /\ UNCHANGED ppc
  BY DEF Wait, CallError, PGoto, HGoto, Current
<1> HIDE DEF c
<1>3. CASE hpc[c] = "ended" /\ ppc' = [ppc EXCEPT ![r] = "done"] /\ UNCHANGED <<tries, hpc, excused>>
  <2>1. TypeInv' /\ ppc'[r] = "done" /\ \A q \in Requests \ {r} : ppc'[q] = ppc[q]
    BY <1>0, <1>1, <1>3 DEF TypeInv
  <2>2. ASSUME r \notin excused PROVE ReqInv(r)'
    <3>0. ReqInv(r)
      BY <2>2 DEF PlaceInv
    <3>1. \A d \in Calls : d[1] = r => hpc[d] \notin Active
      BY <1>3, <3>0, CallEnded DEF c
    <3>2. OneCall(r)' /\ Clean(r)'
      BY <1>1, <1>3, <2>1, <3>1 DEF OneCall, Clean, Active
    <3>3. Kept(r)'
      BY <1>1, <1>3, <2>1, <3>0 DEF ReqInv, Kept
    <3> QED BY <3>2, <3>3 DEF ReqInv
  <2> QED BY <1>1, <1>3, <2>1, <2>2, Coordinated
<1>4. CASE /\ hpc[c] = "ended" /\ answer[c] = Nack /\ ppc' = [ppc EXCEPT ![r] = "pick"]
           /\ UNCHANGED <<tries, hpc, excused>>
  <2>1. TypeInv' /\ ppc'[r] = "pick" /\ \A q \in Requests \ {r} : ppc'[q] = ppc[q]
    BY <1>0, <1>1, <1>4 DEF TypeInv
  <2>2. ASSUME r \notin excused PROVE ReqInv(r)'
    <3>0. ReqInv(r)
      BY <2>2 DEF PlaceInv
    <3>1. \A d \in Calls : d[1] = r => hpc[d] \notin Active
      BY <1>4, <3>0, CallEnded DEF c
    <3>2. NoneMade(r)'
      BY <1>1, <1>4, <3>0 DEF ReqInv, Clean, c, NoneMade
    <3> QED BY <1>4, <2>1, <3>1, <3>2, CleanSlate
  <2> QED BY <1>1, <1>4, <2>1, <2>2, Coordinated
<1>5. CASE ppc' = [ppc EXCEPT ![r] = "failed"] /\ UNCHANGED <<tries, hpc, excused>>
  <2>1. TypeInv' /\ ppc'[r] = "failed" /\ \A q \in Requests \ {r} : ppc'[q] = ppc[q]
    BY <1>0, <1>1, <1>5 DEF TypeInv
  <2>2. ASSUME r \notin excused PROVE ReqInv(r)'
    <3>0. ReqInv(r)
      BY <2>2 DEF PlaceInv
    <3>1. OneCall(r)'
      BY <1>1, <1>5, <2>1, <3>0 DEF ReqInv, OneCall, Current
    <3>2. Clean(r)'
      BY <1>1, <1>5, <2>1, <3>0 DEF ReqInv, Clean, NoneMade
    <3>3. Kept(r)'
      BY <1>1, <1>5, <2>1, <3>0 DEF ReqInv, Kept
    <3> QED BY <3>1, <3>2, <3>3 DEF ReqInv
  <2> QED BY <1>1, <1>5, <2>1, <2>2, Coordinated
<1> QED BY <1>1, <1>2, <1>3, <1>4, <1>5, RetryKeeps

-----------------------------------------------------------------------------
(***************************************************************************)
(* The target                                                              *)
(***************************************************************************)
\* A step of the handler of c that leaves the caches alone.
LEMMA Handled ==
    ASSUME PlaceInv, TypeInv', NEW c \in Calls, UNCHANGED <<ppc, target, tries, dedup>>,
           \A d \in Calls : d # c => hpc'[d] = hpc[d] /\ answer'[d] = answer[d],
           \A s : s[1] # c[1] => (s \in made' <=> s \in made), excused \subseteq excused',
           c[1] \notin excused' => ReqInv(c[1])'
    PROVE  PlaceInv'
<1>1. ASSUME NEW q \in Requests \ {c[1]}, q \notin excused' PROVE ReqInv(q)'
  <2>1. q \notin excused /\ \A d \in Calls : d[1] = q => hpc'[d] = hpc[d] /\ answer'[d] = answer[d]
    BY <1>1
  <2>2. \A s : s[1] = q => (s \in made' <=> s \in made)
    BY <1>1
  <2> QED BY <1>1, <2>1, <2>2, Frame DEF PlaceInv
<1> QED BY <1>1 DEF PlaceInv

\* The cordon is looked at.
LEMMA CheckCordonKeeps ==
    ASSUME PlaceInv, NEW c \in Calls, CheckCordon(c)
    PROVE  PlaceInv'
<1> DEFINE r == c[1]
<1>0. TypeInv /\ r \in Requests /\ hpc[c] \in Active \ {"put"}
  BY CallIs DEF PlaceInv, CheckCordon, Active
<1>1. UNCHANGED <<ppc, left, target, tries, dedup, made>>
  BY DEF CheckCordon, coordinator
<1>2. CASE /\ answer' = [answer EXCEPT ![c] = Nack] /\ hpc' = [hpc EXCEPT ![c] = "ended"]
           /\ excused' = IF \E s \in On(c[2]) : s[1] = r THEN excused \cup {r} ELSE excused
  <2>1. /\ answer' \in [Calls -> Sandboxes \cup {Nack, Failure, None}] /\ hpc'[c] = "ended"
        /\ hpc' \in [Calls -> {"none", "cordon", "dedup", "create", "put", "ended"}]
        /\ \A d \in Calls : d # c => hpc'[d] = hpc[d] /\ answer'[d] = answer[d]
    BY <1>0, <1>2 DEF TypeInv
  <2>2. TypeInv'
    BY <1>0, <1>1, <2>1 DEF TypeInv
  <2>3. ASSUME r \notin excused' PROVE ReqInv(r)'
    <3>1. ReqInv(r) /\ ~\E s \in On(c[2]) : s[1] = r
      BY <1>0, <1>2, <2>3 DEF PlaceInv
    <3>2. \A s \in made : s[1] = r => s[2] = c[2]
      BY <1>0, <3>1, Serving
    <3>3. NoneMade(r)
      BY <3>1, <3>2 DEF On, NoneMade
    <3> QED BY <1>0, <1>1, <2>1, <3>1, <3>3, Served
  <2>4. excused \subseteq excused'
    BY <1>2
  <2> QED BY <1>1, <2>1, <2>2, <2>3, <2>4, Handled
<1>3. CASE hpc' = [hpc EXCEPT ![c] = "dedup"] /\ UNCHANGED <<answer, excused>>
  <2>1. /\ hpc'[c] = "dedup" /\ hpc' \in [Calls -> {"none", "cordon", "dedup", "create", "put", "ended"}]
        /\ \A d \in Calls : d # c => hpc'[d] = hpc[d]
    BY <1>0, <1>3 DEF TypeInv
  <2>2. TypeInv'
    BY <1>0, <1>1, <1>3, <2>1 DEF TypeInv
  <2>3. ASSUME r \notin excused' PROVE ReqInv(r)'
    <3>1. ReqInv(r)
      BY <1>0, <1>3, <2>3 DEF PlaceInv
    <3> QED BY <1>0, <1>1, <1>3, <2>1, <3>1, Served
  <2> QED BY <1>1, <1>3, <2>1, <2>2, <2>3, Handled
<1> QED BY <1>2, <1>3 DEF CheckCordon, Answer, HGoto

\* dedup.get.
LEMMA DedupGetKeeps ==
    ASSUME PlaceInv, NEW c \in Calls, DedupGet(c)
    PROVE  PlaceInv'
<1> DEFINE r == c[1]
<1> DEFINE n == c[2]
<1>0. TypeInv /\ r \in Requests /\ n \in Nodes /\ hpc[c] = "dedup" /\ hpc[c] \in Active \ {"put"}
  BY CallIs DEF PlaceInv, DedupGet, Active
<1>1. UNCHANGED <<ppc, left, target, tries, dedup, made, excused>>
  BY DEF DedupGet, coordinator
<1>2. \A s : s \in Remembered(n, r) <=> Knows(dedup[n], r, s)
  BY <1>0, RememberedIs
<1>3. ASSUME NEW s, s \in Remembered(n, r), answer' = [answer EXCEPT ![c] = s], hpc' = [hpc EXCEPT ![c] = "ended"]
      PROVE  PlaceInv'
  <2>0. s \in Sandboxes
    <3>1. PICK i \in DOMAIN dedup[n] : dedup[n][i][2] = s
      BY <1>2, <1>3 DEF Knows
    <3>2. dedup[n] \in Seq(Requests \X Sandboxes)
      BY <1>0 DEF TypeInv, Entries
    <3>3. dedup[n][i] \in Requests \X Sandboxes
      BY SMTT(60), <3>1, <3>2
    <3> QED BY <3>1, <3>3
  <2>1. /\ answer' \in [Calls -> Sandboxes \cup {Nack, Failure, None}] /\ hpc'[c] = "ended" /\ answer'[c] = s
        /\ hpc' \in [Calls -> {"none", "cordon", "dedup", "create", "put", "ended"}]
        /\ \A d \in Calls : d # c => hpc'[d] = hpc[d] /\ answer'[d] = answer[d]
    BY <1>0, <1>3, <2>0 DEF TypeInv
  <2>2. TypeInv'
    BY <1>0, <1>1, <2>1 DEF TypeInv
  <2>3. s # Nack
    BY <2>0, PlacementAssumption
  <2>4. ASSUME r \notin excused PROVE ReqInv(r)'
    <3>1. ReqInv(r)
      BY <1>0, <2>4 DEF PlaceInv
    <3> QED BY <1>0, <1>1, <2>1, <2>3, <3>1, Served
  <2> QED BY <1>1, <2>1, <2>2, <2>4, Handled
<1>4. CASE Remembered(n, r) = {} /\ hpc' = [hpc EXCEPT ![c] = "create"] /\ UNCHANGED answer
  <2>1. /\ hpc'[c] = "create" /\ hpc' \in [Calls -> {"none", "cordon", "dedup", "create", "put", "ended"}]
        /\ \A d \in Calls : d # c => hpc'[d] = hpc[d]
    BY <1>0, <1>4 DEF TypeInv
  <2>2. TypeInv'
    BY <1>0, <1>1, <1>4, <2>1 DEF TypeInv
  <2>3. ASSUME r \notin excused PROVE ReqInv(r)'
    <3>1. ReqInv(r)
      BY <1>0, <2>3 DEF PlaceInv
    <3>2. \A s \in made : s[1] = r => Knows(dedup[n], r, s)
      BY <1>0, <3>1, Serving
    <3>3. NoneMade(r)
      BY <1>2, <1>4, <3>2 DEF NoneMade
    <3> QED BY <1>0, <1>1, <1>4, <2>1, <3>1, <3>3, Served
  <2> QED BY <1>1, <1>4, <2>1, <2>2, <2>3, Handled
<1> QED BY <1>3, <1>4 DEF DedupGet, Answer, HGoto

\* ProvisionLocal.
LEMMA ProvisionLocalKeeps ==
    ASSUME PlaceInv, NEW c \in Calls, ProvisionLocal(c)
    PROVE  PlaceInv'
<1> DEFINE r == c[1]
<1>0. TypeInv /\ r \in Requests /\ c \in Sandboxes /\ hpc[c] = "create" /\ hpc[c] \in Active \ {"put"}
  BY CallIs DEF PlaceInv, ProvisionLocal, Active
<1>1. UNCHANGED <<ppc, left, target, tries, dedup, excused>>
  BY DEF ProvisionLocal, coordinator
<1>2. r \notin excused => ReqInv(r) /\ NoneMade(r)
  BY <1>0 DEF PlaceInv, ReqInv, Clean
<1>3. CASE made' = made \cup {c} /\ answer' = [answer EXCEPT ![c] = c] /\ hpc' = [hpc EXCEPT ![c] = "put"]
  <2>1. /\ answer' \in [Calls -> Sandboxes \cup {Nack, Failure, None}] /\ hpc'[c] = "put" /\ answer'[c] = c
        /\ hpc' \in [Calls -> {"none", "cordon", "dedup", "create", "put", "ended"}]
        /\ \A d \in Calls : d # c => hpc'[d] = hpc[d] /\ answer'[d] = answer[d]
        /\ made' \in SUBSET Sandboxes
    BY <1>0, <1>3 DEF TypeInv
  <2>2. TypeInv'
    BY <1>0, <1>1, <2>1 DEF TypeInv
  <2>3. \A s : s[1] # r => (s \in made' <=> s \in made)
    BY <1>3
  <2>4. ASSUME r \notin excused PROVE ReqInv(r)'
    <3>1. /\ c = Current(r) /\ ppc[r] \in {"wait", "failed"} /\ target[r] = c[2]
          /\ \A d \in Calls : (d[1] = r /\ d # c) => hpc[d] \notin Active
      BY <1>0, <1>2, <2>4, Serving
    <3>2. Current(r)' = c
      BY <1>1, <3>1 DEF Current
    <3>3. \A d \in Calls : (d[1] = r /\ d # c) => hpc'[d] \notin Active
      BY <2>1, <3>1
    <3>4. OneCall(r)'
      BY <1>1, <3>1, <3>2, <3>3 DEF OneCall
    <3>5. Clean(r)'
      BY <1>1, <2>1, <3>1, <3>2, <3>3 DEF Clean, Active
    <3>6. \A s \in made' : s[1] = r => s = c
      BY <1>2, <1>3, <2>4 DEF NoneMade
    <3>7. Kept(r)'
      BY <1>1, <1>3, <2>1, <3>1, <3>3, <3>6 DEF Kept, Active
    <3> QED BY <3>4, <3>5, <3>7 DEF ReqInv
  <2> QED BY <1>1, <2>1, <2>2, <2>3, <2>4, Handled
<1>4. ASSUME NEW a \in {Nack, Failure}, UNCHANGED made,
             answer' = [answer EXCEPT ![c] = a], hpc' = [hpc EXCEPT ![c] = "ended"]
      PROVE  PlaceInv'
  <2>1. /\ answer' \in [Calls -> Sandboxes \cup {Nack, Failure, None}] /\ hpc'[c] = "ended"
        /\ hpc' \in [Calls -> {"none", "cordon", "dedup", "create", "put", "ended"}]
        /\ \A d \in Calls : d # c => hpc'[d] = hpc[d] /\ answer'[d] = answer[d]
    BY <1>0, <1>4 DEF TypeInv
  <2>2. TypeInv'
    BY <1>0, <1>1, <1>4, <2>1 DEF TypeInv
  <2>3. r \notin excused => ReqInv(r)'
    BY <1>0, <1>1, <1>2, <1>4, <2>1, Served
  <2> QED BY <1>1, <1>4, <2>1, <2>2, <2>3, Handled
<1> QED BY <1>3, <1>4 DEF ProvisionLocal, Answer, HGoto

\* dedup.put: whom the cache forgets is excused.
LEMMA DedupPutKeeps ==
    ASSUME PlaceInv, NEW c \in Calls, DedupPut(c)
    PROVE  PlaceInv'
<1> DEFINE r == c[1]
<1> DEFINE n == c[2]
<1> DEFINE kept == IF Len(dedup[n]) >= DedupMax THEN Tail(dedup[n]) ELSE dedup[n]
<1>0. TypeInv /\ r \in Requests /\ n \in Nodes /\ hpc[c] = "put" /\ hpc[c] \in Active /\ c \in Sandboxes
  BY CallIs DEF PlaceInv, DedupPut, Active
<1>1. /\ UNCHANGED <<ppc, left, target, tries, answer, made>> /\ hpc' = [hpc EXCEPT ![c] = "ended"]
      /\ dedup' = [dedup EXCEPT ![n] = Append(Without(kept, r), <<r, answer[c]>>)]
      /\ excused' = (IF kept = dedup[n] THEN excused ELSE excused \cup {Head(dedup[n])[1]})
  BY DEF DedupPut, coordinator, HGoto
<1>2. dedup[n] \in Entries
  BY <1>0 DEF TypeInv
<1>3. kept \in Entries /\ \A q \in Requests \ excused' : \A s : Knows(dedup[n], q, s) => Knows(kept, q, s)
  <2>1. CASE Len(dedup[n]) >= DedupMax
    <3>1. dedup[n] # <<>> /\ Tail(dedup[n]) # dedup[n]
      <4> DEFINE d == dedup[n]
      <4>1. d \in Seq(Requests \X Sandboxes) /\ Len(d) >= DedupMax
        BY <1>2, <2>1 DEF Entries
      <4>2. DedupMax \in Nat \ {0}
        BY PlacementAssumption
      <4> HIDE DEF d
      <4>3. d # <<>>
        BY SMTT(60), <4>1, <4>2
      <4>4. Tail(d) # d
        BY <4>1, <4>3, TailDiffers
      <4> QED BY <4>3, <4>4 DEF d
    <3>2. kept = Tail(dedup[n]) /\ kept # dedup[n]
      BY <2>1, <3>1
    <3>3. excused' = excused \cup {Head(dedup[n])[1]}
      BY <1>1, <3>2
    <3> QED BY <1>2, <3>1, <3>2, <3>3, TailKnows, TailIs
  <2>2. CASE ~(Len(dedup[n]) >= DedupMax)
    BY <1>2, <2>2
  <2> QED BY <2>1, <2>2
<1>4. excused \subseteq excused'
  BY <1>1
<1> HIDE DEF kept, n
<1>5. answer[c] \in Sandboxes
  BY <1>0 DEF TypeInv
<1>6. /\ dedup' \in [Nodes -> Entries] /\ \A m \in Nodes : m # n => dedup'[m] = dedup[m]
      /\ Knows(dedup'[n], r, answer[c])
      /\ \A q \in Requests \ excused' : q # r => \A s : Knows(dedup[n], q, s) => Knows(dedup'[n], q, s)
  <2>1. /\ Append(Without(kept, r), <<r, answer[c]>>) \in Entries
        /\ Knows(Append(Without(kept, r), <<r, answer[c]>>), r, answer[c])
        /\ \A q \in Requests \ excused' : q # r =>
              \A s : Knows(dedup[n], q, s) => Knows(Append(Without(kept, r), <<r, answer[c]>>), q, s)
    BY <1>0, <1>3, <1>5, WithoutIs, AppendKnows
  <2> HIDE DEF r
  <2>2. dedup \in [Nodes -> Entries]
    BY <1>0 DEF TypeInv
  <2> QED BY <1>0, <1>1, <2>1, <2>2
<1>7. /\ hpc'[c] = "ended" /\ hpc' \in [Calls -> {"none", "cordon", "dedup", "create", "put", "ended"}]
      /\ \A d \in Calls : d # c => hpc'[d] = hpc[d]
  BY <1>0, <1>1 DEF TypeInv
<1>8. TypeInv'
  BY <1>0, <1>1, <1>6, <1>7 DEF TypeInv
<1>9. ASSUME NEW q \in Requests \ {r}, q \notin excused' PROVE ReqInv(q)'
  <2>1. ReqInv(q) /\ \A d \in Calls : d[1] = q => hpc'[d] = hpc[d]
    BY <1>4, <1>7, <1>9 DEF PlaceInv
  <2>2. ASSUME NEW s \in made, s[1] = q, Knows(dedup[s[2]], q, s) PROVE Knows(dedup'[s[2]], q, s)
    <3>1. s[2] \in Nodes
      <4>1. s \in Sandboxes
        BY <1>0, <2>2 DEF TypeInv
      <4> QED BY <4>1 DEF Sandboxes
    <3> QED BY <1>6, <1>9, <2>2, <3>1
  <2> QED BY <1>0, <1>1, <1>9, <2>1, <2>2, Frame
<1>10. ASSUME r \notin excused' PROVE ReqInv(r)'
  <2>0. ReqInv(r)
    BY <1>0, <1>4, <1>10 DEF PlaceInv
  <2>1. OneCall(r) /\ Clean(r) /\ Kept(r) /\ answer[c] = c /\ c \in made
    BY <1>0, <2>0 DEF ReqInv, Kept
  <2>2. /\ c = Current(r) /\ ppc[r] \in {"wait", "failed"} /\ target[r] = c[2]
        /\ \A d \in Calls : (d[1] = r /\ d # c) => hpc[d] \notin Active
    BY <1>0, <2>0, Serving
  <2>3. \A d \in Calls : d[1] = r => hpc'[d] \notin Active
    BY <1>7, <2>2 DEF Active
  <2>4. Current(r)' = c /\ c # Nack
    BY <1>1, <2>2, CallIs DEF Current
  <2>5. OneCall(r)'
    BY <1>1, <2>1, <2>2, <2>3, <2>4 DEF OneCall
  <2>6. Clean(r)'
    BY <1>1, <2>1, <2>2, <2>3, <2>4 DEF Clean, Active
  <2>7. \A s \in made : s[1] = r => s = c
    BY <2>1 DEF Kept
  <2>8. Kept(r)'
    <3>1. \A d \in Calls : d[1] = r => hpc'[d] # "put"
      BY <2>3 DEF Active
    <3>2. Knows(dedup'[c[2]], r, c)
      BY <1>6, <2>1 DEF n
    <3>3. made' = made /\ target'[r] = c[2]
      BY <1>1, <2>2
    <3> QED BY <2>7, <3>1, <3>2, <3>3 DEF Kept
  <2> QED BY <2>5, <2>6, <2>8 DEF ReqInv
<1> QED BY <1>4, <1>8, <1>9, <1>10 DEF PlaceInv

-----------------------------------------------------------------------------
\* A cordon changes no placement under way.
LEMMA CordonKeeps ==
    ASSUME PlaceInv, NEW n \in Nodes, Cordon(n)
    PROVE  PlaceInv'
<1>1. UNCHANGED <<ppc, left, target, tries, hpc, answer, dedup, made, excused>>
  BY DEF Cordon, coordinator, handler
<1>2. TypeInv'
  BY <1>1 DEF PlaceInv, TypeInv
<1>3. ASSUME NEW q \in Requests \ excused PROVE ReqInv(q)'
  BY <1>1, <1>3, Frame DEF PlaceInv
<1> QED BY <1>1, <1>2, <1>3 DEF PlaceInv

\* An entry expires.
LEMMA ExpireKeeps ==
    ASSUME PlaceInv, NEW n \in Nodes, Expire(n)
    PROVE  PlaceInv'
<1>0. TypeInv /\ dedup[n] \in Entries
  BY DEF PlaceInv, TypeInv
<1>1. /\ UNCHANGED <<ppc, left, target, tries, hpc, answer, made>> /\ dedup[n] # <<>>
      /\ dedup' = [dedup EXCEPT ![n] = Tail(@)] /\ excused' = excused \cup {Head(dedup[n])[1]}
  BY DEF Expire, coordinator, handler
<1>2. /\ dedup' \in [Nodes -> Entries] /\ dedup'[n] = Tail(dedup[n])
      /\ \A m \in Nodes : m # n => dedup'[m] = dedup[m]
  BY <1>0, <1>1, TailIs DEF TypeInv
<1>3. TypeInv'
  BY <1>0, <1>1, <1>2 DEF TypeInv
<1>4. ASSUME NEW q \in Requests \ excused' PROVE ReqInv(q)'
  <2>1. ReqInv(q) /\ Head(dedup[n])[1] # q
    BY <1>1, <1>4 DEF PlaceInv
  <2>2. ASSUME NEW s \in made, s[1] = q, Knows(dedup[s[2]], q, s) PROVE Knows(dedup'[s[2]], q, s)
    <3>1. s[2] \in Nodes
      <4>1. s \in Sandboxes
        BY <1>0, <2>2 DEF TypeInv
      <4> QED BY <4>1 DEF Sandboxes
    <3> QED BY <1>0, <1>1, <1>2, <2>1, <2>2, <3>1, TailKnows
  <2> QED BY <1>0, <1>1, <1>4, <2>1, <2>2, Frame
<1> QED BY <1>3, <1>4 DEF PlaceInv

\* A node restarts: whose sandbox it has is excused.
LEMMA RestartKeeps ==
    ASSUME PlaceInv, NEW n \in Nodes, Restart(n)
    PROVE  PlaceInv'
<1>0. TypeInv
  BY DEF PlaceInv
<1>1. /\ UNCHANGED <<left, target, tries, made>> /\ dedup' = [dedup EXCEPT ![n] = <<>>]
      /\ excused' = excused \cup {s[1] : s \in On(n)}
      /\ hpc' = [c \in Calls |-> IF c[2] = n /\ hpc[c] # "none" THEN "ended" ELSE hpc[c]]
      /\ answer' = [c \in Calls |-> IF c[2] = n /\ hpc[c] # "none" THEN Failure ELSE answer[c]]
      /\ ppc' = [r \in Requests |-> IF Entry[r] = n /\ ppc[r] # "done" THEN "failed" ELSE ppc[r]]
  BY DEF Restart
<1>2. \A c \in Calls : \/ hpc'[c] = "ended" /\ answer'[c] = Failure /\ c[2] = n
                       \/ hpc'[c] = hpc[c] /\ answer'[c] = answer[c] /\ (c[2] # n \/ hpc[c] = "none")
  BY <1>1
<1>3. \A r \in Requests : ppc'[r] = ppc[r] \/ (ppc'[r] = "failed" /\ ppc[r] # "done")
  BY <1>1
<1>4. /\ hpc' \in [Calls -> {"none", "cordon", "dedup", "create", "put", "ended"}]
      /\ answer' \in [Calls -> Sandboxes \cup {Nack, Failure, None}]
  BY <1>0, <1>1 DEF TypeInv
<1>5. ppc' \in [Requests -> {"new", "pick", "local", "dial", "wait", "done", "failed"}]
  BY <1>0, <1>1 DEF TypeInv
<1>6. dedup' \in [Nodes -> Entries] /\ \A m \in Nodes : m # n => dedup'[m] = dedup[m]
  <2>1. <<>> \in Entries
    BY SMTT(60) DEF Entries
  <2> QED BY <1>0, <1>1, <2>1 DEF TypeInv
<1>7. TypeInv'
  BY <1>0, <1>1, <1>2, <1>4, <1>5, <1>6 DEF TypeInv
<1>8. ASSUME NEW r \in Requests \ excused' PROVE ReqInv(r)'
  <2>0. ReqInv(r) /\ OneCall(r) /\ Clean(r) /\ Kept(r)
    BY <1>1, <1>8 DEF PlaceInv, ReqInv
  <2>1. \A s \in made : s[1] = r => s[2] # n /\ s[2] \in Nodes
    <3>1. \A s \in made : s[1] = r => s[2] # n
      BY <1>1, <1>8 DEF On
    <3>2. \A s \in Sandboxes : s[2] \in Nodes
      BY DEF Sandboxes
    <3> QED BY <1>0, <3>1, <3>2 DEF TypeInv
  <2>2. Current(r)' = Current(r) /\ (NoneMade(r)' <=> NoneMade(r))
    BY <1>1 DEF Current, NoneMade
  <2>3. \A c \in Calls : hpc'[c] \in Active => hpc'[c] = hpc[c] /\ answer'[c] = answer[c]
    BY <1>2 DEF Active
  <2>4. OneCall(r)'
    BY <1>1, <1>3, <1>8, <2>0, <2>2, <2>3 DEF OneCall
  <2>5. Clean(r)'
    <3>1. ppc'[r] = "wait" => Current(r) \in Calls /\ ppc[r] = "wait"
      BY <1>3, <1>8, <2>0 DEF OneCall
    <3>2. Failure # Nack
      BY PlacementAssumption
    <3>3. ASSUME ppc'[r] = "wait", hpc'[Current(r)] = "ended", answer'[Current(r)] = Nack PROVE NoneMade(r)
      BY <1>2, <2>0, <3>1, <3>2, <3>3 DEF Clean
    <3>4. \A c \in Calls : (c[1] = r /\ hpc'[c] = "create") => NoneMade(r)
      BY <2>0, <2>3 DEF Clean, Active
    <3>5. ppc'[r] \in {"new", "pick", "local", "dial"} => NoneMade(r)
      BY <1>3, <1>8, <2>0 DEF Clean
    <3> QED BY <2>2, <3>3, <3>4, <3>5 DEF Clean
  <2>6. Kept(r)'
    <3>1. \A c \in Calls : (c[1] = r /\ hpc'[c] = "put") => answer'[c] = c /\ c \in made
      BY <2>0, <2>3 DEF Kept, Active
    <3>2. ASSUME NEW s \in made, s[1] = r, ppc'[r] # "done"
          PROVE  s \in Calls /\ s[2] = target[r] /\ (hpc'[s] = "put" \/ Knows(dedup'[s[2]], r, s))
      <4>1. ppc[r] # "done"
        BY <1>3, <1>8, <3>2
      <4>2. s \in Calls /\ s[2] = target[r] /\ (hpc[s] = "put" \/ Knows(dedup[s[2]], r, s))
        BY <2>0, <3>2, <4>1 DEF Kept
      <4> QED BY <1>2, <1>6, <2>1, <3>2, <4>2
    <3> QED BY <1>1, <2>0, <3>1, <3>2 DEF Kept
  <2> QED BY <2>4, <2>5, <2>6 DEF ReqInv
<1> QED BY <1>7, <1>8 DEF PlaceInv

-----------------------------------------------------------------------------
\* Nothing is placed at first.
LEMMA InitHolds ==
    ASSUME Init
    PROVE  PlaceInv
<1>0. /\ ppc = [r \in Requests |-> "new"] /\ left = [r \in Requests |-> {}]
      /\ target = [r \in Requests |-> None] /\ tries = [r \in Requests |-> 0]
      /\ hpc = [c \in Calls |-> "none"] /\ answer = [c \in Calls |-> None]
      /\ dedup = [n \in Nodes |-> <<>>] /\ made = {}
  BY DEF Init
<1>1. dedup \in [Nodes -> Entries]
  <2>1. <<>> \in Entries
    BY SMTT(60) DEF Entries
  <2> QED BY <1>0, <2>1
<1>2. /\ hpc \in [Calls -> {"none", "cordon", "dedup", "create", "put", "ended"}]
      /\ answer \in [Calls -> Sandboxes \cup {Nack, Failure, None}]
      /\ \A c \in Calls : hpc[c] = "none"
  BY <1>0
<1>3. TypeInv
  BY <1>0, <1>1, <1>2 DEF TypeInv
<1>4. ASSUME NEW r \in Requests PROVE ReqInv(r)
  <2>1. ppc[r] = "new"
    BY <1>0
  <2>2. OneCall(r)
    BY <1>2, <2>1 DEF OneCall, Active
  <2>3. Clean(r) /\ Kept(r)
    BY <1>0, <1>2, <2>1 DEF Clean, Kept, NoneMade
  <2> QED BY <2>2, <2>3 DEF ReqInv
<1> QED BY <1>3, <1>4 DEF PlaceInv

\* Every step keeps the invariant.
LEMMA NextKeeps ==
    ASSUME PlaceInv, [Next]_vars
    PROVE  PlaceInv'
<1>1. CASE UNCHANGED vars
  <2>1. UNCHANGED <<ppc, left, target, tries, hpc, answer, dedup, made, excused>>
    BY <1>1 DEF vars, coordinator, handler
  <2>2. TypeInv'
    BY <2>1 DEF PlaceInv, TypeInv
  <2>3. ASSUME NEW q \in Requests \ excused PROVE ReqInv(q)'
    BY <2>1, <2>3, Frame DEF PlaceInv
  <2> QED BY <2>1, <2>2, <2>3 DEF PlaceInv
<1>2. CASE Next
  BY <1>2, ScheduleKeeps, AttemptKeeps, AttemptLocalKeeps, DialKeeps, WaitKeeps, CheckCordonKeeps, DedupGetKeeps,
     ProvisionLocalKeeps, DedupPutKeeps, CordonKeeps, ExpireKeeps, RestartKeeps DEF Next, PlaceStep, HandlerStep
<1> QED BY <1>1, <1>2

\* In every reachable state, a request that is not excused has one call under
\* way at most, and the node that has its sandbox knows the request.
THEOREM PlacementInvariant == Spec => []PlaceInv
<1>1. Init => PlaceInv
  BY InitHolds
<1>2. PlaceInv /\ [Next]_vars => PlaceInv'
  BY NextKeeps
<1> QED BY <1>1, <1>2, PTL DEF Spec

\* A call whose answer is lost and its retry make one sandbox in the whole
\* swarm, unless the request is excused (callProvisionWithRetry, dedup).
THEOREM OneSandboxEach == Spec => []OneUnlessExcused
<1>1. ASSUME PlaceInv PROVE OneUnlessExcused
  <2>1. ASSUME NEW r \in Requests \ excused PROVE Cardinality(MadeFor(r)) <= 1
    <3>1. \A s, t \in MadeFor(r) : s = t
      BY <1>1, <2>1 DEF PlaceInv, ReqInv, Kept, MadeFor
    <3>2. CASE MadeFor(r) = {}
      <4>1. Cardinality({}) = 0
        BY FS_EmptySet
      <4>2. 0 <= 1
        BY SMTT(60)
      <4> QED BY <3>2, <4>1, <4>2
    <3>3. CASE MadeFor(r) # {}
      <4>1. PICK s : MadeFor(r) = {s}
        BY <3>1, <3>3
      <4>2. Cardinality({s}) = 1
        BY FS_Singleton
      <4>3. 1 <= 1
        BY SMTT(60)
      <4> QED BY <4>1, <4>2, <4>3
    <3> QED BY <3>2, <3>3
  <2> QED BY <2>1 DEF OneUnlessExcused
<1> QED BY <1>1, PlacementInvariant, PTL

-----------------------------------------------------------------------------
(* Part 2: what the create asks for *)

\* A node that is up has a configuration that was validated, and resolves only
\* kits that were inspected and are plain, or whose inspection failed.
HostInv(n) ==
    /\ n \in up => Validate(Cfg(n))
    /\ \A k \in kits[n] :
          k \in DOMAIN Cfg(n).kits /\ (k \in unchecked[n] \/ Cfg(n).kits[k] = "plain")
    /\ \A ref \in images[n] : Pullable(ref)

\* The nodes that were known to cover the request, and the completed request.
Covering == {n \in DOMAIN snap : Fits(snap[n])}
Completed == effectiveSpec(Request.size, Cfg(entry).defaults)

\* The refusals that an advertisement tells in advance: not the one for a
\* template whose registry the node does not reach.
Foretold(why) == why \in {"workspace", "kit"} \/ (why = "template" /\ ~Pullable(Request.template))

\* What the coordinator has left to ask was known to cover the request.
PlanInv ==
    /\ pc \in {"place", "try"} => sized = Completed
    /\ pc # "done" => box = Nil
    /\ eligible \subseteq Covering
    /\ \A d \in declined : Foretold(d.why) => ~d.current
    /\ outcome = "none eligible" => pc = "done" /\ Covering = {}

AdmitInv ==
    /\ setup \in Setups
    /\ kits = [n \in Hosts |-> kits[n]]
    /\ unchecked = [n \in Hosts |-> unchecked[n]] /\ images = [n \in Hosts |-> images[n]]
    /\ \A n \in Hosts : HostInv(n)
    /\ PlanInv
    /\ CreatedAsAdmitted

\* The deployment is one of those that were assumed.
LEMMA AdmitSetup ==
    ASSUME AdmitInv
    PROVE  SetupOK(setup)
BY AdmissionAssumption DEF AdmitInv

\* A default of other than half a core, or a size that was asked for, makes a
\* size that stays as it is on the node that is asked.
LEMMA SizesArePositive ==
    ASSUME NEW size \in [Dims -> Int], NEW defaults \in [Dims -> Int], defaults["cpu"] # 1
    PROVE  LET full == effectiveSpec(size, defaults)
           IN  /\ \A d \in Dims : full[d] > 0
               /\ effectiveSpec(full, NoDefaults) = full
<1> DEFINE full == effectiveSpec(size, defaults)
<1>1. \A d \in Dims : full[d] \in Int /\ full[d] > 0
  BY SMTT(60) DEF effectiveSpec, Dims, floor
<1>2. full = [d \in Dims |-> full[d]]
  BY DEF effectiveSpec
<1>3. effectiveSpec(full, NoDefaults) = [d \in Dims |-> full[d]]
  <2> HIDE DEF full
  <2> QED BY <1>1 DEF effectiveSpec
<1> QED BY <1>1, <1>2, <1>3

\* A reference without a registry has one canonical name, the daemon's.
LEMMA CanonicalIsDaemons ==
    ASSUME NEW ref, ~Pullable(ref)
    PROVE  Canonical(ref) = DaemonName(ref)
BY DEF Pullable, Canonical, DaemonName

\* A node that offers what the request asks refuses it for none of the three.
LEMMA FitIsServed ==
    ASSUME NEW n \in Hosts, HostInv(n), Fits(Live(n))
    PROVE  ~Foretold(Refusal(n))
<1>1. ~\E i \in DOMAIN Request.ws : Request.ws[i].name \notin DOMAIN Cfg(n).workspaces
  BY DEF Fits, Live, Advertised
<1>2. Request.kits \subseteq kits[n]
  BY DEF Fits, Live, Advertised
<1>3. Request.template # Nil => Pullable(Request.template) \/ DaemonHas(n, Request.template)
  <2> SUFFICES ASSUME Request.template # Nil, ~Pullable(Request.template)
               PROVE  DaemonName(Request.template) \in images[n]
    BY DEF DaemonHas
  <2>1. {Request.template, Canonical(Request.template)} \cap images[n] # {}
    BY DEF Fits, Live, Advertised
  <2> QED BY <2>1, CanonicalIsDaemons DEF HostInv
<1> QED BY <1>1, <1>2, <1>3, AdmissionAssumption DEF Refusal, Foretold

\* A node that offers less than the request asks refuses it, or would have to
\* pull a template that names no registry.
LEMMA MisfitIsRefused ==
    ASSUME NEW n, ~Fits(Live(n))
    PROVE  Refusal(n) # Nil \/ (NotHeld(n) /\ ~Pullable(Request.template))
<1>1. CASE ~({Request.ws[i].name : i \in DOMAIN Request.ws} \subseteq DOMAIN Cfg(n).workspaces)
  <2>1. \E i \in DOMAIN Request.ws : Request.ws[i].name \notin DOMAIN Cfg(n).workspaces
    BY <1>1
  <2> QED BY <2>1, AdmissionAssumption DEF Refusal
<1>2. CASE ~(Request.kits \subseteq kits[n])
  BY <1>2, AdmissionAssumption DEF Refusal
<1>3. CASE /\ Request.template # Nil /\ ~Pullable(Request.template)
           /\ {Request.template, Canonical(Request.template)} \cap images[n] = {}
  BY <1>3, CanonicalIsDaemons DEF NotHeld
<1> QED BY <1>1, <1>2, <1>3 DEF Fits, Live, Advertised
-----------------------------------------------------------------------------
\* What an advertisement tells depends on the request only.
LEMMA SameForetold ==
    ASSUME setup' = setup
    PROVE  \A why : Foretold(why)' <=> Foretold(why)
BY DEF Foretold, Request

\* The deployment and the request are chosen once.
LEMMA SetupStays ==
    ASSUME setup' = setup
    PROVE  Completed' = Completed /\ (snap' = snap => Covering' = Covering)
<1>1. Completed' = Completed
  BY DEF Completed, Request, Cfg
<1>2. ASSUME snap' = snap PROVE Covering' = Covering
  BY <1>2 DEF Covering, Fits, Request
<1> QED BY <1>1, <1>2

\* The images of a daemon change under the daemon's own names.
LEMMA ImagesKeep ==
    ASSUME AdmitInv, NEW n \in Hosts, NEW ref, ImageChanges(n, ref)
    PROVE  AdmitInv'
<1> USE DEF ImageChanges, nodeVars, reqVars
<1>1. Pullable(DaemonName(ref))
  BY DEF DaemonName, Pullable
<1>2. \A m \in Hosts : HostInv(m)'
  BY <1>1 DEF AdmitInv, HostInv, Validate, Cfg
<1>3. PlanInv'
  BY SetupStays, SameForetold DEF AdmitInv, PlanInv
<1>4. CreatedAsAdmitted'
  BY DEF AdmitInv, CreatedAsAdmitted, Request, Cfg
<1>5. images' = [m \in Hosts |-> images'[m]]
  BY DEF AdmitInv
<1>6. /\ setup' \in Setups
      /\ kits' = [m \in Hosts |-> kits'[m]]
      /\ unchecked' = [m \in Hosts |-> unchecked'[m]]
  BY DEF AdmitInv, Cfg
<1> QED BY <1>2, <1>3, <1>4, <1>5, <1>6 DEF AdmitInv

\* A node boots with the kits that passed or could not be inspected.
LEMMA BootKeeps ==
    ASSUME AdmitInv, NEW n \in Hosts, BootHost(n)
    PROVE  AdmitInv'
<1> USE DEF BootHost
<1>1. SetupOK(setup)
  BY AdmitSetup
<1>2. /\ kits' = [m \in Hosts |-> kits'[m]]
      /\ unchecked' = [m \in Hosts |-> unchecked'[m]]
      /\ \A m \in Hosts \ {n} : kits'[m] = kits[m] /\ unchecked'[m] = unchecked[m]
  BY DEF AdmitInv
<1>3. ASSUME NEW m \in Hosts PROVE HostInv(m)'
  <2>1. CASE ~Validate(Cfg(n)) \/ m # n
    <3>1. kits'[m] = kits[m] /\ unchecked'[m] = unchecked[m] /\ (m \in up' => m \in up)
      BY <2>1, <1>2
    <3> QED BY <3>1 DEF AdmitInv, HostInv, Validate, Cfg
  <2>2. CASE Validate(Cfg(n)) /\ m = n
    <3>1. PICK broken \in SUBSET DOMAIN Cfg(n).kits :
            /\ \A k \in DOMAIN Cfg(n).kits : Cfg(n).kits[k] = "missing" => k \in broken
            /\ kits'[n] = AdmitKits(Cfg(n), broken)
            /\ unchecked'[n] = kits'[n] \cap broken
      <4>1. PICK slow \in SUBSET DOMAIN Cfg(n).kits, listed \in BOOLEAN :
              LET broken == slow \cup {k \in DOMAIN Cfg(n).kits : Cfg(n).kits[k] = "missing"}
                  ok == AdmitKits(Cfg(n), broken)
              IN  /\ kits' = [kits EXCEPT ![n] = ok]
                  /\ unchecked' = [unchecked EXCEPT ![n] = ok \cap broken]
        BY <2>2
      <4> DEFINE broken == slow \cup {k \in DOMAIN Cfg(n).kits : Cfg(n).kits[k] = "missing"}
      <4>2. kits'[n] = AdmitKits(Cfg(n), broken)
            /\ unchecked'[n] = AdmitKits(Cfg(n), broken) \cap broken
        BY <4>1 DEF AdmitInv
      <4>3. broken \in SUBSET DOMAIN Cfg(n).kits
        OBVIOUS
      <4> HIDE DEF broken
      <4>4. \A k \in DOMAIN Cfg(n).kits : Cfg(n).kits[k] = "missing" => k \in broken
        BY DEF broken
      <4> QED BY <4>2, <4>3, <4>4
    <3>2. ASSUME NEW k \in kits'[n]
          PROVE  k \in DOMAIN Cfg(n).kits /\ (k \in unchecked'[n] \/ Cfg(n).kits[k] = "plain")
      <4>1. k \in DOMAIN Cfg(n).kits /\ (k \in broken \/ Admit(KitInfo(Cfg(n).kits[k])))
        BY <3>1, <3>2 DEF AdmitKits
      <4>2. CASE k \in broken
        BY <4>1, <4>2, <3>1, <3>2
      <4>3. CASE k \notin broken
        <5>1. Cfg(n).kits[k] \in Manifests \ {"missing"}
          BY <4>1, <4>3, <3>1, <1>1 DEF SetupOK, Cfg
        <5>2. Admit(KitInfo(Cfg(n).kits[k]))
          BY <4>1, <4>3
        <5> QED BY <4>1, <5>1, <5>2 DEF Admit, KitInfo, Manifests
      <4> QED BY <4>2, <4>3
    <3> QED BY <2>2, <3>2 DEF AdmitInv, HostInv, Validate, Cfg
  <2> QED BY <2>1, <2>2
<1>4. PlanInv'
  <2>1. Completed' = Completed /\ Covering' = Covering /\ \A why : Foretold(why)' <=> Foretold(why)
    BY SetupStays, SameForetold
  <2>2. \/ pc' = pc /\ outcome' = outcome
        \/ pc' = "done" /\ outcome' = "lost"
    BY DEF ForgetPeers
  <2>3. eligible' = eligible /\ declined' = declined /\ box' = box /\ sized' = sized
    OBVIOUS
  <2> QED BY <2>1, <2>2, <2>3 DEF AdmitInv, PlanInv
<1>5. CreatedAsAdmitted'
  BY DEF AdmitInv, CreatedAsAdmitted, Request, Cfg
<1> QED BY <1>2, <1>3, <1>4, <1>5 DEF AdmitInv, Cfg

\* The request is completed, or refused for its strategy.
LEMMA CreateKeeps ==
    ASSUME AdmitInv, CreateSandbox
    PROVE  AdmitInv'
<1> USE DEF CreateSandbox, nodeVars
<1>1. \A m \in Hosts : HostInv(m)'
  BY DEF AdmitInv, HostInv, Validate, Cfg
<1>2. PlanInv'
  <2>1. Completed' = Completed /\ Covering' = Covering /\ \A why : Foretold(why)' <=> Foretold(why)
    BY SetupStays, SameForetold
  <2>2. CASE pc' = "done" /\ outcome' = "invalid"
    BY <2>1, <2>2 DEF AdmitInv, PlanInv
  <2>3. CASE pc' = "place" /\ sized' = Completed /\ outcome' = outcome
    BY <2>1, <2>3 DEF AdmitInv, PlanInv
  <2> QED BY <2>2, <2>3 DEF Completed
<1>3. CreatedAsAdmitted'
  BY DEF AdmitInv, PlanInv, CreatedAsAdmitted
<1> QED BY <1>1, <1>2, <1>3 DEF AdmitInv, Cfg

\* The nodes whose copy covers the request are to be asked.
LEMMA ChooseKeeps ==
    ASSUME AdmitInv, ChooseNodes
    PROVE  AdmitInv'
<1> USE DEF ChooseNodes, nodeVars
<1>1. \A m \in Hosts : HostInv(m)'
  BY DEF AdmitInv, HostInv, Validate, Cfg
<1>2. PlanInv'
  <2>1. Completed' = Completed /\ eligible' = Covering' /\ \A why : Foretold(why)' <=> Foretold(why)
    BY SetupStays, SameForetold DEF Covering, Fits, Request
  <2>2. \/ eligible' = {} /\ pc' = "done" /\ outcome' = "none eligible"
        \/ pc' = "try" /\ outcome' = outcome
    OBVIOUS
  <2> QED BY <2>1, <2>2 DEF AdmitInv, PlanInv
<1>3. CreatedAsAdmitted'
  BY DEF AdmitInv, CreatedAsAdmitted, Request, Cfg
<1> QED BY <1>1, <1>2, <1>3 DEF AdmitInv, Cfg

\* A node that declines for what it was known to offer offers it no more.
LEMMA DeclineKeeps ==
    ASSUME AdmitInv, NEW n \in Hosts, NEW why, pc = "try", n \in eligible, Declines(n, why),
           Foretold(why) => snap[n] # Live(n),
           UNCHANGED <<setup, nodeVars, images, view, sized, snap, changes>>
    PROVE  AdmitInv'
<1>1. \A m \in Hosts : HostInv(m)'
  BY DEF AdmitInv, HostInv, Validate, Cfg, nodeVars
<1>2. PlanInv'
  <2>1. eligible' \subseteq eligible /\ pc' \in {"try", "done"} /\ box' = box
    BY DEF Declines
  <2>2. outcome' # "none eligible"
    BY DEF Declines, AdmitInv, PlanInv
  <2>0. \A y : Foretold(y)' <=> Foretold(y)
    BY SameForetold
  <2>3. \A d \in declined' : Foretold(d.why) => ~d.current
    <3>1. ASSUME NEW d \in declined', d \notin declined, Foretold(d.why)
          PROVE  ~d.current
      <4>1. d = [node |-> n, why |-> why, current |-> snap[n] = Live(n)]
        BY <3>1 DEF Declines
      <4>2. d.why = why /\ d.current = (snap[n] = Live(n))
        BY <4>1
      <4> QED BY <4>2, <3>1
    <3> QED BY <3>1 DEF AdmitInv, PlanInv
  <2>4. Completed' = Completed /\ Covering' = Covering
    BY SetupStays
  <2> QED BY <2>0, <2>1, <2>2, <2>3, <2>4 DEF AdmitInv, PlanInv
<1>3. CreatedAsAdmitted'
  BY DEF AdmitInv, CreatedAsAdmitted, Request, Cfg, Declines
<1> QED BY <1>1, <1>2, <1>3 DEF AdmitInv, Cfg, nodeVars

\* What a node makes of a request it accepts.
LEMMA MadeIsAdmitted ==
    ASSUME AdmitInv, NEW n \in Hosts, n \in up, pc = "try", Refusal(n) = Nil
    PROVE  LET size == IF n = entry THEN sized ELSE effectiveSpec(sized, NoDefaults)
           IN  /\ \/ \A d \in DOMAIN size : size[d] > 0 /\ size[d] = sized[d]
                  \/ Cfg(entry).defaults.cpu = 1
               /\ \A k \in Request.kits : Cfg(n).kits[k] = "plain" \/ k \in unchecked[n]
               /\ \A i \in DOMAIN Mounts(n) :
                    (Mounts(n)[i] = "rw" /\ ~Request.clone) =>
                      ~Request.ws[i].ro /\ Cfg(n).workspaces[Request.ws[i].name] = "rw"
<1>1. SetupOK(setup)
  BY AdmitSetup
<1>2. /\ \A i \in DOMAIN Request.ws : Request.ws[i].name \in DOMAIN Cfg(n).workspaces
      /\ \A i \in DOMAIN Request.ws : Mounts(n)[i] # Nil
      /\ Request.kits \subseteq kits[n]
  BY AdmissionAssumption DEF Refusal
<1>3. ASSUME Cfg(entry).defaults.cpu # 1
      PROVE  /\ \A d \in DOMAIN sized : sized[d] > 0
             /\ effectiveSpec(sized, NoDefaults) = sized
  <2>1. sized = effectiveSpec(Request.size, Cfg(entry).defaults)
    BY DEF AdmitInv, PlanInv, Completed
  <2>2. DOMAIN sized = Dims
    BY <2>1 DEF effectiveSpec
  <2>3. Request.size \in [Dims -> Int] /\ Cfg(entry).defaults \in [Dims -> Int]
    BY <1>1 DEF SetupOK, Request, Cfg
  <2> QED BY <1>3, <2>1, <2>2, <2>3, SizesArePositive
<1>4. ASSUME NEW i \in DOMAIN Request.ws, Mounts(n)[i] = "rw", ~Request.clone
      PROVE  ~Request.ws[i].ro /\ Cfg(n).workspaces[Request.ws[i].name] = "rw"
  <2>1. ~(ReadOnly(n, Request.ws[i].name) \/ Request.ws[i].ro)
    BY <1>2, <1>4 DEF Mounts, workspaceArg
  <2>2. Cfg(n).workspaces[Request.ws[i].name] \in {"rw", "ro", "git", "git without base"}
    BY <1>1, <1>2 DEF SetupOK, Cfg
  <2>3. Cfg(n).workspaces[Request.ws[i].name] # "git without base"
    BY <1>2 DEF AdmitInv, HostInv, Validate
  <2> QED BY <2>1, <2>2, <2>3 DEF ReadOnly
<1>5. \A k \in Request.kits : Cfg(n).kits[k] = "plain" \/ k \in unchecked[n]
  BY <1>2 DEF AdmitInv, HostInv
<1>6. DOMAIN Mounts(n) = DOMAIN Request.ws
  BY DEF Mounts
<1> QED BY <1>3, <1>4, <1>5, <1>6

\* A node answers the attempt itself.
LEMMA AttemptOnKeeps ==
    ASSUME AdmitInv, NEW n \in Hosts, AttemptOn(n)
    PROVE  AdmitInv'
<1>1. CASE Refusal(n) # Nil
  <2>1. snap[n] = Live(n) => ~Foretold(Refusal(n))
    <3>1. Fits(snap[n]) /\ HostInv(n)
      BY DEF AttemptOn, AdmitInv, PlanInv, Covering
    <3> QED BY <3>1, FitIsServed
  <2> QED BY <1>1, <2>1, DeclineKeeps DEF AttemptOn
<1>2. CASE Refusal(n) = Nil
  <2> DEFINE size == IF n = entry THEN sized ELSE effectiveSpec(sized, NoDefaults)
             new == [node |-> n, size |-> size, mounts |-> Mounts(n),
                     kits |-> Request.kits, unchecked |-> unchecked[n]]
  <2>1. /\ n \in up /\ pc = "try" /\ box' = new /\ pc' = "done" /\ outcome' = "created"
        /\ setup' = setup /\ snap' = snap /\ sized' = sized /\ eligible' = eligible
        /\ declined' = declined
        /\ images' = [images EXCEPT ![n] = @ \cup {DaemonName(ref) : ref \in {Request.template} \ {Nil}}]
        /\ kits' = kits /\ unchecked' = unchecked /\ up' = up
    BY <1>2 DEF AttemptOn, nodeVars
  <2>0. \A ref : Pullable(DaemonName(ref))
    BY DEF DaemonName, Pullable
  <2>7. /\ images' = [m \in Hosts |-> images'[m]]
        /\ \A m \in Hosts : \A ref \in images'[m] : ref \in images[m] \/ Pullable(ref)
    BY <2>0, <2>1 DEF AdmitInv
  <2>2. \A m \in Hosts : HostInv(m)'
    BY <2>1, <2>7 DEF AdmitInv, HostInv, Validate, Cfg
  <2>3. PlanInv'
    BY <2>1, SetupStays, SameForetold DEF AdmitInv, PlanInv
  <2>4. /\ \/ \A d \in DOMAIN size : size[d] > 0 /\ size[d] = sized[d]
           \/ Cfg(entry).defaults.cpu = 1
        /\ \A k \in Request.kits : Cfg(n).kits[k] = "plain" \/ k \in unchecked[n]
        /\ \A i \in DOMAIN Mounts(n) :
             (Mounts(n)[i] = "rw" /\ ~Request.clone) =>
               ~Request.ws[i].ro /\ Cfg(n).workspaces[Request.ws[i].name] = "rw"
    BY <1>2, <2>1, MadeIsAdmitted
  <2>5. /\ new.node = n /\ new.size = size /\ new.mounts = Mounts(n)
        /\ new.kits = Request.kits /\ new.unchecked = unchecked[n]
    OBVIOUS
  <2> HIDE DEF new, size
  <2>6. CreatedAsAdmitted'
    BY <2>1, <2>4, <2>5 DEF CreatedAsAdmitted, Request, Cfg
  <2> QED BY <2>1, <2>2, <2>3, <2>6, <2>7 DEF AdmitInv
<1> QED BY <1>1, <1>2

\* An attempt that fails on its way says nothing of what the node offers.
LEMMA FailureKeeps ==
    ASSUME AdmitInv, NEW n \in Hosts, AttemptFails(n)
    PROVE  AdmitInv'
<1>1. PICK why \in {"down", "call", "capacity", "git"} : Declines(n, why)
  BY DEF AttemptFails
<1>2. ~Foretold(why)
  BY DEF Foretold
<1> QED BY <1>1, <1>2, DeclineKeeps DEF AttemptFails

\* The refresh and the gossip touch neither the request nor what a node resolves.
LEMMA AdvertsKeep ==
    ASSUME AdmitInv, UNCHANGED <<setup, booted, up, kits, unchecked, images, reqVars>>
    PROVE  AdmitInv'
<1> USE DEF reqVars
<1>1. \A m \in Hosts : HostInv(m)'
  BY DEF AdmitInv, HostInv, Validate, Cfg
<1>2. PlanInv'
  BY SetupStays, SameForetold DEF AdmitInv, PlanInv
<1>3. CreatedAsAdmitted'
  BY DEF AdmitInv, CreatedAsAdmitted, Request, Cfg
<1> QED BY <1>1, <1>2, <1>3 DEF AdmitInv

\* Before the first boot nothing is resolved and nothing is asked.
LEMMA AdmitStarts ==
    ASSUME AdmissionInit
    PROVE  AdmitInv
<1> USE DEF AdmissionInit
<1>1. SetupOK(setup)
  BY AdmissionAssumption
<1>2. \A n \in Hosts : HostInv(n)
  BY <1>1 DEF HostInv, SetupOK, Pullable
<1>3. PlanInv
  <2>1. outcome # "none eligible"
    BY AdmissionAssumption
  <2> QED BY <2>1 DEF PlanInv
<1>4. CreatedAsAdmitted
  BY DEF CreatedAsAdmitted
<1>5. images = [n \in Hosts |-> images[n]] /\ kits = [n \in Hosts |-> kits[n]]
      /\ unchecked = [n \in Hosts |-> unchecked[n]]
  BY <1>1 DEF SetupOK
<1> QED BY <1>2, <1>3, <1>4, <1>5 DEF AdmitInv

\* However boots, images, gossip and the attempts interleave, what the nodes
\* resolve, what is left to ask and what was made stay as described.
THEOREM AdmissionInvariant == AdmissionSpec => []AdmitInv
<1>1. AdmissionInit => AdmitInv
  BY AdmitStarts
<1>2. ASSUME AdmitInv, [AdmissionNext]_createVars
      PROVE  AdmitInv'
  <2>1. CASE CreateSandbox \/ ChooseNodes
    BY <1>2, <2>1, CreateKeeps, ChooseKeeps
  <2>2. ASSUME NEW n \in Hosts, BootHost(n) PROVE AdmitInv'
    BY <1>2, <2>2, BootKeeps
  <2>3. ASSUME NEW n \in Hosts, RefreshLocalState(n) \/ RefreshFails(n) \/ Gossip(n)
        PROVE  AdmitInv'
    BY <1>2, <2>3, AdvertsKeep DEF RefreshLocalState, RefreshFails, Gossip, nodeVars
  <2>4. ASSUME NEW n \in Hosts, AttemptOn(n) \/ AttemptFails(n) PROVE AdmitInv'
    BY <1>2, <2>4, AttemptOnKeeps, FailureKeeps
  <2>5. ASSUME NEW n \in Hosts, NEW ref \in setup.refs, ImageChanges(n, ref) PROVE AdmitInv'
    BY <1>2, <2>5, ImagesKeep
  <2>6. CASE UNCHANGED createVars
    BY <1>2, <2>6, AdvertsKeep DEF createVars, nodeVars
  <2> QED BY <1>2, <2>1, <2>2, <2>3, <2>4, <2>5, <2>6 DEF AdmissionNext
<1> QED BY <1>1, <1>2, PTL DEF AdmissionSpec

\* A node that is asked refuses a workspace, a kit or a template only if it no
\* longer offers what the entry node had of it or does not reach the registry
\* the template names, and no node is eligible only if none whose advertisement
\* was current could have served the request without a pull (fits and
\* ProvisionLocal agree), for any nodes, configurations, registries and requests.
THEOREM AdvertisedIsAlwaysServed == AdmissionSpec => []AdvertisedIsServed
<1>1. ASSUME AdmitInv PROVE AdvertisedIsServed
  <2>1. ASSUME outcome = "none eligible", NEW n \in DOMAIN snap, snap[n] = Live(n)
        PROVE  Refusal(n) # Nil \/ (NotHeld(n) /\ ~Pullable(Request.template))
    <3>1. ~Fits(Live(n))
      BY <1>1, <2>1 DEF AdmitInv, PlanInv, Covering
    <3> QED BY <3>1, MisfitIsRefused
  <2>2. \A d \in declined : d.why \in {"workspace", "kit", "template"} =>
             ~d.current \/ (d.why = "template" /\ Pullable(Request.template))
    BY <1>1 DEF AdmitInv, PlanInv, Foretold
  <2> QED BY <2>1, <2>2 DEF AdvertisedIsServed
<1> QED BY <1>1, AdmissionInvariant, PTL

\* Every sandbox has the size that was placed, kits that were inspected or could
\* not be, and read-only workspaces mounted so, on whichever node it was made
\* (effectiveSpec, admitKits, workspaceArg).
THEOREM CreatedIsAlwaysAsAdmitted == AdmissionSpec => []CreatedAsAdmitted
<1>1. AdmitInv => CreatedAsAdmitted
  BY DEF AdmitInv
<1> QED BY <1>1, AdmissionInvariant, PTL
=============================================================================
