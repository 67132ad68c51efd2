------------------------- MODULE FileTransferProofs -------------------------
(***************************************************************************)
(* FileTransfer implements AtomicFile, for any number of uploads and       *)
(* downloads, files of any length and any number of attempts, as long as   *)
(* no two uploads have the same destination.                               *)
(*                                                                         *)
(* The inductive invariant follows the temporary file of an upload: it is  *)
(* never longer than what the attempt has sent, and if it is as long, it   *)
(* is what was sent.  The comparison of sizes before the rename rests on   *)
(* this, and on nobody else writing to the temporary file.                 *)
(***************************************************************************)
EXTENDS FileTransfer, TLAPS

\* Most leaves need arithmetic; those that do not and are hard name ZenonT.
\* The times are generous, so that no proof depends on how busy a machine is.
USE SMTT(60)

Piece == (Uploads \cup {None}) \X Nat
Fun(fn, S) == fn = [x \in S |-> fn[x]]
Labels == {"new", "begin", "attempt", "truncate", "append", "stat", "rename", "succeed",
           "fail", "chmod", "read", "ok", "error"}

TypeInv ==
    /\ Fun(file, Paths) /\ Fun(part, Paths) /\ Fun(out, Downloads)
    /\ pc \in [Pids -> Labels] /\ next \in [Pids -> Nat \ {0}]
    /\ want \in [Downloads -> Nat] /\ torn \in [Downloads -> BOOLEAN]

\* What an attempt has sent so far, and what the sizes then tell.
Sending(u, q) ==
    /\ q \in Seq(Piece) /\ Len(q) < next[u] /\ next[u] <= Pieces[u] + 1
    /\ Len(q) = next[u] - 1 => \A i \in 1 .. Len(q) : q[i] = <<u, i>>

UploadInv(u) ==
    /\ pc[u] \in {"append", "stat"} => Sending(u, part[PathOf[u]])
    /\ pc[u] = "stat" => next[u] = Pieces[u] + 1
    /\ pc[u] = "rename" => part[PathOf[u]] = Content(u)
    /\ pc[u] \in {"succeed", "chmod", "ok"} => file[PathOf[u]] = Content(u)
    /\ (pc[u] \notin {"new", "error"} /\ After[u] # None) => pc[After[u]] = "ok"

\* A download that no rename has disturbed has a prefix of the file.
DownloadInv(d) ==
    /\ pc[d] \in {"new", "begin"} => next[d] = 1 /\ out[d] = <<>>
    /\ (pc[d] = "read" /\ ~torn[d]) =>
          /\ file[PathOf[d]] # None /\ want[d] = Len(file[PathOf[d]]) /\ next[d] <= want[d] + 1
          /\ out[d] \in Seq(Piece) /\ Len(out[d]) = next[d] - 1
          /\ \A i \in 1 .. Len(out[d]) : out[d][i] = file[PathOf[d]][i]

Inv ==
    /\ TypeInv /\ PublishedWhole
    /\ \A u \in Uploads : UploadInv(u)
    /\ \A d \in Downloads : DownloadInv(d)

-----------------------------------------------------------------------------
\* A sequence is the function of its elements.
LEMMA SeqIsFunction == ASSUME NEW S, NEW s \in Seq(S) PROVE s = [i \in 1 .. Len(s) |-> s[i]]
OBVIOUS

\* A version of a file is None or a sequence of pieces.
LEMMA VersionsAreSequences ==
    ASSUME NEW p \in Paths, NEW v \in Versions(p), v # None
    PROVE  v \in Seq(Piece) /\ v = [i \in 1 .. Len(v) |-> v[i]]
<1> USE FileTransferAssumption
<1>1. CASE v = Original(p)
  <2>1. v = [i \in 1 .. OldFile[p] |-> <<None, i>>] /\ OldFile[p] \in Nat
    BY <1>1 DEF Original
  <2> QED BY <2>1 DEF Piece
<1>2. ASSUME NEW u \in Uploads, v = Content(u)
      PROVE  v \in Seq(Piece) /\ v = [i \in 1 .. Len(v) |-> v[i]]
  <2>1. v = [i \in 1 .. Pieces[u] |-> <<u, i>>] /\ Pieces[u] \in Nat
    BY <1>2 DEF Content
  <2>2. \A i \in 1 .. Pieces[u] : <<u, i>> \in Piece
    BY DEF Piece
  <2> QED BY <2>1, <2>2
<1> QED BY <1>1, <1>2 DEF Versions

\* Set changes a function at the destination of a transfer only.
LEMMA SetAtDestination ==
    ASSUME NEW fn, Fun(fn, Paths), NEW x \in Pids, NEW w
    PROVE  /\ Fun(Set(fn, x, w), Paths)
           /\ Set(fn, x, w)[PathOf[x]] = w
           /\ \A p \in Paths \ {PathOf[x]} : Set(fn, x, w)[p] = fn[p]
BY FileTransferAssumption DEF Fun, Set

\* A step of an upload touches its own destination and nobody's progress.
LEMMA UploadFrame ==
    ASSUME TypeInv, NEW v \in Uploads, UploadStep(v)
    PROVE  /\ \A x \in Pids \ {v} : pc'[x] = pc[x] /\ next'[x] = next[x]
           /\ \A p \in Paths \ {PathOf[v]} : file'[p] = file[p] /\ part'[p] = part[p]
           /\ UNCHANGED <<want, out>>
           /\ pc[v] \notin {"ok", "error"}
           /\ TypeInv'
<1> USE FileTransferAssumption DEF TypeInv, Pids, Goto, Labels
<1>1. CASE Stage(v) BY <1>1 DEF Stage
<1>2. CASE MakeDir(v) BY <1>2 DEF MakeDir
<1>3. CASE Attempt(v) BY <1>3 DEF Attempt
<1>4. CASE Truncate(v)
  <2>1. part' \in {part, Set(part, v, <<>>)}
    BY <1>4 DEF Truncate
  <2>2. Fun(part', Paths) /\ \A p \in Paths \ {PathOf[v]} : part'[p] = part[p]
    BY <2>1, SetAtDestination
  <2>3. /\ UNCHANGED <<file, want, out, torn>> /\ pc[v] = "truncate"
        /\ UNCHANGED next \/ next' = [next EXCEPT ![v] = 1]
        /\ \E l \in Labels : pc' = [pc EXCEPT ![v] = l]
    BY <1>4 DEF Truncate
  <2> QED BY <2>2, <2>3
<1>5. CASE Append1(v)
  <2>1. \E w1, w2 : part' \in {part, Set(part, v, w1), Set(part, v, w2)}
    BY ZenonT(60), <1>5 DEF Append1
  <2>2. Fun(part', Paths) /\ \A p \in Paths \ {PathOf[v]} : part'[p] = part[p]
    BY <2>1, SetAtDestination
  <2>3. UNCHANGED <<file, want, out, torn>> /\ pc[v] = "append"
    BY <1>5 DEF Append1
  <2>4. \/ UNCHANGED next
        \/ next' = [next EXCEPT ![v] = next[v] + 1]
    BY <1>5 DEF Append1
  <2>5. UNCHANGED pc \/ \E l \in Labels : pc' = [pc EXCEPT ![v] = l]
    BY <1>5 DEF Append1
  <2> QED BY <2>2, <2>3, <2>4, <2>5
<1>6. CASE Stat(v) BY ZenonT(60), <1>6 DEF Stat
<1>7. CASE Rename(v)
  <2>1. /\ UNCHANGED <<next, want, out>> /\ pc[v] = "rename"
        /\ \E l \in Labels : pc' = [pc EXCEPT ![v] = l]
    BY <1>7 DEF Rename
  <2>2. /\ Fun(file', Paths) /\ Fun(part', Paths) /\ torn' \in [Downloads -> BOOLEAN]
        /\ \A p \in Paths \ {PathOf[v]} : file'[p] = file[p] /\ part'[p] = part[p]
    <3>1. CASE UNCHANGED <<file, part, torn>>
      BY <3>1
    <3>2. CASE /\ file' = [file EXCEPT ![PathOf[v]] = part[PathOf[v]]]
               /\ part' = [part EXCEPT ![PathOf[v]] = None]
               /\ torn' = [d \in Downloads |->
                             torn[d] \/ (PathOf[d] = PathOf[v] /\ pc[d] = "read")]
      <4>1. torn' \in [Downloads -> BOOLEAN]
        BY <3>2
      <4> QED BY ZenonT(60), <3>2, <4>1 DEF Fun
    <3> QED BY <1>7, <3>1, <3>2 DEF Rename
  <2> QED BY <2>1, <2>2
<1>8. CASE Remove(v)
  <2>1. part' \in {part, Set(part, v, None)}
    BY <1>8 DEF Remove
  <2>2. Fun(part', Paths) /\ \A p \in Paths \ {PathOf[v]} : part'[p] = part[p]
    BY <2>1, SetAtDestination
  <2> QED BY <1>8, <2>2 DEF Remove
<1>9. CASE Chmod(v) BY <1>9 DEF Chmod
<1> QED BY <1>1, <1>2, <1>3, <1>4, <1>5, <1>6, <1>7, <1>8, <1>9 DEF UploadStep

\* A step of a download changes no file.
LEMMA DownloadFrame ==
    ASSUME TypeInv, PublishedWhole, NEW e \in Downloads, DownloadStep(e)
    PROVE  /\ \A x \in Pids \ {e} : pc'[x] = pc[x] /\ next'[x] = next[x]
           /\ \A d \in Downloads \ {e} : want'[d] = want[d] /\ out'[d] = out[d]
           /\ UNCHANGED <<file, part, torn>>
           /\ pc[e] \notin {"ok", "error"}
           /\ TypeInv'
<1> USE FileTransferAssumption DEF TypeInv, Pids, Goto, Labels
<1>1. CASE Stage(e) BY <1>1 DEF Stage
<1>2. CASE RemoteSize(e)
  <2>1. file[PathOf[e]] # None => Len(file[PathOf[e]]) \in Nat
    BY VersionsAreSequences DEF PublishedWhole
  <2>2. want' \in [Downloads -> Nat] /\ \A d \in Downloads \ {e} : want'[d] = want[d]
    BY <1>2, <2>1 DEF RemoteSize
  <2> QED BY ZenonT(60), <1>2, <2>2 DEF RemoteSize
<1>3. CASE ReadChunk(e)
  <2>1. /\ UNCHANGED <<file, part, want, torn>> /\ pc[e] = "read"
        /\ UNCHANGED pc \/ pc' = [pc EXCEPT ![e] = "error"]
    BY <1>3 DEF ReadChunk
  <2>2. UNCHANGED next \/ next' = [next EXCEPT ![e] = next[e] + 1]
    BY ZenonT(60), <1>3 DEF ReadChunk
  <2>3. UNCHANGED out \/ \E b : out' = [out EXCEPT ![e] = Append(out[e], b)]
    BY ZenonT(60), <1>3 DEF ReadChunk
  <2>4. Fun(out', Downloads) /\ \A d \in Downloads \ {e} : out'[d] = out[d]
    BY <2>3 DEF Fun
  <2> QED BY <2>1, <2>2, <2>4
<1>4. CASE Downloaded(e) BY <1>4 DEF Downloaded
<1> QED BY <1>1, <1>2, <1>3, <1>4 DEF DownloadStep

-----------------------------------------------------------------------------
\* What an upload's step does to the upload itself.
LEMMA UploadKeepsOwn ==
    ASSUME Inv, NEW v \in Uploads, UploadStep(v)
    PROVE  UploadInv(v)' /\ PublishedWhole'
<1> DEFINE p == PathOf[v]
<1> USE FileTransferAssumption DEF Pids, Labels
<1>1. /\ TypeInv /\ TypeInv' /\ v \in Pids /\ p \in Paths /\ Pieces[v] \in Nat \ {0}
      /\ next[v] \in Nat \ {0} /\ UploadInv(v) /\ pc[v] \notin {"ok", "error"}
  BY UploadFrame DEF Inv, TypeInv
<1>2. After[v] # None => After[v] \in Uploads /\ (pc[After[v]] = "ok" => pc'[After[v]] = "ok")
  BY <1>1, UploadFrame
<1>3. SUFFICES /\ pc'[v] \in {"append", "stat"} => Sending(v, part[p])'
               /\ pc'[v] = "stat" => next'[v] = Pieces[v] + 1
               /\ pc'[v] = "rename" => part'[p] = Content(v)
               /\ pc'[v] \in {"succeed", "chmod", "ok"} => file'[p] = Content(v)
               /\ (pc'[v] \notin {"new", "error"} /\ After[v] # None) =>
                     pc[v] # "new" \/ pc[After[v]] = "ok"
               /\ UNCHANGED file \/ file' = [file EXCEPT ![p] = Content(v)]
  <2>1. UploadInv(v)'
    BY <1>1, <1>2, <1>3 DEF UploadInv
  <2>2. Content(v) \in Versions(p)
    BY DEF Versions
  <2>3. PublishedWhole'
    BY <1>1, <1>3, <2>2 DEF PublishedWhole, Inv, TypeInv, Fun
  <2> QED BY <2>1, <2>3
<1> USE DEF Goto, TypeInv, UploadInv
<1>4. CASE Stage(v) BY <1>1, <1>4 DEF Stage
<1>5. CASE MakeDir(v) BY <1>1, <1>5 DEF MakeDir
<1>6. CASE Attempt(v) BY <1>1, <1>6 DEF Attempt
<1>7. CASE Truncate(v)
  <2>1. \/ part' = Set(part, v, <<>>) /\ pc'[v] = "append" /\ next'[v] = 1
        \/ pc'[v] = "attempt"
    BY <1>1, <1>7 DEF Truncate
  <2>2. part' = Set(part, v, <<>>) => part'[p] = <<>>
    BY <1>1, SetAtDestination
  <2>3. UNCHANGED file /\ pc[v] = "truncate"
    BY <1>7 DEF Truncate
  <2>4. (part'[p] = <<>> /\ next'[v] = 1) => Sending(v, part[p])'
    <3>1. <<>> \in Seq(Piece) /\ Len(<<>>) = 0
      OBVIOUS
    <3> QED BY <1>1, <3>1 DEF Sending
  <2> QED BY <1>1, <2>1, <2>2, <2>3, <2>4
<1>8. CASE Append1(v)
  <2> DEFINE old == IF part[p] = None THEN <<>> ELSE part[p]
  <2>1. UNCHANGED file /\ pc[v] = "append" /\ Sending(v, part[p])
    BY <1>1, <1>8 DEF Append1
  <2>2. Sending(v, old)
    BY <1>1, <2>1 DEF Sending
  <2>3. CASE next[v] > Pieces[v]
    <3>1. UNCHANGED <<part, next>> /\ pc'[v] = "stat"
      BY <1>1, <1>8, <2>3 DEF Append1
    <3> QED BY <1>1, <2>1, <2>3, <3>1 DEF Sending
  <2>4. CASE ~(next[v] > Pieces[v])
    <3>1. Content(v)[next[v]] = <<v, next[v]>>
      BY <1>1, <2>4 DEF Content
    <3>2. \/ pc'[v] = "attempt"
          \/ /\ part' \in {Set(part, v, Append(old, <<v, next[v]>>)), Set(part, v, old)}
             /\ next'[v] = next[v] + 1 /\ pc'[v] = "append"
      BY <1>1, <1>8, <2>1, <2>4, <3>1 DEF Append1
    <3>3. CASE pc'[v] = "attempt"
      BY <2>1, <3>3
    <3>4. CASE /\ part' \in {Set(part, v, Append(old, <<v, next[v]>>)), Set(part, v, old)}
               /\ next'[v] = next[v] + 1 /\ pc'[v] = "append"
      <4>1. part'[p] \in {Append(old, <<v, next[v]>>), old}
        <5>1. \A w : part' = Set(part, v, w) => part'[p] = w
          BY <1>1, SetAtDestination
        <5> HIDE DEF old
        <5> QED BY ZenonT(60), <3>4, <5>1
      <4>2. old \in Seq(Piece) /\ <<v, next[v]>> \in Piece /\ Len(old) < next[v]
        BY <1>1, <2>2 DEF Sending, Piece
      <4>3. Sending(v, part[p])'
        <5>1. CASE part'[p] = old
          BY SMTT(60), <1>1, <2>4, <3>4, <4>2, <5>1 DEF Sending
        <5>2. CASE part'[p] = Append(old, <<v, next[v]>>)
          <6>1. /\ part'[p] \in Seq(Piece) /\ Len(part'[p]) = Len(old) + 1
                /\ part'[p][Len(old) + 1] = <<v, next[v]>>
                /\ \A i \in 1 .. Len(old) : part'[p][i] = old[i]
            BY SMTT(60), <4>2, <5>2
          <6>2. Len(old) = next[v] - 1 => \A i \in 1 .. Len(old) : old[i] = <<v, i>>
            BY <2>2 DEF Sending
          <6> HIDE DEF old, p
          <6>3. Len(old) \in Nat
            BY <4>2
          <6>4. Len(part'[p]) = next'[v] - 1 =>
                  \A i \in 1 .. Len(part'[p]) : part'[p][i] = <<v, i>>
            <7>1. HAVE Len(part'[p]) = next'[v] - 1
            <7>2. Len(old) = next[v] - 1
              BY SMTT(60), <1>1, <3>4, <6>1, <6>3, <7>1
            <7>3. TAKE i \in 1 .. Len(part'[p])
            <7>4. i \in 1 .. Len(old) \/ i = Len(old) + 1
              BY <6>1, <6>3
            <7> QED BY SMTT(60), <1>1, <6>1, <6>2, <6>3, <7>2, <7>4
          <6> QED BY SMTT(60), <1>1, <2>4, <3>4, <4>2, <6>1, <6>3, <6>4 DEF Sending
        <5> QED BY <4>1, <5>1, <5>2
      <4> QED BY <2>1, <3>4, <4>3
    <3> QED BY <3>2, <3>3, <3>4
  <2> QED BY <2>3, <2>4
<1>9. CASE Stat(v)
  <2>1. /\ UNCHANGED <<file, part, next>> /\ pc[v] = "stat"
        /\ pc'[v] = "attempt" \/ (pc'[v] = "rename" /\ Len(part[p]) = Pieces[v])
    BY <1>1, <1>9 DEF Stat
  <2>2. Len(part[p]) = Pieces[v] => part[p] = Content(v)
    <3>1. /\ part[p] \in Seq(Piece) /\ next[v] = Pieces[v] + 1
          /\ Len(part[p]) = next[v] - 1 =>
                \A i \in 1 .. Len(part[p]) : part[p][i] = <<v, i>>
      BY <1>1, <2>1 DEF Sending
    <3>2. part[p] = [i \in 1 .. Len(part[p]) |-> part[p][i]]
      BY <3>1, SeqIsFunction, ZenonT(60)
    <3>3. HAVE Len(part[p]) = Pieces[v]
    <3>4. part[p] = [i \in 1 .. Pieces[v] |-> part[p][i]]
      BY <3>2, <3>3
    <3>5. \A i \in 1 .. Pieces[v] : part[p][i] = <<v, i>>
      BY <1>1, <3>1, <3>3
    <3> QED BY <3>4, <3>5 DEF Content
  <2> QED BY <2>1, <2>2
<1>10. CASE Rename(v)
  <2>1. part[p] = Content(v)
    BY <1>1, <1>10 DEF Rename
  <2>2. \/ file' = [file EXCEPT ![p] = part[p]] /\ pc'[v] \in {"succeed", "fail"}
        \/ UNCHANGED file /\ pc'[v] = "fail"
    BY <1>1, <1>10 DEF Rename
  <2> QED BY <1>1, <1>10, <2>1, <2>2 DEF Rename, Fun
<1>11. CASE Remove(v)
  <2>1. /\ UNCHANGED file
        /\ \/ pc[v] = "fail" /\ pc'[v] = "error"
           \/ pc[v] = "succeed" /\ pc'[v] \in {"chmod", "ok"}
    BY <1>1, <1>11 DEF Remove
  <2> QED BY <1>1, <2>1
<1>12. CASE Chmod(v) BY <1>1, <1>12 DEF Chmod
<1> QED BY ZenonT(60), <1>4, <1>5, <1>6, <1>7, <1>8, <1>9, <1>10, <1>11, <1>12 DEF UploadStep

\* What an upload's step does to the other uploads: nothing, as they have other
\* destinations.
LEMMA UploadKeepsUploads ==
    ASSUME Inv, OwnDestinations, NEW v \in Uploads, UploadStep(v), NEW u \in Uploads, u # v
    PROVE  UploadInv(u)'
<1> USE FileTransferAssumption DEF Pids
<1>1. UploadInv(u) /\ TypeInv
  BY DEF Inv
<1>2. /\ pc'[u] = pc[u] /\ next'[u] = next[u]
      /\ part'[PathOf[u]] = part[PathOf[u]] /\ file'[PathOf[u]] = file[PathOf[u]]
  BY <1>1, UploadFrame DEF OwnDestinations
<1>3. After[u] # None => (pc[After[u]] = "ok" => pc'[After[u]] = "ok")
  BY <1>1, UploadFrame
<1> QED BY ZenonT(60), <1>1, <1>2, <1>3 DEF UploadInv, Sending

\* What an upload's step does to the downloads: a rename marks those it disturbs.
LEMMA UploadKeepsDownloads ==
    ASSUME Inv, NEW v \in Uploads, UploadStep(v), NEW d \in Downloads
    PROVE  DownloadInv(d)'
<1> USE FileTransferAssumption DEF Pids
<1>1. DownloadInv(d) /\ TypeInv
  BY DEF Inv
<1>2. pc'[d] = pc[d] /\ next'[d] = next[d] /\ want' = want /\ out' = out
  BY <1>1, UploadFrame
<1>3. (pc[d] = "read" /\ ~torn'[d]) => ~torn[d] /\ file'[PathOf[d]] = file[PathOf[d]]
  <2>1. CASE Rename(v)
    <3>1. CASE UNCHANGED <<file, torn>>
      BY <3>1
    <3>2. CASE /\ file' = [file EXCEPT ![PathOf[v]] = part[PathOf[v]]]
               /\ torn' = [x \in Downloads |->
                             torn[x] \/ (PathOf[x] = PathOf[v] /\ pc[x] = "read")]
      <4>1. torn'[d] <=> torn[d] \/ (PathOf[d] = PathOf[v] /\ pc[d] = "read")
        BY ZenonT(60), <3>2
      <4>2. PathOf[d] # PathOf[v] => file'[PathOf[d]] = file[PathOf[d]]
        BY <1>1, <3>2 DEF TypeInv, Fun
      <4> QED BY <4>1, <4>2
    <3> QED BY <2>1, <3>1, <3>2 DEF Rename
  <2>2. CASE ~Rename(v)
    <3>1. UNCHANGED <<file, torn>>
      BY ZenonT(60), <2>2 DEF UploadStep, Stage, MakeDir, Attempt, Truncate, Append1, Stat, Remove, Chmod
    <3> QED BY <3>1
  <2> QED BY <2>1, <2>2
<1> QED BY <1>1, <1>2, <1>3 DEF DownloadInv

\* A download that is undisturbed goes on reading a prefix of the file.
LEMMA DownloadKeepsOwn ==
    ASSUME Inv, NEW e \in Downloads, DownloadStep(e)
    PROVE  DownloadInv(e)'
<1> DEFINE f == file[PathOf[e]]
<1> USE FileTransferAssumption DEF Pids, Goto
<1>1. /\ TypeInv /\ TypeInv' /\ UNCHANGED <<file, torn>> /\ DownloadInv(e)
      /\ e \in Pids /\ PathOf[e] \in Paths /\ next[e] \in Nat \ {0} /\ want[e] \in Nat
  BY DownloadFrame DEF Inv, TypeInv
<1>2. f # None => f \in Seq(Piece) /\ f = [i \in 1 .. Len(f) |-> f[i]]
  BY ZenonT(60), <1>1, VersionsAreSequences DEF Inv, PublishedWhole
<1>3. CASE Stage(e) BY <1>1, <1>3 DEF Stage, DownloadInv, TypeInv
<1>4. CASE RemoteSize(e)
  <2>1. pc[e] = "begin" /\ UNCHANGED <<next, out>> /\ next[e] = 1 /\ out[e] = <<>>
    BY <1>1, <1>4 DEF RemoteSize, DownloadInv
  <2>2. \/ f # None /\ want'[e] = Len(f) /\ pc'[e] = "read"
        \/ pc'[e] = "error"
    BY <1>1, <1>4 DEF RemoteSize, TypeInv
  <2>3. <<>> \in Seq(Piece) /\ Len(<<>>) = 0
    OBVIOUS
  <2>4. f # None => Len(f) \in Nat
    BY <1>2
  <2>5. next'[e] = 1 /\ out'[e] = <<>> /\ file'[PathOf[e]] = f
    BY <1>1, <2>1
  <2>6. CASE pc'[e] = "error"
    BY <2>6 DEF DownloadInv
  <2>7. CASE f # None /\ want'[e] = Len(f) /\ pc'[e] = "read"
    <3> HIDE DEF f
    <3>1. next'[e] <= want'[e] + 1 /\ Len(out'[e]) = next'[e] - 1
      BY <2>3, <2>4, <2>5, <2>7
    <3>2. out'[e] \in Seq(Piece) /\ \A i \in 1 .. Len(out'[e]) : out'[e][i] = f[i]
      BY <2>3, <2>5
    <3> QED BY <2>5, <2>7, <3>1, <3>2 DEF DownloadInv
  <2> QED BY <2>2, <2>6, <2>7
<1>5. CASE ReadChunk(e)
  <2>1. pc[e] = "read" /\ next[e] <= want[e] /\ UNCHANGED want
    BY <1>5 DEF ReadChunk
  <2>2. CASE \E b \in Block(e) : /\ out' = [out EXCEPT ![e] = Append(@, b)]
                                /\ next' = [next EXCEPT ![e] = @ + 1]
                                /\ UNCHANGED pc
    <3> DEFINE n == next[e]
    <3>1. n <= Len(f) /\ out'[e] = Append(out[e], f[n])
      <4>1. n <= Len(f) /\ out' = [out EXCEPT ![e] = Append(out[e], f[n])]
        BY ZenonT(60), <2>2 DEF Block
      <4> QED BY <1>1, <4>1 DEF TypeInv, Fun
    <3>2. next'[e] = n + 1 /\ pc'[e] = "read"
      BY <1>1, <2>1, <2>2 DEF TypeInv
    <3>3. SUFFICES ASSUME ~torn[e]
                   PROVE  /\ out'[e] \in Seq(Piece) /\ Len(out'[e]) = n
                          /\ \A i \in 1 .. n : out'[e][i] = f[i]
      <4>1. ~torn[e] => f # None /\ want[e] = Len(f)
        BY <1>1, <2>1 DEF DownloadInv
      <4>2. next'[e] - 1 = n /\ next'[e] <= want[e] + 1
        BY <1>1, <2>1, <3>2
      <4> QED BY <1>1, <2>1, <3>2, <3>3, <4>1, <4>2 DEF DownloadInv
    <3>4. /\ f \in Seq(Piece) /\ n \in 1 .. Len(f)
          /\ out[e] \in Seq(Piece) /\ Len(out[e]) = n - 1
          /\ \A i \in 1 .. n - 1 : out[e][i] = f[i]
      <4>1. /\ f # None /\ out[e] \in Seq(Piece) /\ Len(out[e]) = n - 1
            /\ \A i \in 1 .. Len(out[e]) : out[e][i] = f[i]
        BY <1>1, <2>1, <3>3 DEF DownloadInv
      <4>2. f \in Seq(Piece)
        BY <1>2, <4>1
      <4> HIDE DEF f
      <4> QED BY <1>1, <3>1, <4>1, <4>2
    <3> HIDE DEF f
    <3>5. f[n] \in Piece
      BY <3>4
    <3> HIDE DEF n
    <3>6. n \in Nat \ {0} /\ Len(out[e]) + 1 = n
      BY <1>1, <3>4 DEF n
    <3>7. /\ out'[e] \in Seq(Piece) /\ Len(out'[e]) = n /\ out'[e][n] = f[n]
          /\ \A i \in 1 .. n - 1 : out'[e][i] = out[e][i]
      BY <3>1, <3>4, <3>5, <3>6
    <3>8. \A i \in 1 .. n : i = n \/ i \in 1 .. n - 1
      BY <3>6
    <3> QED BY ZenonT(60), <3>4, <3>7, <3>8
  <2>3. CASE UNCHANGED <<next, out>> /\ (UNCHANGED pc \/ Goto(e, "error"))
    BY <1>1, <2>1, <2>3 DEF DownloadInv, TypeInv
  <2> QED BY ZenonT(60), <1>5, <2>2, <2>3 DEF ReadChunk
<1>6. CASE Downloaded(e) BY <1>1, <1>6 DEF Downloaded, DownloadInv, TypeInv
<1> QED BY <1>3, <1>4, <1>5, <1>6 DEF DownloadStep

-----------------------------------------------------------------------------
\* The invariant holds at the start.
LEMMA InvInit == Init => Inv
<1> SUFFICES ASSUME Init PROVE Inv
  OBVIOUS
<1> USE FileTransferAssumption DEF Init, Pids
<1>1. TypeInv
  BY DEF TypeInv, Fun, Labels
<1>2. PublishedWhole
  BY DEF PublishedWhole, Versions
<1>3. \A u \in Uploads : UploadInv(u)
  BY DEF UploadInv
<1>4. \A d \in Downloads : DownloadInv(d)
  BY DEF DownloadInv
<1> QED BY <1>1, <1>2, <1>3, <1>4 DEF Inv

\* Every step of every transfer keeps the invariant.
LEMMA InvStep == OwnDestinations /\ Inv /\ [Next]_vars => Inv'
<1> SUFFICES ASSUME OwnDestinations, Inv, [Next]_vars PROVE Inv'
  OBVIOUS
<1>1. ASSUME NEW v \in Uploads, UploadStep(v) PROVE Inv'
  <2>1. TypeInv'
    BY <1>1, UploadFrame DEF Inv
  <2>2. PublishedWhole' /\ UploadInv(v)'
    BY <1>1, UploadKeepsOwn
  <2>3. \A u \in Uploads : UploadInv(u)'
    BY <1>1, <2>2, UploadKeepsUploads
  <2>4. \A d \in Downloads : DownloadInv(d)'
    BY <1>1, UploadKeepsDownloads
  <2> QED BY <2>1, <2>2, <2>3, <2>4 DEF Inv
<1>2. ASSUME NEW e \in Downloads, DownloadStep(e) PROVE Inv'
  <2> USE FileTransferAssumption DEF Pids
  <2>1. /\ TypeInv' /\ UNCHANGED <<file, part, torn>>
        /\ \A x \in Pids \ {e} : pc'[x] = pc[x] /\ next'[x] = next[x]
        /\ \A d \in Downloads \ {e} : want'[d] = want[d] /\ out'[d] = out[d]
    BY <1>2, DownloadFrame DEF Inv
  <2>2. PublishedWhole'
    BY ZenonT(60), <2>1 DEF Inv, PublishedWhole
  <2>3. \A u \in Uploads : UploadInv(u)'
    <3> TAKE u \in Uploads
    <3>1. UploadInv(u) /\ pc'[u] = pc[u] /\ next'[u] = next[u]
      BY <2>1 DEF Inv
    <3>2. After[u] # None => pc'[After[u]] = pc[After[u]]
      <4>1. u \notin Downloads /\ After[u] \in Uploads \cup {None} /\ e \notin Uploads
        BY ZenonT(60)
      <4> QED BY ZenonT(60), <2>1, <4>1
    <3> QED BY ZenonT(60), <2>1, <3>1, <3>2 DEF UploadInv, Sending
  <2>4. \A d \in Downloads : DownloadInv(d)'
    <3> TAKE d \in Downloads
    <3>1. CASE d = e
      BY <1>2, <3>1, DownloadKeepsOwn
    <3>2. CASE d # e
      <4>1. /\ DownloadInv(d) /\ pc'[d] = pc[d] /\ next'[d] = next[d]
            /\ want'[d] = want[d] /\ out'[d] = out[d] /\ file' = file /\ torn' = torn
        BY <2>1, <3>2 DEF Inv
      <4> QED BY <4>1 DEF DownloadInv
    <3> QED BY <3>1, <3>2
  <2> QED BY <2>1, <2>2, <2>3, <2>4 DEF Inv
<1>3. CASE UNCHANGED vars
  <2>1. UNCHANGED <<file, part, pc, next, out, want, torn>>
    BY ZenonT(60), <1>3 DEF vars
  <2>2. TypeInv' /\ PublishedWhole'
    BY ZenonT(60), <2>1 DEF Inv, TypeInv, Fun, PublishedWhole
  <2>3. \A u \in Uploads : UploadInv(u)'
    BY ZenonT(60), <2>1 DEF Inv, UploadInv, Sending
  <2>4. \A d \in Downloads : DownloadInv(d)'
    BY ZenonT(60), <2>1 DEF Inv, DownloadInv
  <2> QED BY ZenonT(60), <2>2, <2>3, <2>4 DEF Inv
<1> QED BY <1>1, <1>2, <1>3 DEF Next

\* PublishedWhole, and what it rests on, for every instance: nothing but an old
\* file or a whole upload is ever at a destination.
THEOREM FilesAreWhole ==
    ASSUME OwnDestinations
    PROVE  Spec => [](Inv /\ PublishedWhole)
<1>1. Init => Inv
  BY InvInit
<1>2. Inv /\ [Next]_vars => Inv'
  BY InvStep
<1>3. Inv => PublishedWhole
  BY DEF Inv
<1> QED BY <1>1, <1>2, <1>3, PTL DEF Spec

-----------------------------------------------------------------------------
\* What a transfer that moves on does to the answers.
LEMMA AnswerStep ==
    ASSUME TypeInv, NEW x \in Pids, NEW l \in Labels, pc[x] \notin {"ok", "error"},
           pc' = [pc EXCEPT ![x] = l]
    PROVE  /\ answer[x] = None
           /\ l \notin {"ok", "error"} => UNCHANGED answer
           /\ l \in {"ok", "error"} => answer' = [answer EXCEPT ![x] = l]
BY ZenonT(60) DEF TypeInv, answer

\* An upload's step is a Publish, a Succeed, a Fail or nothing to AtomicFile.
LEMMA UploadRefines ==
    ASSUME Inv, NEW v \in Uploads, UploadStep(v)
    PROVE  [AF!Next]_(AF!vars)
<1> USE FileTransferAssumption DEF Pids
<1>1. TypeInv /\ pc[v] \notin {"ok", "error"} /\ UploadInv(v) /\ UploadInv(v)'
  BY ZenonT(60), UploadFrame, UploadKeepsOwn DEF Inv
<1>2. UNCHANGED got
  BY ZenonT(60), <1>1, UploadFrame DEF got
<1>3. UNCHANGED pc \/ \E l \in Labels : pc' = [pc EXCEPT ![v] = l]
  BY ZenonT(60) DEF UploadStep, Stage, MakeDir, Attempt, Truncate, Append1, Stat, Rename, Remove, Chmod,
         Goto, Labels
<1>4. CASE UNCHANGED <<file, torn>>
  <2>1. CASE UNCHANGED pc
    BY <1>2, <1>4, <2>1 DEF AF!vars, answer
  <2>2. ASSUME NEW l \in Labels, pc' = [pc EXCEPT ![v] = l]
        PROVE  [AF!Next]_(AF!vars)
    <3>1. CASE l \notin {"ok", "error"}
      BY ZenonT(60), <1>1, <1>2, <1>4, <2>2, <3>1, AnswerStep DEF AF!vars
    <3>2. CASE l = "error"
      <4>1. AF!Fail(v)
        BY ZenonT(60), <1>1, <1>2, <1>4, <2>2, <3>2, AnswerStep DEF AF!Fail, AF!Respond
      <4> QED BY <4>1 DEF AF!Next
    <3>3. CASE l = "ok"
      <4>1. file[PathOf[v]] = Content(v)
        BY ZenonT(60), <1>1, <1>4, <2>2, <3>3 DEF UploadInv, TypeInv
      <4>2. AF!Succeed(v)
        BY ZenonT(60), <1>1, <1>2, <1>4, <2>2, <3>3, <4>1, AnswerStep DEF AF!Succeed, AF!Respond
      <4> QED BY <4>2 DEF AF!Next
    <3> QED BY <3>1, <3>2, <3>3
  <2> QED BY <1>3, <2>1, <2>2
<1>5. CASE ~UNCHANGED <<file, torn>>
  <2>1. Rename(v)
    BY ZenonT(60), <1>5 DEF UploadStep, Stage, MakeDir, Attempt, Truncate, Append1, Stat, Remove, Chmod
  <2>2. /\ pc[v] = "rename"
        /\ file' = [file EXCEPT ![PathOf[v]] = part[PathOf[v]]]
        /\ torn' = [d \in Downloads |->
                      torn[d] \/ (PathOf[d] = PathOf[v] /\ pc[d] = "read")]
        /\ \E l \in {"succeed", "fail"} : pc' = [pc EXCEPT ![v] = l]
    BY <1>5, <2>1 DEF Rename, Goto
  <2>3. answer[v] = None /\ UNCHANGED answer
    BY ZenonT(60), <1>1, <2>2, AnswerStep DEF Labels
  <2>4. After[v] # None => answer[After[v]] = "ok"
    BY ZenonT(60), FileTransferAssumption, <1>1, <2>2 DEF UploadInv, answer
  <2>5. file' = [file EXCEPT ![PathOf[v]] = Content(v)]
    BY ZenonT(60), <1>1, <2>2 DEF UploadInv
  <2>6. /\ torn' = [d \in Downloads |-> torn'[d]]
        /\ \A d \in Downloads : torn'[d] => torn[d] \/ PathOf[d] = PathOf[v]
    BY ZenonT(60), <2>2
  <2>7. AF!Publish(v)
    BY <1>2, <2>3, <2>4, <2>5, <2>6 DEF AF!Publish
  <2> QED BY <2>7 DEF AF!Next
<1> QED BY <1>4, <1>5

\* A download's step is a Deliver, a Fail or nothing to AtomicFile.
LEMMA DownloadRefines ==
    ASSUME Inv, NEW e \in Downloads, DownloadStep(e)
    PROVE  [AF!Next]_(AF!vars)
<1> USE FileTransferAssumption DEF Pids
<1>1. /\ TypeInv /\ pc[e] \notin {"ok", "error"} /\ UNCHANGED <<file, torn>>
      /\ DownloadInv(e) /\ PathOf[e] \in Paths
      /\ \A d \in Downloads \ {e} : pc'[d] = pc[d] /\ out'[d] = out[d]
  BY DownloadFrame DEF Inv
<1>2. CASE Downloaded(e)
  <2> DEFINE f == file[PathOf[e]]
  <2>1. /\ pc' = [pc EXCEPT ![e] = "ok"] /\ pc[e] = "read" /\ next[e] > want[e]
        /\ UNCHANGED out
    BY <1>2 DEF Downloaded, Goto
  <2>2. answer[e] = None /\ answer' = [answer EXCEPT ![e] = "ok"]
    BY ZenonT(60), <1>1, <2>1, AnswerStep DEF Labels
  <2>3. got' = [got EXCEPT ![e] = got'[e]] /\ got'[e] = out[e]
    BY ZenonT(60), <1>1, <2>1 DEF got, TypeInv
  <2>4. ~torn[e] => out[e] = f
    <3> SUFFICES ASSUME ~torn[e] PROVE out[e] = f
      OBVIOUS
    <3>1. /\ f # None /\ want[e] = Len(f) /\ next[e] <= want[e] + 1
          /\ out[e] \in Seq(Piece) /\ Len(out[e]) = next[e] - 1
          /\ \A i \in 1 .. Len(out[e]) : out[e][i] = f[i]
      BY ZenonT(60), <1>1, <2>1 DEF DownloadInv
    <3>2. f = [i \in 1 .. Len(f) |-> f[i]] /\ want[e] \in Nat /\ next[e] \in Nat
      BY ZenonT(60), <1>1, <3>1, VersionsAreSequences DEF Inv, PublishedWhole, TypeInv
    <3>3. out[e] = [i \in 1 .. Len(out[e]) |-> out[e][i]]
      BY <3>1, SeqIsFunction, ZenonT(60)
    <3>4. Len(out[e]) = Len(f)
      BY <2>1, <3>1, <3>2
    <3> QED BY ZenonT(60), <3>1, <3>2, <3>3, <3>4
  <2>5. AF!Deliver(e)
    BY <1>1, <2>2, <2>3, <2>4 DEF AF!Deliver, AF!Respond
  <2> QED BY <2>5 DEF AF!Next
<1>3. CASE ~Downloaded(e)
  <2>1. UNCHANGED pc \/ \E l \in {"begin", "read", "error"} : pc' = [pc EXCEPT ![e] = l]
    BY ZenonT(60), <1>3 DEF DownloadStep, Stage, RemoteSize, ReadChunk, Goto
  <2>2. UNCHANGED got
    BY <1>1, <2>1 DEF got, TypeInv
  <2>3. CASE UNCHANGED pc
    BY <1>1, <2>2, <2>3 DEF AF!vars, answer
  <2>4. CASE \E l \in {"begin", "read"} : pc' = [pc EXCEPT ![e] = l]
    BY ZenonT(60), <1>1, <2>2, <2>4, AnswerStep DEF AF!vars, Labels
  <2>5. CASE pc' = [pc EXCEPT ![e] = "error"]
    <3>1. AF!Fail(e)
      BY ZenonT(60), <1>1, <2>2, <2>5, AnswerStep DEF AF!Fail, AF!Respond, Labels
    <3> QED BY <3>1 DEF AF!Next
  <2> QED BY <2>1, <2>3, <2>4, <2>5
<1> QED BY <1>2, <1>3

\* IsAtomic for every instance: however the execs of copyReaderToSandbox and
\* copyFileFromSandbox fail, fall short or are tried again, and however the
\* transfers interleave, they do what AtomicFile promises, as long as no two
\* uploads have one destination.
THEOREM TransfersAreAtomic ==
    ASSUME OwnDestinations
    PROVE  Spec => IsAtomic
<1>1. Init => AF!Init
  BY DEF Init, AF!Init, answer, got, Pids
<1>2. Inv /\ [Next]_vars => [AF!Next]_(AF!vars)
  <2> SUFFICES ASSUME Inv, [Next]_vars PROVE [AF!Next]_(AF!vars)
    OBVIOUS
  <2>1. CASE UNCHANGED vars
    BY <2>1 DEF vars, AF!vars, answer, got
  <2> QED BY <2>1, UploadRefines, DownloadRefines DEF Next
<1> QED BY <1>1, <1>2, FilesAreWhole, PTL DEF Spec, IsAtomic, AF!Spec
=============================================================================
