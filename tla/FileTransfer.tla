---------------------------- MODULE FileTransfer ----------------------------
(***************************************************************************)
(* File uploads into a sandbox and downloads out of it                     *)
(* (internal/apiserver/filescopy.go, files.go, and WriteFiles, which       *)
(* uploads the files of one call in order).                                *)
(*                                                                         *)
(* Every access to the sandbox is an exec, which may fail before or after  *)
(* it took effect, and which may deliver less than it was given.  A file   *)
(* is a sequence of pieces, a piece being what one exec moves; a piece of  *)
(* upload u is <<u, i>>.  Uploads to one destination share one temporary   *)
(* file beside it.                                                         *)
(***************************************************************************)
EXTENDS Naturals, Sequences

CONSTANTS
    Uploads, Downloads,
    Paths,          \* destinations in the sandbox
    PathOf,         \* Uploads \cup Downloads -> Paths
    Pieces,         \* Uploads -> the number of its pieces
    After,          \* Uploads -> the file before it in its WriteFiles call, or None
    Chmods,         \* the uploads of WriteFiles with a mode
    OldFile,        \* Paths -> number of pieces of the file that is there, 0 for none
    TransferTries,
    None

Pids == Uploads \cup Downloads
Content(u) == [i \in 1 .. Pieces[u] |-> <<u, i>>]
Original(p) == IF OldFile[p] = 0 THEN None ELSE [i \in 1 .. OldFile[p] |-> <<None, i>>]

ASSUME FileTransferAssumption ==
    /\ Uploads \cap Downloads = {} /\ None \notin Uploads
    /\ PathOf \in [Pids -> Paths]
    /\ After \in [Uploads -> Uploads \cup {None}] /\ Chmods \subseteq Uploads
    /\ Pieces \in [Uploads -> Nat \ {0}] /\ OldFile \in [Paths -> Nat]
    /\ TransferTries \in Nat \ {0}

VARIABLES
    file,       \* Paths -> the file, or None
    part,       \* Paths -> the temporary file, or None
    pc,         \* a transfer's step; "ok" and "error" are its answers
    try,        \* attempts begun: of an upload, or of the block being read
    next,       \* the next piece to append or block to read
    want,       \* a download: the size it expects
    out,        \* a download: what it has written
    torn        \* history: the file was replaced under a download

vars == <<file, part, pc, try, next, want, out, torn>>

Init ==
    /\ file = [p \in Paths |-> Original(p)]
    /\ part = [p \in Paths |-> None]
    /\ pc = [x \in Pids |-> "new"]
    /\ try = [x \in Pids |-> 0] /\ next = [x \in Pids |-> 1]
    /\ want = [d \in Downloads |-> 0] /\ out = [d \in Downloads |-> <<>>]
    /\ torn = [d \in Downloads |-> FALSE]

Goto(x, label) == pc' = [pc EXCEPT ![x] = label]
Set(f, x, v) == [f EXCEPT ![PathOf[x]] = v]

-----------------------------------------------------------------------------
\* Mutant: WriteFiles goes on after a file that failed.
StageAnyway(x) ==
    /\ pc[x] = "new"
    /\ x \in Uploads /\ After[x] # None => pc[After[x]] \in {"ok", "error"}
    /\ Goto(x, "begin") \/ Goto(x, "error")
    /\ UNCHANGED <<file, part, try, next, want, out, torn>>

\* The handlers up to the transfer: the path, the sandbox and the staging file
\* may each be refused.  WriteFiles takes its files one after the other and
\* returns at the first that fails.
Stage(x) ==
    /\ pc[x] = "new"
    /\ \/ /\ x \in Uploads /\ After[x] # None => pc[After[x]] = "ok"
          /\ Goto(x, "begin") \/ Goto(x, "error")
       \/ /\ x \in Uploads /\ After[x] # None /\ pc[After[x]] = "error"
          /\ Goto(x, "error")
    /\ UNCHANGED <<file, part, try, next, want, out, torn>>

(***************************************************************************)
(* copyReaderToSandbox.                                                    *)
(***************************************************************************)
\* mkdir -p
MakeDir(u) ==
    /\ pc[u] = "begin"
    /\ Goto(u, "attempt") \/ Goto(u, "error")
    /\ UNCHANGED <<file, part, try, next, want, out, torn>>

\* Mutant: the attempts are not counted.
AttemptForever(u) ==
    /\ pc[u] = "attempt"
    /\ Goto(u, "truncate")
    /\ UNCHANGED <<file, part, try, next, want, out, torn>>

\* The head of the retry loop; at its end the temporary file is removed.
Attempt(u) ==
    /\ pc[u] = "attempt"
    /\ IF try[u] < TransferTries
       THEN Goto(u, "truncate") /\ try' = [try EXCEPT ![u] = @ + 1]
       ELSE Goto(u, "fail") /\ UNCHANGED try
    /\ UNCHANGED <<file, part, next, want, out, torn>>

\* : > tmp
Truncate(u) ==
    /\ pc[u] = "truncate"
    /\ \/ /\ part' = Set(part, u, <<>>)
          /\ Goto(u, "append") /\ next' = [next EXCEPT ![u] = 1]
       \/ /\ part' \in {part, Set(part, u, <<>>)}
          /\ Goto(u, "attempt") /\ UNCHANGED next
    /\ UNCHANGED <<file, try, want, out, torn>>

\* A batch is appended; it may fall short.  ">>" makes the file when it is gone.
Append1(u) ==
    LET old == IF part[PathOf[u]] = None THEN <<>> ELSE part[PathOf[u]]
        longer == Set(part, u, Append(old, Content(u)[next[u]])) IN
    /\ pc[u] = "append"
    /\ IF next[u] > Pieces[u]
       THEN Goto(u, "stat") /\ UNCHANGED <<part, next>>
       ELSE \/ /\ part' \in {longer, Set(part, u, old)}
               /\ next' = [next EXCEPT ![u] = @ + 1]
               /\ UNCHANGED pc
            \/ /\ part' \in {part, longer, Set(part, u, old)}
               /\ Goto(u, "attempt") /\ UNCHANGED next
    /\ UNCHANGED <<file, try, want, out, torn>>

\* The size is compared; a difference or an error is another attempt.
Stat(u) ==
    /\ pc[u] = "stat"
    /\ \/ /\ part[PathOf[u]] # None /\ Len(part[PathOf[u]]) = Pieces[u]
          /\ Goto(u, "rename")
       \/ Goto(u, "attempt")
    /\ UNCHANGED <<file, part, try, next, want, out, torn>>

\* mv -f tmp dest
Rename(u) ==
    LET p == PathOf[u]
        moved == /\ part[p] # None
                 /\ file' = [file EXCEPT ![p] = part[p]]
                 /\ part' = [part EXCEPT ![p] = None]
                 /\ torn' = [d \in Downloads |-> torn[d] \/ (PathOf[d] = p /\ pc[d] = "read")] IN
    /\ pc[u] = "rename"
    /\ \/ moved /\ (Goto(u, "succeed") \/ Goto(u, "fail"))
       \/ UNCHANGED <<file, part, torn>> /\ Goto(u, "fail")
    /\ UNCHANGED <<try, next, want, out>>

\* The deferred rm -f tmp; its error is ignored.
Remove(u) ==
    /\ pc[u] \in {"succeed", "fail"}
    /\ part' \in {part, Set(part, u, None)}
    /\ Goto(u, IF pc[u] = "fail" THEN "error" ELSE IF u \in Chmods THEN "chmod" ELSE "ok")
    /\ UNCHANGED <<file, try, next, want, out, torn>>

\* WriteFiles sets the mode of the published file.
Chmod(u) ==
    /\ pc[u] = "chmod"
    /\ Goto(u, "ok") \/ Goto(u, "error")
    /\ UNCHANGED <<file, part, try, next, want, out, torn>>

-----------------------------------------------------------------------------
(***************************************************************************)
(* copyFileFromSandbox.                                                    *)
(***************************************************************************)
\* remoteSize of the source
RemoteSize(d) ==
    /\ pc[d] = "begin"
    /\ \/ /\ file[PathOf[d]] # None
          /\ want' = [want EXCEPT ![d] = Len(file[PathOf[d]])]
          /\ Goto(d, "read")
       \/ Goto(d, "error") /\ UNCHANGED want
    /\ UNCHANGED <<file, part, try, next, out, torn>>

\* What a read of a block that passes the comparison may deliver.
Block(d) == IF next[d] <= Len(file[PathOf[d]]) THEN {file[PathOf[d]][next[d]]} ELSE {}

\* readChunkVerified: an error, bad base64 or a short block is another try.
ReadChunk(d) ==
    /\ pc[d] = "read" /\ next[d] <= want[d]
    /\ \/ \E b \in Block(d) :
            /\ out' = [out EXCEPT ![d] = Append(@, b)]
            /\ next' = [next EXCEPT ![d] = @ + 1]
            /\ try' = [try EXCEPT ![d] = 0]
            /\ UNCHANGED pc
       \/ /\ try' = [try EXCEPT ![d] = @ + 1]
          /\ IF try'[d] = TransferTries THEN Goto(d, "error") ELSE UNCHANGED pc
          /\ UNCHANGED <<next, out>>
    /\ UNCHANGED <<file, part, want, torn>>

Downloaded(d) ==
    /\ pc[d] = "read" /\ next[d] > want[d]
    /\ Goto(d, "ok")
    /\ UNCHANGED <<file, part, try, next, want, out, torn>>

UploadStep(u) ==
    \/ Stage(u) \/ MakeDir(u) \/ Attempt(u) \/ Truncate(u) \/ Append1(u) \/ Stat(u)
    \/ Rename(u) \/ Remove(u) \/ Chmod(u)
DownloadStep(d) == Stage(d) \/ RemoteSize(d) \/ ReadChunk(d) \/ Downloaded(d)

Next == (\E u \in Uploads : UploadStep(u)) \/ (\E d \in Downloads : DownloadStep(d))

Spec == Init /\ [][Next]_vars

\* The goroutines of the requests are scheduled, and an exec returns.
FairSpec ==
    /\ Spec
    /\ \A u \in Uploads : WF_vars(UploadStep(u))
    /\ \A d \in Downloads : WF_vars(DownloadStep(d))

-----------------------------------------------------------------------------
(***************************************************************************)
(* The abstract specification.                                             *)
(***************************************************************************)
answer == [x \in Pids |-> IF pc[x] \in {"ok", "error"} THEN pc[x] ELSE None]
got == [d \in Downloads |-> IF pc[d] = "ok" THEN out[d] ELSE None]

AF == INSTANCE AtomicFile WITH
    changed <- torn,
    Whole <- [u \in Uploads |-> Content(u)],
    Old <- [p \in Paths |-> Original(p)]

\* Uploads to different destinations; two to one share a temporary file.
OwnDestinations == \A u, v \in Uploads : PathOf[u] = PathOf[v] => u = v

\* "A half-written file is never published": whatever execs fail, fall short or
\* are repeated, transfers do what AtomicFile promises.  A destination holds one
\* whole version, success means it is the uploaded one, a download that no upload
\* disturbed is one version, and no file of a WriteFiles call is written after
\* one that failed.
IsAtomic == AF!Spec

Versions(p) == {Original(p)} \cup {Content(u) : u \in {v \in Uploads : PathOf[v] = p}}

\* The file at a destination is the old one or an upload's whole content.
PublishedWhole == \A p \in Paths : file[p] \in Versions(p)

\* Every transfer is answered: the retries are bounded.
TransferEnds == \A x \in Pids : <>(pc[x] \in {"ok", "error"})
=============================================================================
