----------------------------- MODULE AtomicFile ----------------------------
(***************************************************************************)
(* What the file transfers promise: a file changes from one whole version  *)
(* to another in one step, an upload that is answered with success has     *)
(* made its version the file, the files of one call are written in order,  *)
(* and a download is one version of the file unless it changed meanwhile.  *)
(***************************************************************************)
CONSTANTS
    Uploads, Downloads,
    PathOf,         \* Uploads \cup Downloads -> destinations
    After,          \* Uploads -> the upload that precedes it in its call, or None
    Whole,          \* Uploads -> the version it makes
    Old,            \* destinations -> the version that is there
    None

VARIABLES
    file,           \* destinations -> version
    answer,         \* transfers -> None, "ok" or "error"
    got,            \* Downloads -> None or what it delivered
    changed         \* Downloads -> the file has changed since it began

vars == <<file, answer, got, changed>>

Init ==
    /\ file = Old
    /\ answer = [x \in Uploads \cup Downloads |-> None]
    /\ got = [d \in Downloads |-> None]
    /\ changed = [d \in Downloads |-> FALSE]

Respond(x, r) == answer[x] = None /\ answer' = [answer EXCEPT ![x] = r]

\* The version of u becomes the file; u may still be answered with an error.
Publish(u) ==
    /\ answer[u] = None
    /\ After[u] # None => answer[After[u]] = "ok"
    /\ file' = [file EXCEPT ![PathOf[u]] = Whole[u]]
    /\ \A d \in Downloads : changed'[d] => changed[d] \/ PathOf[d] = PathOf[u]
    /\ changed' = [d \in Downloads |-> changed'[d]]
    /\ UNCHANGED <<answer, got>>

Succeed(u) ==
    /\ file[PathOf[u]] = Whole[u]
    /\ Respond(u, "ok")
    /\ UNCHANGED <<file, got, changed>>

Fail(x) == Respond(x, "error") /\ UNCHANGED <<file, got, changed>>

Deliver(d) ==
    /\ Respond(d, "ok")
    /\ got' = [got EXCEPT ![d] = got'[d]]
    /\ ~changed[d] => got'[d] = file[PathOf[d]]
    /\ UNCHANGED <<file, changed>>

Next ==
    \/ \E u \in Uploads : Publish(u) \/ Succeed(u) \/ Fail(u)
    \/ \E d \in Downloads : Deliver(d) \/ Fail(d)

Spec == Init /\ [][Next]_vars
=============================================================================
