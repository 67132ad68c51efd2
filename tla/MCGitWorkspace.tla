--------------------------- MODULE MCGitWorkspace ---------------------------
(***************************************************************************)
(* Instances of GitWorkspace for TLC.                                      *)
(***************************************************************************)
EXTENDS GitWorkspace, TLC

\* HEAD, or two branches at once.
SomeSelections == {{}, {Main} \cup Features}

Symmetry == Permutations(Procs)

\* A crash takes the place of a request: three requests, or two and a crash.
MCNext == Next /\ requests' + crashes' <= MaxRequests

MCSpec == Init /\ [][MCNext]_vars
=============================================================================
