---------------------------- MODULE MCOperations ----------------------------
(***************************************************************************)
(* Instances of Operations for TLC.                                        *)
(***************************************************************************)
EXTENDS Operations, TLC

CONSTANTS k1, k2

\* Creates and agent runs under one key, an agent run under another key, and
\* creates without a key.
MCRequests == {<<"provision", k1>>, <<"agent-run", k1>>, <<"agent-run", k2>>, <<"provision", NoKey>>}
CreateRequests == {<<"provision", k1>>}

\* Op ids, sandbox ids, callers and workers are interchangeable.
MCSymmetry ==
    Permutations(OpIds) \cup Permutations(Sids) \cup Permutations(Callers) \cup Permutations(Workers)
=============================================================================
