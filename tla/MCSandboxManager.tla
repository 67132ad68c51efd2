-------------------------- MODULE MCSandboxManager --------------------------
(***************************************************************************)
(* Small instances of SandboxManager for TLC.                              *)
(***************************************************************************)
EXTENDS SandboxManager, TLC

CONSTANTS c1, c2, reaper, ticker

MCProcs == Callers \cup Sweepers \cup {Ticker}
OneResource == {"cpu"}
LimitTwo == [r \in OneResource |-> 2]
CostOne == [s \in Specs |-> [r \in OneResource |-> 1]]
MCSymmetry == Permutations(Callers)
=============================================================================
