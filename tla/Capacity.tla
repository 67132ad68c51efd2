------------------------------ MODULE Capacity ------------------------------
(***************************************************************************)
(* The in-memory admission accounting of one node                          *)
(* (internal/sandbox/capacity.go).  Allocated capacity is an absolute      *)
(* base, recomputed from the durable records, plus the reservations of the *)
(* creates in flight.  Every method holds Capacity.mu throughout, so each  *)
(* one is a single action.                                                 *)
(*                                                                         *)
(* The code keeps three float64 triples and keys reservations by a fresh   *)
(* integer.  Here an amount is a function on Resources, and a reservation  *)
(* is keyed by the process that holds it: a create holds at most one.      *)
(***************************************************************************)
EXTENDS FiniteSetsExt

CONSTANTS
    Resources,  \* the provisionable resources: cpu, memory, disk
    Limit,      \* [Resources -> Nat]: the provision limit; 0 is non-binding
    Procs,      \* the goroutines that may hold a reservation
    None        \* "no value"

Amounts == [Resources -> Nat]
Zero == [r \in Resources |-> 0]

ASSUME CapacityAssumption ==
    /\ IsFiniteSet(Resources)
    /\ Limit \in Amounts
    /\ None \notin Amounts

VARIABLES
    base,       \* allocation computed from the records (baseCPU/Mem/Disk)
    resv        \* reservations by holder; None when it holds none

capacityVars == <<base, resv>>

NewCapacity ==
    /\ base = Zero
    /\ resv = [p \in Procs |-> None]

Holders == {p \in Procs : resv[p] # None}

\* usedLocked: the base plus every outstanding reservation.
Used == [r \in Resources |-> base[r] + MapThenSumSet(LAMBDA p : resv[p][r], Holders)]

FitsLimit(used, r) == Limit[r] = 0 \/ used <= Limit[r]

Fits(cost) == \A r \in Resources : FitsLimit(Used[r] + cost[r], r)

TryReserve(p, cost) ==
    /\ Fits(cost)
    /\ resv' = [resv EXCEPT ![p] = cost]
    /\ UNCHANGED base

Commit(p) ==
    /\ base' = [r \in Resources |-> base[r] + resv[p][r]]
    /\ resv' = [resv EXCEPT ![p] = None]

CommitBase(p, b) ==
    /\ base' = b
    /\ resv' = [resv EXCEPT ![p] = None]

Release(p) ==
    /\ resv' = [resv EXCEPT ![p] = None]
    /\ UNCHANGED base

SetBaseDropped(b) == UNCHANGED <<base, resv>>
SetBase(b) ==
    /\ base' = b
    /\ UNCHANGED resv
=============================================================================
