---------------------------- MODULE MCNodeLife -----------------------------
(***************************************************************************)
(* Instances of NodeLife and NodeControl for TLC.  Either one process is   *)
(* launched again and again and serves all the RPCs, or two processes      *)
(* compete for the data directory of a node without sandboxes and serve    *)
(* one.  The swarm id is on disk, or torn, before the first RPC.           *)
(* Operators and sweeps are alike, so the second one sets out only while   *)
(* the first is busy.                                                      *)
(***************************************************************************)
EXTENDS NodeLife

CONSTANTS s1, p1, p2, w1, w2, q1, m1, m2

VARIABLE team    \* the processes the supervisor launches

MCInit == LifeInit /\ team \in {{m1}, {m1, m2}} /\ (team = {m1} \/ status = [s \in Sids |-> "none"])

MCNext ==
    /\ LifeNext /\ UNCHANGED team
    /\ \A p \in Procs \ team : phase'[p] = "off"
    /\ team = {m1} \/ (sent' <= 1 /\ UNCHANGED ppc)
    /\ sent' = 0 \/ (swarmfile' # "none" /\ (sent = 0 \/ swarmfile' \in {"whole", swarmfile}))
    /\ (opc[p2] = "idle" /\ opc'[p2] # "idle") => opc[p1] # "idle"
    /\ (spc[w2] = "idle" /\ spc'[w2] # "idle") => spc[w1] # "idle"

MCSpec ==
    /\ MCInit /\ [][MCNext]_<<AllVars, team>>
    /\ \A p \in Procs : WF_AllVars(p \in team /\ Main(p))
=============================================================================
