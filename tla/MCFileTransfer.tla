-------------------------- MODULE MCFileTransfer ---------------------------
(***************************************************************************)
(* Instances of FileTransfer for TLC.                                      *)
(***************************************************************************)
EXTENDS FileTransfer

CONSTANTS u1, u2, u3, d1, f, g, h

OnePath == [x \in Pids |-> f]
OwnPaths == [x \in Pids |-> CASE x = u2 -> g [] x = u3 -> h [] OTHER -> f]
Single == [u \in Uploads |-> None]
OneCall == [u \in Uploads |-> IF u = u2 THEN u1 ELSE None]
TwoPieces == [u \in Uploads |-> 2]
OneOrTwo == [u \in Uploads |-> IF u = u1 THEN 2 ELSE 1]
OldThree == [p \in Paths |-> 3]
Nothing == [p \in Paths |-> 0]
=============================================================================
