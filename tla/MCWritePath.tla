------------------------------ MODULE MCWritePath ------------------------------
(* Instances of WritePath for TLC. *)
EXTENDS WritePath

CONSTANTS n1, n2, n3

\* The second owner is a replica before; the third node may come in with it.
MCPlacements == {[owner |-> n1, replicas |-> {n2}],
                 [owner |-> n2, replicas |-> {n1, n3}]}
===============================================================================
