-------------------------------- MODULE MCStore --------------------------------
(* Instances of Store for TLC. *)
EXTENDS Store

CONSTANTS k1, k2, k3, short, long

MCKey3 == {k1, k2, k3}
MCValue == {short, long}
MCSize == [val \in MCValue |-> IF val = short THEN 1 ELSE 2]
\* Two keys share a vnode, the third hashes to the fallback vnode.
MCVNodeOf == [k \in Key |-> IF k = k3 THEN 0 ELSE 1]
===============================================================================
