--------------------------------- MODULE MCWal ---------------------------------
(* Instances of Wal for TLC. *)
EXTENDS Wal

CONSTANTS c1, c2

MCCmd == {c1, c2}
\* A batch that fits the buffer and one that does not.
MCBatches == {<<c1>>, <<c2>>, <<c1, c2>>}
===============================================================================
