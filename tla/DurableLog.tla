------------------------------ MODULE DurableLog ------------------------------
(***************************************************************************)
(* What a write-ahead log promises: commands are added at the end of the   *)
(* log, a growing prefix of it becomes durable, only durable positions are *)
(* promised to callers, and a crash may cut the log anywhere behind its    *)
(* durable prefix but never inside it.                                     *)
(***************************************************************************)
EXTENDS Integers, Sequences

CONSTANT Cmd

VARIABLES log, durable, promised

dlVars == <<log, durable, promised>>

Init == log = <<>> /\ durable = 0 /\ promised = 0

Extend ==
  /\ log' \in Seq(Cmd)
  /\ Len(log') >= Len(log)
  /\ SubSeq(log', 1, Len(log)) = log
  /\ UNCHANGED <<durable, promised>>

Harden ==
  /\ durable' \in durable .. Len(log)
  /\ UNCHANGED <<log, promised>>

Promise ==
  /\ promised' \in promised .. durable
  /\ UNCHANGED <<log, durable>>

\* What remains of the log may have become durable meanwhile.
Crash ==
  /\ \E n \in durable .. Len(log) :
       /\ log' = SubSeq(log, 1, n)
       /\ durable' \in durable .. n
  /\ UNCHANGED promised

Next == Extend \/ Harden \/ Promise \/ Crash

Spec == Init /\ [][Next]_dlVars
===============================================================================
