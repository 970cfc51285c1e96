----------------------------- MODULE MCEventLoop -----------------------------
(* Instances of EventLoop for TLC. *)
EXTENDS EventLoop

CONSTANTS k1, k2, h1, h2, a1, val

MCSize == [x \in Value |-> 1]
MCKeyVNode == [k \in Key |-> 0]

\* The requests that can be logged.
MCCmd ==
  [from : Caller, op : {"put"}, key : Key, value : Value, vnode : VNode,
   version : 1 .. MaxVersion]
    \cup
  [from : Caller, op : {"delete"}, key : Key, vnode : VNode, version : 1 .. MaxVersion]
===============================================================================
