------------------------------- MODULE StoreOps -------------------------------
(***************************************************************************)
(* core/store.go: the versioned, vnode-indexed key-value store of a node,  *)
(* as operators on a store value.  Every method of Store runs under        *)
(* vNodeMu from its first line to its last, so each is one operator; the   *)
(* modules that hold a store in a variable take one step per method call.  *)
(*                                                                         *)
(* A Go map is a total function here: a missing storage entry is NoValue   *)
(* and a missing meta entry is the zero keyMeta, which is what the code    *)
(* reads for it.  The inner maps of vNodeIdx are sets of keys; "indexed"   *)
(* is the set of vnodes whose inner map has been made, because             *)
(* SnapshotVNode tells a nil inner map from an empty one.                  *)
(***************************************************************************)
EXTENDS Integers, FiniteSets

CONSTANTS Key, Value, VNode,
          NoValue,            \* no entry in the storage map
          Size                \* Size[v] = len(v)

ASSUME ValueAssumption ==
  /\ NoValue \notin Value
  /\ Size \in [Value -> Nat]

ASSUME FiniteAssumption == IsFiniteSet(Key) /\ IsFiniteSet(VNode)

KeyMeta == [version : Nat, tombstone : BOOLEAN]

\* The commands that reach Apply.  Version 0 is the unversioned write.
Command == [op : {"put"}, key : Key, value : Value, vnode : VNode, version : Nat]
             \cup
           [op : {"delete"}, key : Key, vnode : VNode, version : Nat]

StoreState ==
  [storage : [Key -> Value \cup {NoValue}],
   indexed : SUBSET VNode,
   vNodeIdx : [VNode -> SUBSET Key],
   tombstoneIdx : [VNode -> SUBSET Key],
   meta : [Key -> KeyMeta],
   tombstoneCount : Int,
   valueBytes : Int,
   vnodesWithData : Int,
   vnodesWithTombstones : Int]

NewStore ==
  [storage |-> [k \in Key |-> NoValue],
   indexed |-> {},
   vNodeIdx |-> [v \in VNode |-> {}],
   tombstoneIdx |-> [v \in VNode |-> {}],
   meta |-> [k \in Key |-> [version |-> 0, tombstone |-> FALSE]],
   tombstoneCount |-> 0,
   valueBytes |-> 0,
   vnodesWithData |-> 0,
   vnodesWithTombstones |-> 0]

Bytes(val) == IF val = NoValue THEN 0 ELSE Size[val]

DecOnce(x, n) == IF x > 0 /\ n > 0 THEN x - 1 ELSE x  \* mutant: not once per key

\* n times "if x > 0 { x-- }"
Dec(x, n) == IF x <= 0 THEN x ELSE IF n > x THEN 0 ELSE x - n

-------------------------------------------------------------------------------
(* Apply *)

NeverStale(s, cmd) == FALSE  \* mutant: the version check is dropped

Stale(s, cmd) ==
  /\ cmd.version # 0
  /\ cmd.version < s.meta[cmd.key].version

VersionBefore(s, cmd) ==     \* mutant: counts down
  IF cmd.version = 0 THEN s.meta[cmd.key].version - 1 ELSE cmd.version

NewVersion(s, cmd) ==
  IF cmd.version = 0 THEN s.meta[cmd.key].version + 1 ELSE cmd.version

ApplyPut(s, cmd) ==
  LET k == cmd.key
      v == cmd.vnode
  IN [storage |-> [s.storage EXCEPT ![k] = cmd.value],
      indexed |-> s.indexed \cup {v},
      vNodeIdx |-> [s.vNodeIdx EXCEPT ![v] = @ \cup {k}],
      tombstoneIdx |-> [s.tombstoneIdx EXCEPT ![v] = @ \ {k}],
      meta |-> [s.meta EXCEPT ![k] = [version |-> NewVersion(s, cmd),
                                      tombstone |-> FALSE]],
      tombstoneCount |-> s.tombstoneCount - (IF s.meta[k].tombstone THEN 1 ELSE 0),
      valueBytes |-> s.valueBytes - Bytes(s.storage[k]) + Bytes(cmd.value),
      vnodesWithData |->
        s.vnodesWithData + (IF s.vNodeIdx[v] = {} THEN 1 ELSE 0),
      vnodesWithTombstones |->
        Dec(s.vnodesWithTombstones, IF s.tombstoneIdx[v] = {k} THEN 1 ELSE 0)]

ApplyDelete(s, cmd) ==
  LET k == cmd.key
      v == cmd.vnode
  IN [storage |-> [s.storage EXCEPT ![k] = NoValue],
      indexed |-> s.indexed,
      vNodeIdx |-> [s.vNodeIdx EXCEPT ![v] = @ \ {k}],
      tombstoneIdx |-> [s.tombstoneIdx EXCEPT ![v] = @ \cup {k}],
      meta |-> [s.meta EXCEPT ![k] = [version |-> NewVersion(s, cmd),
                                      tombstone |-> TRUE]],
      tombstoneCount |-> s.tombstoneCount + (IF s.meta[k].tombstone THEN 0 ELSE 1),
      valueBytes |-> s.valueBytes - Bytes(s.storage[k]),
      vnodesWithData |->
        Dec(s.vnodesWithData, IF s.vNodeIdx[v] = {k} THEN 1 ELSE 0),
      vnodesWithTombstones |->
        s.vnodesWithTombstones + (IF s.tombstoneIdx[v] = {} THEN 1 ELSE 0)]

\* A stale command is dropped, and the caller is told nothing went wrong.
Apply(s, cmd) ==
  IF Stale(s, cmd) THEN s
  ELSE IF cmd.op = "put" THEN ApplyPut(s, cmd) ELSE ApplyDelete(s, cmd)

-------------------------------------------------------------------------------
(* Reads *)

NotFound == [found |-> FALSE]

GetWithVersion(s, k) ==
  IF s.storage[k] = NoValue \/ s.meta[k].tombstone
    THEN NotFound
    ELSE [found |-> TRUE, value |-> s.storage[k], version |-> s.meta[k].version]

GetKeysForVNode(s, v) == IF v \in s.indexed THEN s.vNodeIdx[v] ELSE {}

SnapshotUnversioned(s, v) ==  \* mutant: entries travel without their version
  {[op |-> "put", key |-> k, value |-> s.storage[k], vnode |-> v, version |-> 0] :
   k \in s.vNodeIdx[v]}

\* The entries of a snapshot, as the commands transferVNodeFrom applies for
\* them.  Nothing is returned when the inner map was never made.
SnapshotVNode(s, v) ==
  IF v \notin s.indexed THEN {}
  ELSE {IF s.meta[k].tombstone
          THEN [op |-> "delete", key |-> k, vnode |-> v,
                version |-> s.meta[k].version]
          ELSE [op |-> "put", key |-> k, value |-> s.storage[k], vnode |-> v,
                version |-> s.meta[k].version] :
        k \in {j \in s.vNodeIdx[v] : s.storage[j] # NoValue}}
       \cup
       {[op |-> "delete", key |-> k, vnode |-> v, version |-> s.meta[k].version] :
        k \in s.tombstoneIdx[v]}

-------------------------------------------------------------------------------
(* DeleteVNodeData *)

\* valueBytes is left alone, and nothing of this reaches the WAL.
DeleteVNodeData(s, v) ==
  LET idx == s.vNodeIdx[v]
      ts  == s.tombstoneIdx[v]
  IN IF idx = {} /\ ts = {} THEN s
     ELSE [storage |-> [k \in Key |-> IF k \in idx THEN NoValue ELSE s.storage[k]],
           indexed |-> s.indexed \ {v},
           vNodeIdx |-> [s.vNodeIdx EXCEPT ![v] = {}],
           tombstoneIdx |-> [s.tombstoneIdx EXCEPT ![v] = {}],
           meta |-> [k \in Key |-> IF k \in idx \cup ts
                                     THEN [version |-> 0, tombstone |-> FALSE]
                                     ELSE s.meta[k]],
           tombstoneCount |-> Dec(s.tombstoneCount, Cardinality(ts)),
           valueBytes |-> s.valueBytes,
           vnodesWithData |-> Dec(s.vnodesWithData, IF idx = {} THEN 0 ELSE 1),
           vnodesWithTombstones |->
             Dec(s.vnodesWithTombstones, IF ts = {} THEN 0 ELSE 1)]
===============================================================================
