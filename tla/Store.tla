--------------------------------- MODULE Store ---------------------------------
(***************************************************************************)
(* One node's store under the calls the rest of the node makes: Apply from *)
(* the event loop (client writes, replicated writes, transferred entries,  *)
(* WAL replay), in any version order and with repetitions, and             *)
(* DeleteVNodeData from the migration goroutine.                           *)
(*                                                                         *)
(* "applied" is history: the commands Apply was called with, carrying the  *)
(* version they were given, since their vnode was last dropped.            *)
(***************************************************************************)
EXTENDS StoreOps, FiniteSetsExt

CONSTANTS VNodeOf,          \* the vnode a key hashes to
          FallbackVNode,    \* GetVNodeForKey's answer without a placement
          PlacedAtStart,    \* a placement is installed before the first write
          Droppable,        \* the vnodes this node may lose
          Versions,         \* the versions commands arrive with
          MaxApplied,       \* bound on the history
          MaxBytes          \* bound on valueBytes

ASSUME VNodeAssumption ==
  /\ VNodeOf \in [Key -> VNode]
  /\ FallbackVNode \in VNode
  /\ Droppable \subseteq VNode

ASSUME VersionAssumption == Versions \subseteq Nat

ASSUME BoundAssumption == MaxApplied \in Nat /\ MaxBytes \in Nat

ASSUME PlacedAssumption == PlacedAtStart \in BOOLEAN

VARIABLES store, placed, applied

vars == <<store, placed, applied>>

TypeOK ==
  /\ store \in StoreState
  /\ placed \in BOOLEAN
  /\ applied \subseteq Command

Init ==
  /\ store = NewStore
  /\ placed = PlacedAtStart
  /\ applied = {}

AlwaysFallback(k) == FallbackVNode  \* mutant: the placement is never consulted

GetVNodeForKey(k) == IF placed THEN VNodeOf[k] ELSE FallbackVNode

Submit(cmd) ==
  LET stamped == [cmd EXCEPT !.version = NewVersion(store, cmd)]
  IN /\ Cardinality(applied \cup {stamped}) <= MaxApplied
     /\ Apply(store, cmd).valueBytes <= MaxBytes
     /\ store' = Apply(store, cmd)
     /\ applied' = applied \cup {stamped}
     /\ UNCHANGED placed

Put(k, val, ver) ==
  Submit([op |-> "put", key |-> k, value |-> val,
          vnode |-> GetVNodeForKey(k), version |-> ver])

Delete(k, ver) ==
  Submit([op |-> "delete", key |-> k, vnode |-> GetVNodeForKey(k), version |-> ver])

DropVNode(v) ==
  /\ store' = DeleteVNodeData(store, v)
  /\ applied' = {c \in applied : c.vnode # v}
  /\ UNCHANGED placed

\* Every placement that raft delivers replaces the one before.
InstallPlacement ==
  /\ placed' = TRUE
  /\ UNCHANGED <<store, applied>>

Next ==
  \/ \E k \in Key, val \in Value, ver \in Versions : Put(k, val, ver)
  \/ \E k \in Key, ver \in Versions : Delete(k, ver)
  \/ \E v \in Droppable : DropVNode(v)
  \/ InstallPlacement

Spec == Init /\ [][Next]_vars

-------------------------------------------------------------------------------
(* Properties *)

\* Every stored key is listed under the vnode it hashes to and under no
\* other, and every tombstone likewise: what SnapshotVNode, GetKeysForVNode
\* and DeleteVNodeData walk for a vnode is exactly that vnode's part of the
\* store, with live keys and tombstones disjoint.
IndexExact ==
  \A v \in VNode :
    /\ store.vNodeIdx[v] = {k \in Key : VNodeOf[k] = v /\ store.storage[k] # NoValue}
    /\ store.tombstoneIdx[v] = {k \in Key : VNodeOf[k] = v /\ store.meta[k].tombstone}
    /\ store.vNodeIdx[v] \cap store.tombstoneIdx[v] = {}

\* The gauges kept by increments and guarded decrements in Apply and
\* DeleteVNodeData ("Current number of tombstoned keys", "Number of vnodes
\* with at least one active key", "Number of vnodes with tombstones") never
\* drift from the maps they describe.
CountersExact ==
  /\ store.tombstoneCount = Cardinality({k \in Key : store.meta[k].tombstone})
  /\ store.vnodesWithData = Cardinality({v \in VNode : store.vNodeIdx[v] # {}})
  /\ store.vnodesWithTombstones = Cardinality({v \in VNode : store.tombstoneIdx[v] # {}})

\* What key k of store s must be when the commands A have been applied: the
\* zero entry if none was for k, and otherwise what one of the commands with
\* the highest version says.
Holds(s, k, c) ==
  /\ s.meta[k] = [version |-> c.version, tombstone |-> c.op = "delete"]
  /\ s.storage[k] = IF c.op = "put" THEN c.value ELSE NoValue

LastWriter(s, A, k) ==
  LET mine == {c \in A : c.key = k}
  IN \/ /\ mine = {}
        /\ s.meta[k] = [version |-> 0, tombstone |-> FALSE]
        /\ s.storage[k] = NoValue
     \/ \E c \in mine : /\ Holds(s, k, c)
                        /\ \A d \in mine : d.version <= c.version

\* Whatever the order commands arrive in, and however often they are
\* repeated, each key holds what its newest command says ("Ignore stale
\* writes to avoid overwriting newer data during migration/replay").
LastWriterWins == \A k \in Key : LastWriter(store, applied, k)

\* A vnode snapshot applied to an empty store, as a node that gained the
\* vnode does, serves every read of that vnode as the source does.
SnapshotServesReads ==
  \A v \in VNode :
    LET copy == FoldSet(LAMBDA cmd, s : Apply(s, cmd), NewStore,
                        SnapshotVNode(store, v))
    IN \A k \in Key : VNodeOf[k] = v =>
         GetWithVersion(copy, k) = GetWithVersion(store, k)

\* "tombstoneIdx tracks deleted keys by vnode so migration can transfer
\* delete markers" (store.go): every delete marker is in its vnode's snapshot.
TombstonesTransferred ==
  \A v \in VNode : \A k \in store.tombstoneIdx[v] :
    \E cmd \in SnapshotVNode(store, v) : cmd.key = k /\ cmd.op = "delete"

\* The version of a key never goes back, except to nothing when its vnode is
\* dropped together with the value.
VersionsAdvance ==
  [][\A k \in Key :
       \/ store'.meta[k].version >= store.meta[k].version
       \/ store'.meta[k].version = 0 /\ store'.storage[k] = NoValue]_vars
===============================================================================
