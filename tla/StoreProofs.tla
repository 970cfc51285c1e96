------------------------------ MODULE StoreProofs ------------------------------
(***************************************************************************)
(* Theorems about module Store, for every set of keys, values, vnodes and  *)
(* versions.                                                               *)
(***************************************************************************)
EXTENDS Store, Sequences, FiniteSetTheorems, WellFoundedInduction, TLAPS

(* The operators of StoreOps preserve the shape of a store. *)

LEMMA DecType ==
  ASSUME NEW x \in Int, NEW n \in Nat
  PROVE  Dec(x, n) \in Int
BY DEF Dec

LEMMA BytesType ==
  ASSUME NEW val \in Value \cup {NoValue}
  PROVE  Bytes(val) \in Int
BY ValueAssumption DEF Bytes

LEMMA KeysFinite ==
  ASSUME NEW S \in SUBSET Key
  PROVE  IsFiniteSet(S) /\ Cardinality(S) \in Nat
BY FiniteAssumption, FS_Subset, FS_CardinalityType

LEMMA NewVersionType ==
  ASSUME NEW s \in StoreState, NEW cmd \in Command
  PROVE  NewVersion(s, cmd) \in Nat
<1>1. cmd.key \in Key /\ cmd.version \in Nat
  BY DEF Command
<1>2. s.meta[cmd.key] \in KeyMeta
  BY <1>1 DEF StoreState
<1> QED
  BY <1>1, <1>2 DEF NewVersion, KeyMeta

LEMMA NewStoreType == NewStore \in StoreState
BY DEF NewStore, StoreState, KeyMeta

LEMMA ApplyPutType ==
  ASSUME NEW s \in StoreState, NEW cmd \in Command, cmd.op = "put"
  PROVE  ApplyPut(s, cmd) \in StoreState
<1>1. cmd.key \in Key /\ cmd.vnode \in VNode /\ cmd.value \in Value
  BY DEF Command
<1>2. NewVersion(s, cmd) \in Nat
  BY NewVersionType
<1>3. Bytes(s.storage[cmd.key]) \in Int /\ Bytes(cmd.value) \in Int
  BY <1>1, BytesType DEF StoreState
<1>4. \A n \in Nat : Dec(s.vnodesWithTombstones, n) \in Int
  BY DecType DEF StoreState
<1>5. \A b : (IF b THEN 1 ELSE 0) \in Nat
  OBVIOUS
<1> QED
  BY <1>1, <1>2, <1>3, <1>4 DEF ApplyPut, StoreState, KeyMeta

LEMMA ApplyDeleteType ==
  ASSUME NEW s \in StoreState, NEW cmd \in Command
  PROVE  ApplyDelete(s, cmd) \in StoreState
<1>1. cmd.key \in Key /\ cmd.vnode \in VNode
  BY DEF Command
<1>2. NewVersion(s, cmd) \in Nat
  BY NewVersionType
<1>3. Bytes(s.storage[cmd.key]) \in Int
  BY <1>1, BytesType DEF StoreState
<1>4. \A n \in Nat : Dec(s.vnodesWithData, n) \in Int
  BY DecType DEF StoreState
<1> QED
  BY <1>1, <1>2, <1>3, <1>4 DEF ApplyDelete, StoreState, KeyMeta

LEMMA ApplyType ==
  ASSUME NEW s \in StoreState, NEW cmd \in Command
  PROVE  Apply(s, cmd) \in StoreState
BY ApplyPutType, ApplyDeleteType DEF Apply, Command

LEMMA DeleteVNodeDataType ==
  ASSUME NEW s \in StoreState, NEW v \in VNode
  PROVE  DeleteVNodeData(s, v) \in StoreState
<1>1. Cardinality(s.tombstoneIdx[v]) \in Nat
  BY KeysFinite DEF StoreState
<1>2. \A x \in Int, n \in Nat : Dec(x, n) \in Int
  BY DecType
<1> QED
  BY Zenon, <1>1, <1>2 DEF DeleteVNodeData, StoreState, KeyMeta

-------------------------------------------------------------------------------
(* What a step is, without the way Put and Delete build their command. *)

\* The command that goes into the history is the one submitted, restamped.
LEMMA StampedCommand ==
  ASSUME NEW cmd \in Command, NEW n \in Nat
  PROVE  LET c == [cmd EXCEPT !.version = n]
         IN /\ c \in Command
            /\ c.key = cmd.key /\ c.op = cmd.op /\ c.vnode = cmd.vnode
            /\ c.version = n
            /\ cmd.op = "put" => c.value = cmd.value
BY DEF Command

LEMMA StepCases ==
  ASSUME TypeOK, Next
  PROVE  \/ \E cmd \in Command : /\ cmd.vnode = GetVNodeForKey(cmd.key)
                                 /\ Submit(cmd)
         \/ \E v \in Droppable : DropVNode(v)
         \/ InstallPlacement
<1>1. \A k \in Key : GetVNodeForKey(k) \in VNode
  BY VNodeAssumption DEF GetVNodeForKey
<1>2. ASSUME NEW k \in Key, NEW val \in Value, NEW ver \in Versions, Put(k, val, ver)
      PROVE  \E cmd \in Command : cmd.vnode = GetVNodeForKey(cmd.key) /\ Submit(cmd)
  <2> DEFINE c == [op |-> "put", key |-> k, value |-> val,
                   vnode |-> GetVNodeForKey(k), version |-> ver]
  <2>1. c \in Command
    BY <1>1, VersionAssumption DEF Command
  <2>2. c.vnode = GetVNodeForKey(c.key)
    OBVIOUS
  <2>3. Submit(c)
    BY <1>2 DEF Put
  <2> QED
    BY <2>1, <2>2, <2>3
<1>3. ASSUME NEW k \in Key, NEW ver \in Versions, Delete(k, ver)
      PROVE  \E cmd \in Command : cmd.vnode = GetVNodeForKey(cmd.key) /\ Submit(cmd)
  <2> DEFINE c == [op |-> "delete", key |-> k, vnode |-> GetVNodeForKey(k),
                   version |-> ver]
  <2>1. c \in Command
    BY <1>1, VersionAssumption DEF Command
  <2>2. c.vnode = GetVNodeForKey(c.key)
    OBVIOUS
  <2>3. Submit(c)
    BY <1>3 DEF Delete
  <2> QED
    BY <2>1, <2>2, <2>3
<1> QED
  BY <1>2, <1>3 DEF Next

-------------------------------------------------------------------------------
(* Type correctness *)

LEMMA InitType == Init => TypeOK
BY NewStoreType, PlacedAssumption DEF Init, TypeOK

LEMMA StepType == TypeOK /\ [Next]_vars => TypeOK'
<1> SUFFICES ASSUME TypeOK, [Next]_vars PROVE TypeOK'
  OBVIOUS
<1>1. ASSUME NEW cmd \in Command, Submit(cmd) PROVE TypeOK'
  <2>1. [cmd EXCEPT !.version = NewVersion(store, cmd)] \in Command
    BY StampedCommand, NewVersionType DEF TypeOK
  <2>2. Apply(store, cmd) \in StoreState
    BY ApplyType DEF TypeOK
  <2> QED
    BY <1>1, <2>1, <2>2 DEF Submit, TypeOK
<1>2. ASSUME NEW v \in Droppable, DropVNode(v) PROVE TypeOK'
  BY <1>2, DeleteVNodeDataType, VNodeAssumption DEF DropVNode, TypeOK
<1>3. CASE InstallPlacement
  BY <1>3 DEF InstallPlacement, TypeOK
<1>4. CASE UNCHANGED vars
  BY <1>4 DEF vars, TypeOK
<1> QED
  BY <1>1, <1>2, <1>3, <1>4, StepCases

\* No call of Apply or DeleteVNodeData ever takes the store, the placement
\* flag or the history out of their types.
THEOREM TypeCorrect == Spec => []TypeOK
BY InitType, StepType, PTL DEF Spec

-------------------------------------------------------------------------------
(* The vnode indexes.  With a placement installed from the start every        *)
(* command carries the vnode its key hashes to, and that is what keeps the    *)
(* indexes exact: a command under another vnode would leave the key listed    *)
(* under the old one.                                                         *)

Hashed ==
  /\ placed = TRUE
  /\ \A c \in applied : c.vnode = VNodeOf[c.key]

IndexInv == TypeOK /\ Hashed /\ IndexExact

LEMMA SubmitHashed ==
  ASSUME TypeOK, Hashed, NEW cmd \in Command, cmd.vnode = GetVNodeForKey(cmd.key),
         Submit(cmd)
  PROVE  Hashed' /\ cmd.vnode = VNodeOf[cmd.key]
<1>1. cmd.vnode = VNodeOf[cmd.key]
  BY DEF GetVNodeForKey, Hashed
<1>2. NewVersion(store, cmd) \in Nat
  BY NewVersionType DEF TypeOK
<1>3. Hashed'
  <2> DEFINE c == [cmd EXCEPT !.version = NewVersion(store, cmd)]
  <2>1. c.vnode = VNodeOf[c.key]
    BY <1>1, <1>2, StampedCommand
  <2>2. applied' = applied \cup {c} /\ placed' = placed
    BY DEF Submit
  <2> HIDE DEF c
  <2> QED
    BY <2>1, <2>2 DEF Hashed
<1> QED
  BY <1>1, <1>3

LEMMA SubmitIndex ==
  ASSUME TypeOK, IndexExact, NEW cmd \in Command, cmd.vnode = VNodeOf[cmd.key],
         store' = Apply(store, cmd)
  PROVE  IndexExact'
<1>1. cmd.key \in Key /\ cmd.vnode \in VNode /\ cmd.op \in {"put", "delete"}
  BY DEF Command
<1>2. store \in StoreState
  BY DEF TypeOK
<1>3. CASE Stale(store, cmd)
  BY <1>3 DEF Apply, IndexExact
<1>4. CASE ~Stale(store, cmd) /\ cmd.op = "put"
  <2>1. store' = ApplyPut(store, cmd)
    BY <1>4 DEF Apply
  <2>2. cmd.value # NoValue
    BY SMTT(30), <1>4, ValueAssumption DEF Command
  <2>3. /\ store'.storage = [store.storage EXCEPT ![cmd.key] = cmd.value]
        /\ store'.vNodeIdx = [store.vNodeIdx EXCEPT ![cmd.vnode] = @ \cup {cmd.key}]
        /\ store'.tombstoneIdx = [store.tombstoneIdx EXCEPT ![cmd.vnode] = @ \ {cmd.key}]
        /\ store'.meta = [store.meta EXCEPT ![cmd.key] =
                             [version |-> NewVersion(store, cmd), tombstone |-> FALSE]]
    BY <2>1 DEF ApplyPut
  <2>4. store.meta \in [Key -> KeyMeta]
    BY <1>2 DEF StoreState
  <2>5. \A k \in Key : store'.meta[k].tombstone
                         <=> k # cmd.key /\ store.meta[k].tombstone
    BY <1>1, <2>3, <2>4
  <2> QED
    BY SMTT(30), <2>2, <2>3, <2>5, <1>1, <1>2 DEF IndexExact, StoreState
<1>5. CASE ~Stale(store, cmd) /\ cmd.op = "delete"
  <2>1. store' = ApplyDelete(store, cmd)
    BY SMTT(30), <1>5 DEF Apply
  <2>2. /\ store'.storage = [store.storage EXCEPT ![cmd.key] = NoValue]
        /\ store'.vNodeIdx = [store.vNodeIdx EXCEPT ![cmd.vnode] = @ \ {cmd.key}]
        /\ store'.tombstoneIdx = [store.tombstoneIdx EXCEPT ![cmd.vnode] = @ \cup {cmd.key}]
        /\ store'.meta = [store.meta EXCEPT ![cmd.key] =
                             [version |-> NewVersion(store, cmd), tombstone |-> TRUE]]
    BY <2>1 DEF ApplyDelete
  <2>3. store.meta \in [Key -> KeyMeta]
    BY <1>2 DEF StoreState
  <2>4. \A k \in Key : store'.meta[k].tombstone
                         <=> k = cmd.key \/ store.meta[k].tombstone
    BY <1>1, <2>2, <2>3
  <2> QED
    BY SMTT(30), <2>2, <2>4, <1>1, <1>2 DEF IndexExact, StoreState
<1> QED
  BY <1>1, <1>3, <1>4, <1>5

LEMMA DropIndex ==
  ASSUME TypeOK, IndexExact, NEW v \in VNode, store' = DeleteVNodeData(store, v)
  PROVE  IndexExact'
<1>1. store \in StoreState
  BY DEF TypeOK
<1>2. CASE store.vNodeIdx[v] = {} /\ store.tombstoneIdx[v] = {}
  BY <1>2 DEF DeleteVNodeData, IndexExact
<1>3. CASE ~(store.vNodeIdx[v] = {} /\ store.tombstoneIdx[v] = {})
  <2>1. /\ store'.storage = [k \in Key |-> IF k \in store.vNodeIdx[v] THEN NoValue
                                             ELSE store.storage[k]]
        /\ store'.vNodeIdx = [store.vNodeIdx EXCEPT ![v] = {}]
        /\ store'.tombstoneIdx = [store.tombstoneIdx EXCEPT ![v] = {}]
        /\ \A k \in Key : store'.meta[k].tombstone
             <=> k \notin store.vNodeIdx[v] \cup store.tombstoneIdx[v]
                 /\ store.meta[k].tombstone
    BY <1>1, <1>3 DEF DeleteVNodeData, StoreState
  <2> QED
    BY <2>1, <1>1 DEF IndexExact, StoreState
<1> QED
  BY <1>2, <1>3

LEMMA InitIndex == PlacedAtStart /\ Init => IndexInv
BY InitType DEF Init, IndexInv, Hashed, IndexExact, NewStore

LEMMA StepIndex == IndexInv /\ [Next]_vars => IndexInv'
<1> SUFFICES ASSUME IndexInv, [Next]_vars PROVE IndexInv'
  OBVIOUS
<1>1. TypeOK'
  BY StepType DEF IndexInv
<1>2. ASSUME NEW cmd \in Command, cmd.vnode = GetVNodeForKey(cmd.key), Submit(cmd)
      PROVE  Hashed' /\ IndexExact'
  <2>1. Hashed' /\ cmd.vnode = VNodeOf[cmd.key]
    BY <1>2, SubmitHashed DEF IndexInv
  <2>2. IndexExact'
    BY <1>2, <2>1, SubmitIndex DEF IndexInv, Submit
  <2> QED
    BY <2>1, <2>2
<1>3. ASSUME NEW v \in Droppable, DropVNode(v) PROVE Hashed' /\ IndexExact'
  BY <1>3, DropIndex, VNodeAssumption DEF DropVNode, IndexInv, Hashed
<1>4. CASE InstallPlacement
  <2>1. Hashed'
    BY <1>4 DEF InstallPlacement, IndexInv, Hashed
  <2>2. IndexExact'
    BY <1>4 DEF InstallPlacement, IndexInv, IndexExact
  <2> QED
    BY <1>1, <2>1, <2>2 DEF IndexInv
<1>5. CASE UNCHANGED vars
  <2>1. Hashed'
    BY <1>5 DEF vars, IndexInv, Hashed
  <2>2. IndexExact'
    BY <1>5 DEF vars, IndexInv, IndexExact
  <2> QED
    BY <1>1, <2>1, <2>2 DEF IndexInv
<1> QED
  BY <1>1, <1>2, <1>3, <1>4, <1>5, StepCases DEF IndexInv

\* On a node that has a placement before its first write, what SnapshotVNode,
\* GetKeysForVNode and DeleteVNodeData walk for a vnode is exactly the stored
\* keys and the tombstones that hash to it.
THEOREM IndexCorrect ==
  ASSUME PlacedAtStart PROVE Spec => []IndexExact
<1>1. Init => IndexInv
  BY InitIndex
<1>2. IndexInv => IndexExact
  BY DEF IndexInv
<1> QED
  BY <1>1, <1>2, StepIndex, PTL DEF Spec

-------------------------------------------------------------------------------
(* The gauges *)

Tombstoned(s) == {k \in Key : s.meta[k].tombstone}
WithData(s) == {v \in VNode : s.vNodeIdx[v] # {}}
WithTombstones(s) == {v \in VNode : s.tombstoneIdx[v] # {}}

LEMMA GaugeSetsFinite ==
  ASSUME NEW s
  PROVE  /\ IsFiniteSet(Tombstoned(s)) /\ Cardinality(Tombstoned(s)) \in Nat
         /\ IsFiniteSet(WithData(s)) /\ Cardinality(WithData(s)) \in Nat
         /\ IsFiniteSet(WithTombstones(s)) /\ Cardinality(WithTombstones(s)) \in Nat
<1>1. Tombstoned(s) \in SUBSET Key
  BY DEF Tombstoned
<1>2. WithData(s) \in SUBSET VNode
  BY DEF WithData
<1>3. WithTombstones(s) \in SUBSET VNode
  BY DEF WithTombstones
<1> QED
  BY <1>1, <1>2, <1>3, FiniteAssumption, FS_Subset, FS_CardinalityType

\* A guarded decrement follows the removal of one element.
LEMMA DecRemove ==
  ASSUME NEW S, IsFiniteSet(S), NEW x
  PROVE  /\ Dec(Cardinality(S), 0) = Cardinality(S)
         /\ x \in S => Dec(Cardinality(S), 1) = Cardinality(S \ {x})
<1>1. Cardinality(S) \in Nat /\ Cardinality(S \ {x}) \in Nat
  BY SMTT(30), FS_RemoveElement, FS_CardinalityType
<1>2. x \in S => Cardinality(S \ {x}) = Cardinality(S) - 1
  BY FS_RemoveElement
<1> QED
  BY <1>1, <1>2 DEF Dec

Gauges(s) ==
  /\ s.tombstoneCount = Cardinality(Tombstoned(s))
  /\ s.vnodesWithData = Cardinality(WithData(s))
  /\ s.vnodesWithTombstones = Cardinality(WithTombstones(s))

LEMMA PutGauges ==
  ASSUME NEW s \in StoreState, NEW cmd \in Command, cmd.op = "put", Gauges(s)
  PROVE  Gauges(ApplyPut(s, cmd))
<1> DEFINE t == ApplyPut(s, cmd)
           k == cmd.key
           v == cmd.vnode
<1>1. k \in Key /\ v \in VNode
  BY DEF Command
<1>2. Tombstoned(t) = Tombstoned(s) \ {k}
  BY <1>1 DEF Tombstoned, ApplyPut, StoreState
<1>3. WithData(t) = WithData(s) \cup {v}
  BY <1>1 DEF WithData, ApplyPut, StoreState
<1>4. WithTombstones(t)
        = IF s.tombstoneIdx[v] = {k} THEN WithTombstones(s) \ {v} ELSE WithTombstones(s)
  BY SMTT(30), <1>1 DEF WithTombstones, ApplyPut, StoreState
<1>5. t.tombstoneCount = Cardinality(Tombstoned(t))
  <2>1. s.meta[k].tombstone <=> k \in Tombstoned(s)
    BY <1>1 DEF Tombstoned
  <2>2. t.tombstoneCount
          = s.tombstoneCount - (IF k \in Tombstoned(s) THEN 1 ELSE 0)
    BY <2>1 DEF ApplyPut
  <2>3. IsFiniteSet(Tombstoned(s)) /\ Cardinality(Tombstoned(s)) \in Nat
    BY GaugeSetsFinite
  <2>4. Cardinality(Tombstoned(s) \ {k})
          = IF k \in Tombstoned(s) THEN Cardinality(Tombstoned(s)) - 1 ELSE Cardinality(Tombstoned(s))
    BY Zenon, <2>3, FS_RemoveElement
  <2> HIDE DEF t
  <2> QED
    BY <1>2, <2>2, <2>3, <2>4 DEF Gauges
<1>6. t.vnodesWithData = Cardinality(WithData(t))
  <2>1. v \in WithData(s) <=> s.vNodeIdx[v] # {}
    BY <1>1 DEF WithData
  <2>2. t.vnodesWithData = s.vnodesWithData + (IF v \in WithData(s) THEN 0 ELSE 1)
    BY <2>1 DEF ApplyPut
  <2>3. IsFiniteSet(WithData(s)) /\ Cardinality(WithData(s)) \in Nat
    BY GaugeSetsFinite
  <2>4. Cardinality(WithData(s) \cup {v})
          = IF v \in WithData(s) THEN Cardinality(WithData(s)) ELSE Cardinality(WithData(s)) + 1
    BY Zenon, <2>3, FS_AddElement
  <2> HIDE DEF t
  <2> QED
    BY <1>3, <2>2, <2>3, <2>4 DEF Gauges
<1>7. t.vnodesWithTombstones = Cardinality(WithTombstones(t))
  <2>1. s.tombstoneIdx[v] = {k} => v \in WithTombstones(s)
    BY <1>1 DEF WithTombstones
  <2>2. t.vnodesWithTombstones
          = IF s.tombstoneIdx[v] = {k} THEN Dec(s.vnodesWithTombstones, 1)
            ELSE Dec(s.vnodesWithTombstones, 0)
    BY DEF ApplyPut
  <2>3. IsFiniteSet(WithTombstones(s))
    BY GaugeSetsFinite
  <2>4. /\ Dec(Cardinality(WithTombstones(s)), 0) = Cardinality(WithTombstones(s))
        /\ v \in WithTombstones(s) =>
             Dec(Cardinality(WithTombstones(s)), 1) = Cardinality(WithTombstones(s) \ {v})
    BY <2>3, DecRemove
  <2> HIDE DEF t
  <2> QED
    BY <1>4, <2>1, <2>2, <2>4 DEF Gauges
<1> QED
  BY <1>5, <1>6, <1>7 DEF Gauges

LEMMA DeleteGauges ==
  ASSUME NEW s \in StoreState, NEW cmd \in Command, Gauges(s)
  PROVE  Gauges(ApplyDelete(s, cmd))
<1> DEFINE t == ApplyDelete(s, cmd)
           k == cmd.key
           v == cmd.vnode
<1>1. k \in Key /\ v \in VNode
  BY DEF Command
<1>2. Tombstoned(t) = Tombstoned(s) \cup {k}
  BY <1>1 DEF Tombstoned, ApplyDelete, StoreState
<1>3. WithData(t)
        = IF s.vNodeIdx[v] = {k} THEN WithData(s) \ {v} ELSE WithData(s)
  BY <1>1 DEF WithData, ApplyDelete, StoreState
<1>4. WithTombstones(t) = WithTombstones(s) \cup {v}
  BY <1>1 DEF WithTombstones, ApplyDelete, StoreState
<1>5. t.tombstoneCount = Cardinality(Tombstoned(t))
  <2>1. s.meta[k].tombstone <=> k \in Tombstoned(s)
    BY SMTT(30), <1>1 DEF Tombstoned
  <2>2. t.tombstoneCount
          = s.tombstoneCount + (IF k \in Tombstoned(s) THEN 0 ELSE 1)
    BY <2>1 DEF ApplyDelete
  <2>3. IsFiniteSet(Tombstoned(s)) /\ Cardinality(Tombstoned(s)) \in Nat
    BY GaugeSetsFinite
  <2>4. Cardinality(Tombstoned(s) \cup {k})
          = IF k \in Tombstoned(s) THEN Cardinality(Tombstoned(s)) ELSE Cardinality(Tombstoned(s)) + 1
    BY Zenon, <2>3, FS_AddElement
  <2> HIDE DEF t
  <2> QED
    BY <1>2, <2>2, <2>3, <2>4 DEF Gauges
<1>6. t.vnodesWithData = Cardinality(WithData(t))
  <2>1. s.vNodeIdx[v] = {k} => v \in WithData(s)
    BY <1>1 DEF WithData
  <2>2. t.vnodesWithData
          = IF s.vNodeIdx[v] = {k} THEN Dec(s.vnodesWithData, 1)
            ELSE Dec(s.vnodesWithData, 0)
    BY DEF ApplyDelete
  <2>3. IsFiniteSet(WithData(s))
    BY GaugeSetsFinite
  <2>4. /\ Dec(Cardinality(WithData(s)), 0) = Cardinality(WithData(s))
        /\ v \in WithData(s) =>
             Dec(Cardinality(WithData(s)), 1) = Cardinality(WithData(s) \ {v})
    BY <2>3, DecRemove
  <2> HIDE DEF t
  <2> QED
    BY <1>3, <2>1, <2>2, <2>4 DEF Gauges
<1>7. t.vnodesWithTombstones = Cardinality(WithTombstones(t))
  <2>1. v \in WithTombstones(s) <=> s.tombstoneIdx[v] # {}
    BY <1>1 DEF WithTombstones
  <2>2. t.vnodesWithTombstones
          = s.vnodesWithTombstones + (IF v \in WithTombstones(s) THEN 0 ELSE 1)
    BY <2>1 DEF ApplyDelete
  <2>3. IsFiniteSet(WithTombstones(s)) /\ Cardinality(WithTombstones(s)) \in Nat
    BY GaugeSetsFinite
  <2>4. Cardinality(WithTombstones(s) \cup {v})
          = IF v \in WithTombstones(s) THEN Cardinality(WithTombstones(s)) ELSE Cardinality(WithTombstones(s)) + 1
    BY Zenon, <2>3, FS_AddElement
  <2> HIDE DEF t
  <2> QED
    BY <1>4, <2>2, <2>3, <2>4 DEF Gauges
<1> QED
  BY <1>5, <1>6, <1>7 DEF Gauges

\* The guards "> 0" in DeleteVNodeData never bite on an exact index.
LEMMA DropGauges ==
  ASSUME NEW s \in StoreState, NEW v \in VNode, Gauges(s),
         \A k \in s.vNodeIdx[v] : ~s.meta[k].tombstone,
         \A k \in s.tombstoneIdx[v] : s.meta[k].tombstone
  PROVE  Gauges(DeleteVNodeData(s, v))
<1> DEFINE t == DeleteVNodeData(s, v)
           ts == s.tombstoneIdx[v]
<1>1. CASE s.vNodeIdx[v] = {} /\ ts = {}
  BY <1>1 DEF DeleteVNodeData
<1>2. CASE ~(s.vNodeIdx[v] = {} /\ ts = {})
  <2>1. Tombstoned(t) = Tombstoned(s) \ ts
    BY <1>2 DEF Tombstoned, DeleteVNodeData, StoreState
  <2>2. WithData(t) = WithData(s) \ {v}
    BY <1>2 DEF WithData, DeleteVNodeData, StoreState
  <2>3. WithTombstones(t) = WithTombstones(s) \ {v}
    BY <1>2 DEF WithTombstones, DeleteVNodeData, StoreState
  <2>4. t.tombstoneCount = Cardinality(Tombstoned(t))
    <3>1. ts \subseteq Tombstoned(s)
      BY DEF Tombstoned, StoreState
    <3>2. Tombstoned(s) \cap ts = ts
      BY <3>1
    <3>3. IsFiniteSet(Tombstoned(s)) /\ Cardinality(Tombstoned(s)) \in Nat
      BY GaugeSetsFinite
    <3>4. Cardinality(ts) \in Nat /\ Cardinality(ts) <= Cardinality(Tombstoned(s))
      BY <3>1, <3>3, FS_Subset, FS_CardinalityType
    <3>5. Cardinality(Tombstoned(s) \ ts) = Cardinality(Tombstoned(s)) - Cardinality(ts)
      BY Zenon, <3>2, <3>3, FS_Difference
    <3>6. t.tombstoneCount = Dec(s.tombstoneCount, Cardinality(ts))
      BY <1>2 DEF DeleteVNodeData
    <3> HIDE DEF t, ts
    <3> QED
      BY <2>1, <3>3, <3>4, <3>5, <3>6 DEF Gauges, Dec
  <2>5. t.vnodesWithData = Cardinality(WithData(t))
    <3>1. IsFiniteSet(WithData(s))
      BY GaugeSetsFinite
    <3>2. /\ Dec(Cardinality(WithData(s)), 0) = Cardinality(WithData(s))
          /\ v \in WithData(s) =>
               Dec(Cardinality(WithData(s)), 1) = Cardinality(WithData(s) \ {v})
      BY <3>1, DecRemove
    <3>3. v \in WithData(s) <=> s.vNodeIdx[v] # {}
      BY DEF WithData
    <3>4. t.vnodesWithData = IF v \in WithData(s) THEN Dec(s.vnodesWithData, 1)
                             ELSE Dec(s.vnodesWithData, 0)
      BY <1>2, <3>3 DEF DeleteVNodeData
    <3>5. v \notin WithData(s) => WithData(s) \ {v} = WithData(s)
      OBVIOUS
    <3> HIDE DEF t
    <3> QED
      BY Zenon, <2>2, <3>2, <3>4, <3>5 DEF Gauges
  <2>6. t.vnodesWithTombstones = Cardinality(WithTombstones(t))
    <3>1. IsFiniteSet(WithTombstones(s))
      BY GaugeSetsFinite
    <3>2. /\ Dec(Cardinality(WithTombstones(s)), 0) = Cardinality(WithTombstones(s))
          /\ v \in WithTombstones(s) =>
               Dec(Cardinality(WithTombstones(s)), 1)
                 = Cardinality(WithTombstones(s) \ {v})
      BY <3>1, DecRemove
    <3>3. v \in WithTombstones(s) <=> ts # {}
      BY DEF WithTombstones
    <3>4. t.vnodesWithTombstones
            = IF v \in WithTombstones(s) THEN Dec(s.vnodesWithTombstones, 1)
              ELSE Dec(s.vnodesWithTombstones, 0)
      BY <1>2, <3>3 DEF DeleteVNodeData
    <3>5. v \notin WithTombstones(s) => WithTombstones(s) \ {v} = WithTombstones(s)
      OBVIOUS
    <3> HIDE DEF t
    <3> QED
      BY Zenon, <2>3, <3>2, <3>4, <3>5 DEF Gauges
  <2> QED
    BY <2>4, <2>5, <2>6 DEF Gauges
<1> QED
  BY <1>1, <1>2

CounterInv == IndexInv /\ Gauges(store)

LEMMA StepCounters == CounterInv /\ [Next]_vars => CounterInv'
<1> SUFFICES ASSUME CounterInv, [Next]_vars PROVE Gauges(store')
  BY StepIndex DEF CounterInv
<1>1. TypeOK /\ IndexExact /\ Gauges(store) /\ store \in StoreState
  BY DEF CounterInv, IndexInv, TypeOK
<1>2. ASSUME NEW cmd \in Command, Submit(cmd) PROVE Gauges(store')
  <2>1. store' = Apply(store, cmd) /\ cmd.op \in {"put", "delete"}
    BY <1>2 DEF Submit, Command
  <2> QED
    BY <1>1, <2>1, PutGauges, DeleteGauges DEF Apply
<1>3. ASSUME NEW v \in Droppable, DropVNode(v) PROVE Gauges(store')
  <2>1. v \in VNode
    BY VNodeAssumption
  <2>2. \A k \in store.tombstoneIdx[v] : store.meta[k].tombstone
    BY <1>1, <2>1 DEF IndexExact
  <2>3. \A k \in store.vNodeIdx[v] : ~store.meta[k].tombstone
    BY <1>1, <2>1 DEF IndexExact
  <2> QED
    BY <1>1, <1>3, <2>1, <2>2, <2>3, DropGauges DEF DropVNode
<1>4. CASE InstallPlacement
  BY <1>1, <1>4 DEF InstallPlacement
<1>5. CASE UNCHANGED vars
  BY <1>1, <1>5 DEF vars
<1> QED
  BY <1>1, <1>2, <1>3, <1>4, <1>5, StepCases

\* The gauges kept incrementally by Apply and DeleteVNodeData equal the
\* cardinalities they stand for, on a node that had a placement from the start.
THEOREM CountersCorrect ==
  ASSUME PlacedAtStart PROVE Spec => []CountersExact
<1>1. Init => CounterInv
  <2> SUFFICES ASSUME Init PROVE Gauges(store)
    BY InitIndex DEF CounterInv
  <2>1. /\ Tombstoned(store) = {} /\ WithData(store) = {} /\ WithTombstones(store) = {}
    BY DEF Init, NewStore, Tombstoned, WithData, WithTombstones
  <2> QED
    BY Zenon, <2>1, FS_EmptySet DEF Gauges, Init, NewStore
<1>2. CounterInv => CountersExact
  BY DEF CounterInv, Gauges, CountersExact, Tombstoned, WithData, WithTombstones
<1> QED
  BY <1>1, <1>2, StepCounters, PTL DEF Spec

-------------------------------------------------------------------------------
(* Last writer wins *)

LEMMA ApplyOtherKey ==
  ASSUME NEW s \in StoreState, NEW cmd \in Command, NEW k \in Key, k # cmd.key
  PROVE  Apply(s, cmd).meta[k] = s.meta[k] /\ Apply(s, cmd).storage[k] = s.storage[k]
BY Zenon DEF Apply, ApplyPut, ApplyDelete, StoreState, Command

LEMMA ApplyOwnKey ==
  ASSUME NEW s \in StoreState, NEW cmd \in Command, ~Stale(s, cmd)
  PROVE  /\ Apply(s, cmd).meta[cmd.key].version = NewVersion(s, cmd)
         /\ Holds(Apply(s, cmd), cmd.key, [cmd EXCEPT !.version = NewVersion(s, cmd)])
<1> DEFINE n == NewVersion(s, cmd)
           c == [cmd EXCEPT !.version = n]
           k == cmd.key
<1> SUFFICES Apply(s, cmd).meta[k].version = n /\ Holds(Apply(s, cmd), k, c)
  OBVIOUS
<1>1. k \in Key /\ n \in Nat
  BY NewVersionType DEF Command
<1>2. c.op = cmd.op /\ c.version = n /\ (cmd.op = "put" => c.value = cmd.value)
  BY <1>1, StampedCommand
<1>3. CASE cmd.op = "put"
  <2>1. Apply(s, cmd) = ApplyPut(s, cmd)
    BY <1>3 DEF Apply
  <2>2. ApplyPut(s, cmd).meta[k] = [version |-> n, tombstone |-> FALSE]
    BY <1>1 DEF ApplyPut, StoreState
  <2>3. ApplyPut(s, cmd).storage[k] = cmd.value
    BY <1>1 DEF ApplyPut, StoreState
  <2>4. (c.op = "delete") = FALSE
    BY <1>2, <1>3
  <2>5. Apply(s, cmd).meta[k] = [version |-> c.version, tombstone |-> c.op = "delete"]
    BY <1>2, <2>1, <2>2, <2>4, Zenon
  <2>6. Apply(s, cmd).storage[k] = IF c.op = "put" THEN c.value ELSE NoValue
    BY <1>2, <1>3, <2>1, <2>3
  <2>7. Apply(s, cmd).meta[k].version = n
    <3>1. Apply(s, cmd).meta[k] = [version |-> n, tombstone |-> FALSE]
      BY <2>1, <2>2, Zenon
    <3>2. [version |-> n, tombstone |-> FALSE].version = n
      OBVIOUS
    <3> QED
      BY <3>1, <3>2, Zenon
  <2> HIDE DEF c, n
  <2> QED
    BY <2>5, <2>6, <2>7 DEF Holds
<1>4. CASE cmd.op = "delete"
  <2>1. Apply(s, cmd) = ApplyDelete(s, cmd)
    BY <1>4 DEF Apply
  <2>2. ApplyDelete(s, cmd).meta[k] = [version |-> n, tombstone |-> TRUE]
    BY <1>1 DEF ApplyDelete, StoreState
  <2>3. ApplyDelete(s, cmd).storage[k] = NoValue
    BY <1>1 DEF ApplyDelete, StoreState
  <2>4. (c.op = "delete") = TRUE
    BY <1>2, <1>4
  <2>5. Apply(s, cmd).meta[k] = [version |-> c.version, tombstone |-> c.op = "delete"]
    BY <1>2, <2>1, <2>2, <2>4, Zenon
  <2>6. Apply(s, cmd).storage[k] = IF c.op = "put" THEN c.value ELSE NoValue
    BY <1>2, <1>4, <2>1, <2>3
  <2>7. Apply(s, cmd).meta[k].version = n
    <3>1. Apply(s, cmd).meta[k] = [version |-> n, tombstone |-> TRUE]
      BY <2>1, <2>2, Zenon
    <3>2. [version |-> n, tombstone |-> TRUE].version = n
      OBVIOUS
    <3> QED
      BY <3>1, <3>2, Zenon
  <2> HIDE DEF c, n
  <2> QED
    BY <2>5, <2>6, <2>7 DEF Holds
<1> QED
  BY <1>3, <1>4 DEF Command

\* Applying one more command, in any order and possibly again, keeps a key at
\* what its newest command says.
LEMMA ApplyLastWriter ==
  ASSUME NEW s \in StoreState, NEW A \in SUBSET Command, NEW cmd \in Command,
         NEW k \in Key, LastWriter(s, A, k)
  PROVE  LastWriter(Apply(s, cmd), A \cup {[cmd EXCEPT !.version = NewVersion(s, cmd)]}, k)
<1> DEFINE n == NewVersion(s, cmd)
           c == [cmd EXCEPT !.version = n]
           t == Apply(s, cmd)
           mine == {d \in A : d.key = k}
           mineNow == {d \in A \cup {c} : d.key = k}
<1> SUFFICES LastWriter(t, A \cup {c}, k)
  OBVIOUS
<1>1. n \in Nat /\ cmd.version \in Nat /\ cmd.key \in Key
  BY NewVersionType DEF Command
<1>2. c.key = cmd.key /\ c.version = n
  BY <1>1, StampedCommand
<1>3. \A d \in mine : d.version \in Nat
  BY DEF Command
<1>4. s.meta[k].version \in Nat
  BY DEF StoreState, KeyMeta
<1>5. CASE cmd.key # k
  <2>1. mineNow = mine
    BY Zenon, <1>2, <1>5
  <2>2. t.meta[k] = s.meta[k] /\ t.storage[k] = s.storage[k]
    BY <1>5, ApplyOtherKey
  <2> HIDE DEF c, t, n
  <2> QED
    BY Zenon, <2>1, <2>2 DEF LastWriter, Holds
<1>6. CASE cmd.key = k /\ Stale(s, cmd)
  <2>1. t = s /\ n = cmd.version /\ n < s.meta[k].version
    BY <1>6 DEF Apply, Stale, NewVersion
  <2>2. mine # {}
    BY <2>1, <1>1 DEF LastWriter
  <2>3. PICK w \in mine : Holds(s, k, w) /\ \A d \in mine : d.version <= w.version
    BY <2>2 DEF LastWriter
  <2>4. w.version = s.meta[k].version
    BY <2>3 DEF Holds
  <2>5. mineNow = mine \cup {c} /\ c.version = n
    BY Zenon, <1>2, <1>6
  <2> HIDE DEF c, t, n
  <2>6. \A d \in mineNow : d.version <= w.version
    BY <1>1, <1>3, <1>4, <2>1, <2>3, <2>4, <2>5
  <2>7. w \in mineNow /\ Holds(t, k, w)
    BY <2>1, <2>3, <2>5
  <2> QED
    BY <2>6, <2>7 DEF LastWriter
<1>7. CASE cmd.key = k /\ ~Stale(s, cmd)
  <2>1. Holds(t, k, c)
    BY <1>7, ApplyOwnKey
  <2>2. s.meta[k].version <= n
    BY <1>1, <1>4, <1>7 DEF Stale, NewVersion
  <2>3. \A d \in mine : d.version <= s.meta[k].version
    <3>1. CASE mine = {}
      BY <3>1
    <3>2. CASE \E w \in mine : Holds(s, k, w) /\ \A d \in mine : d.version <= w.version
      <4>1. PICK w \in mine : Holds(s, k, w) /\ \A d \in mine : d.version <= w.version
        BY <3>2
      <4>2. s.meta[k].version = w.version
        BY <4>1 DEF Holds
      <4> QED
        BY <4>1, <4>2
    <3> QED
      BY <3>1, <3>2 DEF LastWriter
  <2>4. mineNow = mine \cup {c} /\ c.version = n
    BY Zenon, <1>2, <1>7
  <2> HIDE DEF c, t, n
  <2>5. \A d \in mineNow : d.version <= c.version
    BY <1>1, <1>3, <1>4, <2>2, <2>3, <2>4
  <2> QED
    BY <2>1, <2>4, <2>5 DEF LastWriter
<1> QED
  BY <1>5, <1>6, <1>7

\* Dropping a vnode forgets exactly its keys.
LEMMA DropLastWriter ==
  ASSUME IndexInv, LastWriterWins, NEW v \in VNode, DropVNode(v)
  PROVE  LastWriterWins'
<1> SUFFICES ASSUME NEW k \in Key PROVE LastWriter(store', applied', k)
  BY DEF LastWriterWins
<1>1. store \in StoreState /\ applied \subseteq Command /\ LastWriter(store, applied, k)
  BY DEF IndexInv, TypeOK, LastWriterWins
<1>2. store' = DeleteVNodeData(store, v) /\ applied' = {c \in applied : c.vnode # v}
  BY DEF DropVNode
<1>3. \A c \in applied : c.vnode = VNodeOf[c.key]
  BY DEF IndexInv, Hashed
<1>4. CASE VNodeOf[k] # v
  <2>1. k \notin store.vNodeIdx[v] /\ k \notin store.tombstoneIdx[v]
    BY <1>4 DEF IndexInv, IndexExact
  <2>2. store'.meta[k] = store.meta[k] /\ store'.storage[k] = store.storage[k]
    BY <1>1, <1>2, <2>1 DEF DeleteVNodeData
  <2>3. {c \in applied' : c.key = k} = {c \in applied : c.key = k}
    BY <1>2, <1>3, <1>4
  <2> QED
    BY <1>1, <2>2, <2>3 DEF LastWriter, Holds
<1>5. CASE VNodeOf[k] = v
  <2>1. {c \in applied' : c.key = k} = {}
    BY <1>2, <1>3, <1>5
  <2>2. CASE k \in store.vNodeIdx[v] \/ k \in store.tombstoneIdx[v]
    <3>1. store'.meta[k] = [version |-> 0, tombstone |-> FALSE]
      BY <1>1, <1>2, <2>2 DEF DeleteVNodeData
    <3>2. store'.storage[k] = NoValue
      <4>1. k \notin store.vNodeIdx[v] => store.storage[k] = NoValue
        BY <1>5 DEF IndexInv, IndexExact
      <4> QED
        BY <1>1, <1>2, <2>2, <4>1 DEF DeleteVNodeData
    <3> QED
      BY <2>1, <3>1, <3>2 DEF LastWriter
  <2>3. CASE ~(k \in store.vNodeIdx[v] \/ k \in store.tombstoneIdx[v])
    <3>1. store.storage[k] = NoValue
      BY <1>5, <2>3 DEF IndexInv, IndexExact
    <3>2. ~store.meta[k].tombstone
      BY <1>5, <2>3 DEF IndexInv, IndexExact
    <3>3. {c \in applied : c.key = k} = {}
      <4> SUFFICES ASSUME NEW c \in applied, Holds(store, k, c) PROVE FALSE
        BY <1>1 DEF LastWriter
      <4>1. CASE c.op = "put"
        BY <1>1, <3>1, <4>1, ValueAssumption DEF Holds, Command
      <4>2. CASE c.op = "delete"
        <5>1. store.meta[k].tombstone = (c.op = "delete")
          BY DEF Holds
        <5> QED
          BY Zenon, <3>2, <4>2, <5>1
      <4> QED
        BY <1>1, <4>1, <4>2 DEF Command
    <3>4. store.meta[k] = [version |-> 0, tombstone |-> FALSE]
      BY <1>1, <3>3 DEF LastWriter
    <3>5. store'.meta[k] = store.meta[k] /\ store'.storage[k] = store.storage[k]
      BY <1>1, <1>2, <2>3 DEF DeleteVNodeData
    <3> QED
      BY <2>1, <3>1, <3>4, <3>5 DEF LastWriter
  <2> QED
    BY <2>2, <2>3
<1> QED
  BY <1>4, <1>5

LEMMA SubmitLastWriter ==
  ASSUME TypeOK, LastWriterWins, NEW cmd \in Command, Submit(cmd)
  PROVE  LastWriterWins'
<1> SUFFICES ASSUME NEW k \in Key PROVE LastWriter(store', applied', k)
  BY DEF LastWriterWins
<1>1. store \in StoreState /\ applied \in SUBSET Command /\ LastWriter(store, applied, k)
  BY DEF TypeOK, LastWriterWins
<1>2. /\ store' = Apply(store, cmd)
      /\ applied' = applied \cup {[cmd EXCEPT !.version = NewVersion(store, cmd)]}
  BY DEF Submit
<1> QED
  BY <1>1, <1>2, ApplyLastWriter

\* The invariant that carries LastWriterWins: while vnodes are dropped it
\* needs the indexes exact, and a node that drops nothing needs no placement.
WriterInv ==
  /\ TypeOK
  /\ LastWriterWins
  /\ PlacedAtStart => IndexInv

LEMMA InitWriter == Init => WriterInv
<1> SUFFICES ASSUME Init PROVE WriterInv
  OBVIOUS
<1>1. TypeOK /\ (PlacedAtStart => IndexInv)
  BY InitType, InitIndex
<1>2. LastWriterWins
  BY DEF Init, NewStore, LastWriterWins, LastWriter
<1> QED
  BY <1>1, <1>2 DEF WriterInv

LEMMA StepWriter ==
  ASSUME PlacedAtStart \/ Droppable = {}
  PROVE  WriterInv /\ [Next]_vars => WriterInv'
<1> SUFFICES ASSUME WriterInv, [Next]_vars PROVE LastWriterWins'
  BY StepType, StepIndex DEF WriterInv
<1>1. TypeOK /\ LastWriterWins
  BY DEF WriterInv
<1>2. ASSUME NEW cmd \in Command, Submit(cmd) PROVE LastWriterWins'
  BY <1>1, <1>2, SubmitLastWriter
<1>3. ASSUME NEW v \in Droppable, DropVNode(v) PROVE LastWriterWins'
  BY <1>1, <1>3, DropLastWriter, VNodeAssumption DEF WriterInv
<1>4. CASE InstallPlacement
  BY <1>1, <1>4 DEF InstallPlacement, LastWriterWins
<1>5. CASE UNCHANGED vars
  BY <1>1, <1>5 DEF vars, LastWriterWins
<1> QED
  BY <1>1, <1>2, <1>3, <1>4, <1>5, StepCases

\* Whatever the order and the repetitions in which replication, transfer and
\* WAL replay call Apply, every key holds what its newest command says.
THEOREM LastWriterCorrect ==
  ASSUME PlacedAtStart \/ Droppable = {} PROVE Spec => []LastWriterWins
<1>1. WriterInv => LastWriterWins
  BY DEF WriterInv
<1> QED
  BY <1>1, InitWriter, StepWriter, PTL DEF Spec

-------------------------------------------------------------------------------
(* Induction on a number, for the two results below about Apply repeated.      *)

LEMMA Least ==
  ASSUME NEW S \in SUBSET Nat, S # {}
  PROVE  \E m \in S : \A k \in S : m <= k
<1> DEFINE less == {ss \in Nat \X Nat : ss[1] < ss[2]}
<1>1. \E m \in S : \A k \in S : ~(<<k, m>> \in OpToRel(<, Nat))
  <2>1. IsWellFoundedOn(OpToRel(<, Nat), Nat)
    BY Zenon, NatLessThanWellFounded
  <2> HIDE DEF OpToRel
  <2> QED
    BY Zenon, <2>1, WFMin
<1>2. OpToRel(<, Nat) = less
  BY Zenon DEF OpToRel
<1>3. PICK m \in S : \A k \in S : ~(<<k, m>> \in less)
  BY <1>1, <1>2, Zenon
<1>4. ASSUME NEW k \in S PROVE ~(k < m)
  <2>1. <<k, m>> \in Nat \X Nat /\ <<k, m>>[1] = k /\ <<k, m>>[2] = m
    OBVIOUS
  <2> QED
    BY <1>3, <2>1, Zenon
<1> QED
  BY <1>4

LEMMA Induction ==
  ASSUME NEW S, 0 \in S, \A n \in Nat : n \in S => n + 1 \in S
  PROVE  Nat \subseteq S
<1> SUFFICES ASSUME Nat \ S # {} PROVE FALSE
  OBVIOUS
<1>1. PICK m \in Nat \ S : \A k \in Nat \ S : m <= k
  BY Zenon, Least
<1>2. m # 0 /\ m - 1 \in Nat /\ m - 1 \in S
  BY <1>1
<1> QED
  BY <1>1, <1>2

-------------------------------------------------------------------------------
(* Replicas *)

\* hist[i] is the store of a node after the first i commands of cmds.
RunOf(hist, cmds) ==
  /\ hist[0] = NewStore
  /\ \A i \in 1 .. Len(cmds) : hist[i] = Apply(hist[i - 1], cmds[i])

Given(cmds, n) == {cmds[i] : i \in 1 .. n}

LEMMA RunLastWriter ==
  ASSUME NEW cmds \in Seq(Command), NEW hist, RunOf(hist, cmds),
         \A i \in 1 .. Len(cmds) : cmds[i].version # 0,
         NEW k \in Key
  PROVE  LastWriter(hist[Len(cmds)], Given(cmds, Len(cmds)), k)
<1> DEFINE Good(n) == hist[n] \in StoreState /\ LastWriter(hist[n], Given(cmds, n), k)
           S == {n \in Nat : n <= Len(cmds) => Good(n)}
<1>1. 0 \in S
  <2>1. hist[0] = NewStore /\ Given(cmds, 0) = {}
    BY DEF RunOf, Given
  <2>2. LastWriter(NewStore, {}, k)
    BY DEF LastWriter, NewStore
  <2> QED
    BY Zenon, <2>1, <2>2, NewStoreType
<1>2. ASSUME NEW n \in Nat, n \in S PROVE n + 1 \in S
  <2> SUFFICES ASSUME n + 1 <= Len(cmds) PROVE Good(n + 1)
    OBVIOUS
  <2> DEFINE s == hist[n]
             cmd == cmds[n + 1]
             stamped == [cmd EXCEPT !.version = NewVersion(s, cmd)]
  <2>1. Len(cmds) \in Nat /\ n + 1 \in 1 .. Len(cmds) /\ n <= Len(cmds)
    OBVIOUS
  <2>2. s \in StoreState /\ LastWriter(s, Given(cmds, n), k)
    BY <1>2, <2>1
  <2>3. cmd \in Command /\ cmd.version # 0
    BY <2>1
  <2>4. hist[n + 1] = Apply(s, cmd)
    BY <2>1 DEF RunOf
  <2>5. Given(cmds, n) \in SUBSET Command /\ Given(cmds, n + 1) = Given(cmds, n) \cup {cmd}
    BY <2>1 DEF Given
  <2>6. stamped = cmd
    <3>1. NewVersion(s, cmd) = cmd.version
      BY <2>3 DEF NewVersion
    <3> QED
      BY <2>3, <3>1 DEF Command
  <2>7. Apply(s, cmd) \in StoreState
    BY <2>2, <2>3, ApplyType
  <2>8. LastWriter(Apply(s, cmd), Given(cmds, n) \cup {stamped}, k)
    <3> HIDE DEF s, cmd
    <3> QED
      BY Zenon, <2>2, <2>3, <2>5, ApplyLastWriter
  <2> HIDE DEF s, cmd, stamped
  <2> QED
    BY Zenon, <2>4, <2>5, <2>6, <2>7, <2>8
<1>3. Nat \subseteq S
  <2> HIDE DEF S
  <2> QED
    BY <1>1, <1>2, Induction
<1> QED
  BY <1>3

\* Two replicas that Apply the same commands to an empty store, each in its own
\* order and with its own repetitions, answer every read alike afterwards, if
\* no two commands for a key share a version and none comes without one.
THEOREM ReplicasConverge ==
  ASSUME NEW here \in Seq(Command), NEW there \in Seq(Command),
         NEW s, NEW t, RunOf(s, here), RunOf(t, there),
         Given(here, Len(here)) = Given(there, Len(there)),
         \A c \in Given(here, Len(here)) : c.version # 0,
         \A c, d \in Given(here, Len(here)) :
           c.key = d.key /\ c.version = d.version => c = d,
         NEW k \in Key
  PROVE  GetWithVersion(s[Len(here)], k) = GetWithVersion(t[Len(there)], k)
<1> DEFINE A == Given(here, Len(here))
           mine == {c \in A : c.key = k}
           u == s[Len(here)]
           v == t[Len(there)]
<1>1. A \in SUBSET Command
  BY DEF Given
<1>2. LastWriter(u, A, k)
  <2>1. \A i \in 1 .. Len(here) : here[i].version # 0
    BY DEF Given
  <2> QED
    BY <2>1, RunLastWriter
<1>3. LastWriter(v, A, k)
  <2>1. \A i \in 1 .. Len(there) : there[i].version # 0
    BY Zenon DEF Given
  <2> QED
    BY <2>1, RunLastWriter
<1>4. \A c, d \in mine : c.version = d.version => c = d
  OBVIOUS
<1> HIDE DEF A, u, v
<1>5. u.meta[k] = v.meta[k] /\ u.storage[k] = v.storage[k]
  <2>1. CASE mine = {}
    BY <1>2, <1>3, <2>1 DEF LastWriter
  <2>2. CASE mine # {}
    <3>1. PICK c \in mine : Holds(u, k, c) /\ \A e \in mine : e.version <= c.version
      BY <1>2, <2>2 DEF LastWriter
    <3>2. PICK d \in mine : Holds(v, k, d) /\ \A e \in mine : e.version <= d.version
      BY <1>3, <2>2 DEF LastWriter
    <3>3. c.version \in Nat /\ d.version \in Nat
      BY <1>1 DEF Command
    <3>4. c.version = d.version
      BY <3>1, <3>2, <3>3
    <3>5. c = d
      BY <1>4, <3>4
    <3> QED
      BY <3>1, <3>2, <3>5 DEF Holds
  <2> QED
    BY <2>1, <2>2
<1> QED
  BY <1>5 DEF GetWithVersion, u, v

-------------------------------------------------------------------------------
(* A snapshot rebuilds its vnode.  The copy is a fold of Apply over a set, so  *)
(* what it holds is proved by induction on the number of commands folded.      *)

\* The fold of Apply over the subsets of a set of commands, as the library
\* defines it: the value at a set is that at the set less a chosen command.
Chosen(U) == CHOOSE cmd \in U : TRUE

FoldOf(g, D) ==
  [U \in D |-> IF U = {} THEN NewStore ELSE Apply(g[U \ {Chosen(U)}], Chosen(U))]

UpTo(C, n) == {U \in SUBSET C : Cardinality(U) <= n}

LEMMA LessChosen ==
  ASSUME NEW C, IsFiniteSet(C), NEW n \in Nat, NEW U \in UpTo(C, n + 1), U # {}
  PROVE  U \ {Chosen(U)} \in UpTo(C, n) /\ Chosen(U) \in U
<1>1. IsFiniteSet(U) /\ Cardinality(U) \in Nat /\ Cardinality(U) <= n + 1 /\ U \in SUBSET C
  BY FS_Subset, FS_CardinalityType DEF UpTo
<1>2. Chosen(U) \in U
  BY DEF Chosen
<1>3. Cardinality(U \ {Chosen(U)}) = Cardinality(U) - 1
  BY Zenon, <1>1, <1>2, FS_RemoveElement
<1> QED
  BY <1>1, <1>2, <1>3 DEF UpTo

LEMMA FoldExists ==
  ASSUME NEW C, IsFiniteSet(C)
  PROVE  \E g : g = FoldOf(g, SUBSET C)
<1> DEFINE S == {n \in Nat : \E g : g = FoldOf(g, UpTo(C, n))}
<1>1. 0 \in S
  <2> DEFINE g == [U \in UpTo(C, 0) |-> NewStore]
  <2>1. \A U \in UpTo(C, 0) : U = {}
    <3>1. \A U \in SUBSET C : IsFiniteSet(U) /\ Cardinality(U) \in Nat
      BY FS_Subset, FS_CardinalityType
    <3> QED
      BY <3>1, FS_EmptySet DEF UpTo
  <2>2. g = FoldOf(g, UpTo(C, 0))
    BY <2>1 DEF FoldOf
  <2> QED
    BY <2>2
<1>2. ASSUME NEW n \in Nat, n \in S PROVE n + 1 \in S
  <2>1. PICK g : g = FoldOf(g, UpTo(C, n))
    BY <1>2
  <2> DEFINE h == [U \in UpTo(C, n + 1) |->
                     IF U = {} THEN NewStore ELSE Apply(g[U \ {Chosen(U)}], Chosen(U))]
  <2>2. UpTo(C, n) \subseteq UpTo(C, n + 1)
    <3>1. \A U \in SUBSET C : Cardinality(U) \in Nat
      BY FS_Subset, FS_CardinalityType
    <3> QED
      BY <3>1 DEF UpTo
  <2>3. \A U \in UpTo(C, n) :
          g[U] = IF U = {} THEN NewStore ELSE Apply(g[U \ {Chosen(U)}], Chosen(U))
    BY Zenon, <2>1 DEF FoldOf
  <2>4. \A U \in UpTo(C, n) : h[U] = g[U]
    BY Zenon, <2>2, <2>3
  <2>5. \A U \in UpTo(C, n + 1) : U # {} => U \ {Chosen(U)} \in UpTo(C, n)
    BY LessChosen
  <2>6. \A U \in UpTo(C, n + 1) : U # {} => h[U \ {Chosen(U)}] = g[U \ {Chosen(U)}]
    BY Zenon, <2>4, <2>5
  <2>7. h = FoldOf(h, UpTo(C, n + 1))
    BY Zenon, <2>6 DEF FoldOf
  <2> HIDE DEF h
  <2> QED
    BY <2>7
<1>3. Cardinality(C) \in Nat /\ Cardinality(C) \in S
  <2> HIDE DEF S
  <2> QED
    BY <1>1, <1>2, Induction, FS_CardinalityType
<1>4. UpTo(C, Cardinality(C)) = SUBSET C
  BY FS_Subset DEF UpTo
<1> QED
  BY Zenon, <1>3, <1>4

\* The store is as the commands of U left it, one command a key.
Rebuilt(s, U) ==
  /\ s \in StoreState
  /\ \A c \in U : Holds(s, c.key, c)
  /\ \A k \in Key : (\A c \in U : c.key # k) =>
       s.storage[k] = NoValue /\ s.meta[k] = [version |-> 0, tombstone |-> FALSE]

LEMMA RebuiltNext ==
  ASSUME NEW s, NEW U \in SUBSET Command, Rebuilt(s, U),
         NEW cmd \in Command, cmd.version # 0, \A c \in U : c.key # cmd.key
  PROVE  Rebuilt(Apply(s, cmd), U \cup {cmd})
<1> DEFINE t == Apply(s, cmd)
           e == [cmd EXCEPT !.version = NewVersion(s, cmd)]
<1>1. s \in StoreState /\ cmd.key \in Key /\ cmd.version \in Nat
  BY DEF Rebuilt, Command
<1>2. s.meta[cmd.key] = [version |-> 0, tombstone |-> FALSE]
  BY <1>1 DEF Rebuilt
<1>3. ~Stale(s, cmd) /\ NewVersion(s, cmd) = cmd.version
  BY <1>1, <1>2 DEF Stale, NewVersion
<1>4. Holds(t, cmd.key, e) /\ e.version = cmd.version /\ e.op = cmd.op
        /\ (cmd.op = "put" => e.value = cmd.value)
  BY <1>1, <1>3, ApplyOwnKey, StampedCommand
<1>5. t \in StoreState
  BY <1>1, ApplyType
<1>6. \A k \in Key \ {cmd.key} : t.meta[k] = s.meta[k] /\ t.storage[k] = s.storage[k]
  BY <1>1, ApplyOtherKey
<1> HIDE DEF t, e
<1>7. Holds(t, cmd.key, cmd)
  BY <1>4 DEF Holds
<1>8. ASSUME NEW c \in U PROVE Holds(t, c.key, c)
  <2>1. c.key \in Key \ {cmd.key} /\ Holds(s, c.key, c)
    BY DEF Rebuilt, Command
  <2> QED
    BY <1>6, <2>1 DEF Holds
<1>9. ASSUME NEW k \in Key, \A c \in U \cup {cmd} : c.key # k
      PROVE  t.storage[k] = NoValue /\ t.meta[k] = [version |-> 0, tombstone |-> FALSE]
  BY <1>6, <1>9 DEF Rebuilt
<1>10. Rebuilt(t, U \cup {cmd})
  BY <1>5, <1>7, <1>8, <1>9 DEF Rebuilt
<1> QED
  BY <1>10 DEF t

\* Whatever order the entries of a snapshot are applied in, the copy holds
\* each of them and nothing else.
LEMMA FoldRebuilds ==
  ASSUME NEW C \in SUBSET Command, IsFiniteSet(C),
         \A c, d \in C : c.key = d.key => c = d,
         \A c \in C : c.version # 0
  PROVE  Rebuilt(FoldSet(LAMBDA cmd, s : Apply(s, cmd), NewStore, C), C)
<1> DEFINE fold == CHOOSE g : g = FoldOf(g, SUBSET C)
<1>1. FoldSet(LAMBDA cmd, s : Apply(s, cmd), NewStore, C) = fold[C]
  BY DEF FoldSet, MapThenFoldSet, FoldOf, Chosen
<1>2. fold = FoldOf(fold, SUBSET C)
  BY FoldExists
<1> HIDE DEF fold
<1>3. \A U \in SUBSET C :
        fold[U] = IF U = {} THEN NewStore ELSE Apply(fold[U \ {Chosen(U)}], Chosen(U))
  BY Zenon, <1>2 DEF FoldOf
<1> DEFINE T == {n \in Nat : \A U \in UpTo(C, n) : Rebuilt(fold[U], U)}
<1>4. Rebuilt(fold[{}], {})
  <2>1. fold[{}] = NewStore
    BY Zenon, <1>3
  <2>2. \A k \in Key : /\ NewStore.storage[k] = NoValue
                       /\ NewStore.meta[k] = [version |-> 0, tombstone |-> FALSE]
    BY DEF NewStore
  <2> QED
    BY <2>1, <2>2, NewStoreType, Zenon DEF Rebuilt
<1>5. 0 \in T
  <2>1. \A U \in SUBSET C : IsFiniteSet(U) /\ Cardinality(U) \in Nat
    BY FS_Subset, FS_CardinalityType
  <2>2. \A U \in UpTo(C, 0) : U = {}
    BY <2>1, FS_EmptySet DEF UpTo
  <2> QED
    BY Zenon, <1>4, <2>2
<1>6. ASSUME NEW n \in Nat, n \in T PROVE n + 1 \in T
  <2> SUFFICES ASSUME NEW U \in UpTo(C, n + 1) PROVE Rebuilt(fold[U], U)
    OBVIOUS
  <2>1. CASE U = {}
    BY <1>4, <2>1
  <2>2. CASE U # {}
    <3> DEFINE c == Chosen(U)
               V == U \ {c}
    <3>1. V \in UpTo(C, n) /\ c \in U /\ U \in SUBSET C
      BY <2>2, LessChosen DEF UpTo
    <3>2. fold[U] = Apply(fold[V], c)
      BY Zenon, <1>3, <2>2, <3>1
    <3>3. Rebuilt(fold[V], V)
      BY <1>6, <3>1
    <3>4. U = V \cup {c} /\ c \in Command /\ c.version # 0 /\ V \in SUBSET Command
      BY <3>1
    <3>5. \A d \in V : d.key # c.key
      BY <3>1
    <3> HIDE DEF c, V
    <3> QED
      BY <3>2, <3>3, <3>4, <3>5, RebuiltNext
  <2> QED
    BY <2>1, <2>2
<1>7. Cardinality(C) \in Nat /\ Cardinality(C) \in T
  <2> HIDE DEF T
  <2> QED
    BY <1>5, <1>6, Induction, FS_CardinalityType
<1>8. C \in UpTo(C, Cardinality(C))
  BY <1>7 DEF UpTo
<1> QED
  BY Zenon, <1>1, <1>7, <1>8

\* What a snapshot relies on besides the indexes: the inner map of a vnode
\* with stored keys has been made, and an entry always carries a version.
Carried ==
  /\ \A v \in VNode : store.vNodeIdx[v] # {} => v \in store.indexed
  /\ \A k \in Key : store.storage[k] # NoValue \/ store.meta[k].tombstone
                      => store.meta[k].version # 0

SnapshotInv == IndexInv /\ Carried

LEMMA InitSnapshot == PlacedAtStart /\ Init => SnapshotInv
<1> SUFFICES ASSUME PlacedAtStart, Init PROVE SnapshotInv
  OBVIOUS
<1>1. /\ \A v \in VNode : NewStore.vNodeIdx[v] = {}
      /\ \A k \in Key : NewStore.storage[k] = NoValue /\ ~NewStore.meta[k].tombstone
  BY DEF NewStore
<1>2. store = NewStore
  BY DEF Init
<1> QED
  BY <1>1, <1>2, InitIndex, Zenon DEF SnapshotInv, Carried

LEMMA SubmitCarried ==
  ASSUME SnapshotInv, NEW cmd \in Command, store' = Apply(store, cmd)
  PROVE  Carried'
<1>1. cmd.key \in Key /\ cmd.vnode \in VNode /\ cmd.op \in {"put", "delete"}
  BY DEF Command
<1>2. store \in StoreState /\ Carried
  BY DEF SnapshotInv, IndexInv, TypeOK
<1>3. CASE Stale(store, cmd)
  BY <1>2, <1>3 DEF Apply, Carried
<1>4. CASE ~Stale(store, cmd)
  <2>1. NewVersion(store, cmd) # 0
    BY <1>1, <1>2, NewVersionType DEF NewVersion, StoreState, KeyMeta
  <2>2. store'.meta[cmd.key].version # 0
    BY Zenon, <1>2, <1>4, <2>1, ApplyOwnKey
  <2>3. ASSUME NEW k \in Key, store'.storage[k] # NoValue \/ store'.meta[k].tombstone
        PROVE  store'.meta[k].version # 0
    <3>1. CASE k = cmd.key
      BY <2>2, <3>1
    <3>2. CASE k # cmd.key
      BY <1>2, <2>3, <3>2, ApplyOtherKey DEF Carried
    <3> QED
      BY <3>1, <3>2
  <2>4. ASSUME NEW v \in VNode, store'.vNodeIdx[v] # {} PROVE v \in store'.indexed
    <3>1. CASE cmd.op = "put"
      <4>1. /\ store'.vNodeIdx = [store.vNodeIdx EXCEPT ![cmd.vnode] = @ \cup {cmd.key}]
            /\ store'.indexed = store.indexed \cup {cmd.vnode}
        BY <1>4, <3>1 DEF Apply, ApplyPut
      <4> QED
        BY SMTT(30), <1>1, <1>2, <2>4, <4>1 DEF Carried, StoreState
    <3>2. CASE cmd.op = "delete"
      <4>1. /\ store'.vNodeIdx = [store.vNodeIdx EXCEPT ![cmd.vnode] = @ \ {cmd.key}]
            /\ store'.indexed = store.indexed
        BY <1>4, <3>2 DEF Apply, ApplyDelete
      <4> QED
        BY SMTT(30), <1>1, <1>2, <2>4, <4>1 DEF Carried, StoreState
    <3> QED
      BY <1>1, <3>1, <3>2
  <2> QED
    BY <2>3, <2>4 DEF Carried
<1> QED
  BY <1>3, <1>4

LEMMA DropCarried ==
  ASSUME SnapshotInv, NEW v \in VNode, store' = DeleteVNodeData(store, v)
  PROVE  Carried'
<1>1. store \in StoreState /\ IndexExact /\ Carried
  BY DEF SnapshotInv, IndexInv, TypeOK
<1> DEFINE idx == store.vNodeIdx[v]
           ts  == store.tombstoneIdx[v]
<1>2. CASE idx = {} /\ ts = {}
  BY <1>1, <1>2 DEF DeleteVNodeData, Carried
<1>3. CASE ~(idx = {} /\ ts = {})
  <2>1. /\ store'.storage = [k \in Key |-> IF k \in idx THEN NoValue ELSE store.storage[k]]
        /\ store'.indexed = store.indexed \ {v}
        /\ store'.vNodeIdx = [store.vNodeIdx EXCEPT ![v] = {}]
        /\ store'.meta = [k \in Key |-> IF k \in idx \cup ts
                                          THEN [version |-> 0, tombstone |-> FALSE]
                                          ELSE store.meta[k]]
    BY <1>3 DEF DeleteVNodeData
  <2>2. \A k \in ts : k \notin idx => store.storage[k] = NoValue
    BY SMTT(30), <1>1 DEF IndexExact, StoreState
  <2>3. ASSUME NEW w \in VNode, store'.vNodeIdx[w] # {} PROVE w \in store'.indexed
    BY <1>1, <2>1, <2>3 DEF Carried, StoreState
  <2>4. ASSUME NEW k \in Key, store'.storage[k] # NoValue \/ store'.meta[k].tombstone
        PROVE  store'.meta[k].version # 0
    <3> HIDE DEF idx, ts
    <3>1. ASSUME k \in idx \cup ts PROVE FALSE
      <4>1. store'.meta[k] = [version |-> 0, tombstone |-> FALSE]
        BY <2>1, <3>1
      <4>2. ~store'.meta[k].tombstone
        BY <4>1
      <4>3. store'.storage[k] = NoValue
        BY <2>1, <2>2, <3>1
      <4> QED
        BY <2>4, <4>2, <4>3
    <3> QED
      BY <1>1, <2>1, <2>4, <3>1 DEF Carried
  <2> QED
    BY SMTT(30), <2>3, <2>4 DEF Carried
<1> QED
  BY <1>2, <1>3

LEMMA StepSnapshot == SnapshotInv /\ [Next]_vars => SnapshotInv'
<1> SUFFICES ASSUME SnapshotInv, [Next]_vars PROVE Carried'
  BY StepIndex DEF SnapshotInv
<1>1. ASSUME NEW cmd \in Command, Submit(cmd) PROVE Carried'
  BY <1>1, SubmitCarried DEF Submit
<1>2. ASSUME NEW v \in Droppable, DropVNode(v) PROVE Carried'
  BY <1>2, DropCarried, VNodeAssumption DEF DropVNode
<1>3. CASE InstallPlacement
  BY <1>3 DEF InstallPlacement, SnapshotInv, Carried
<1>4. CASE UNCHANGED vars
  BY SMTT(30), <1>4 DEF vars, SnapshotInv, Carried
<1> QED
  BY <1>1, <1>2, <1>3, <1>4, StepCases DEF SnapshotInv, IndexInv

\* The entries of a snapshot: the stored keys of the vnode as puts and its
\* tombstones as deletes, one command a key.
Entry(k, v) ==
  IF store.meta[k].tombstone
    THEN [op |-> "delete", key |-> k, vnode |-> v, version |-> store.meta[k].version]
    ELSE [op |-> "put", key |-> k, value |-> store.storage[k], vnode |-> v,
          version |-> store.meta[k].version]

LEMMA EntryFacts ==
  ASSUME SnapshotInv, NEW k \in Key, NEW v \in VNode,
         store.storage[k] # NoValue \/ store.meta[k].tombstone
  PROVE  /\ Entry(k, v) \in Command /\ Entry(k, v).key = k
         /\ Entry(k, v).version # 0 /\ Entry(k, v).version = store.meta[k].version
         /\ store.meta[k].tombstone => Entry(k, v).op = "delete"
         /\ ~store.meta[k].tombstone => /\ Entry(k, v).op = "put"
                                        /\ Entry(k, v).value = store.storage[k]
<1>1. store \in StoreState /\ Carried
  BY DEF SnapshotInv, IndexInv, TypeOK
<1>2. /\ store.meta[k].version \in Nat /\ store.meta[k].version # 0
      /\ store.storage[k] \in Value \cup {NoValue}
  BY SMTT(30), <1>1 DEF Carried, StoreState, KeyMeta
<1>3. CASE store.meta[k].tombstone
  BY SMTT(30), <1>2, <1>3 DEF Entry, Command
<1>4. CASE ~store.meta[k].tombstone
  BY <1>2, <1>4 DEF Entry, Command
<1> QED
  BY <1>3, <1>4

LEMMA SnapshotEntries ==
  ASSUME SnapshotInv, NEW v \in VNode, v \in store.indexed
  PROVE  SnapshotVNode(store, v) =
           {Entry(k, v) : k \in {j \in Key : /\ VNodeOf[j] = v
                                             /\ store.storage[j] # NoValue
                                                  \/ store.meta[j].tombstone}}
<1>1. store \in StoreState /\ IndexExact
  BY DEF SnapshotInv, IndexInv, TypeOK
<1> DEFINE live == {j \in store.vNodeIdx[v] : store.storage[j] # NoValue}
           dead == store.tombstoneIdx[v]
           held == {j \in Key : /\ VNodeOf[j] = v
                                /\ store.storage[j] # NoValue \/ store.meta[j].tombstone}
<1>2. held = live \cup dead
  BY <1>1 DEF IndexExact
<1>3. \A k \in dead : Entry(k, v) = [op |-> "delete", key |-> k, vnode |-> v,
                                     version |-> store.meta[k].version]
  BY <1>1 DEF IndexExact, Entry
<1>4. SnapshotVNode(store, v) = {Entry(k, v) : k \in live} \cup {Entry(k, v) : k \in dead}
  BY Zenon, <1>3 DEF SnapshotVNode, Entry
<1> HIDE DEF live, dead, held
<1>5. SnapshotVNode(store, v) = {Entry(k, v) : k \in held}
  BY <1>2, <1>4
<1> QED
  BY <1>5 DEF held

LEMMA SnapshotRebuilds ==
  ASSUME SnapshotInv, NEW v \in VNode
  PROVE  Rebuilt(FoldSet(LAMBDA cmd, s : Apply(s, cmd), NewStore, SnapshotVNode(store, v)),
                 SnapshotVNode(store, v))
<1> DEFINE C == SnapshotVNode(store, v)
           held == {j \in Key : /\ VNodeOf[j] = v
                                /\ store.storage[j] # NoValue \/ store.meta[j].tombstone}
<1>1. v \notin store.indexed => C = {}
  BY DEF SnapshotVNode
<1>2. v \in store.indexed => C = {Entry(k, v) : k \in held}
  BY SnapshotEntries
<1>3. \A k \in held : /\ Entry(k, v) \in Command /\ Entry(k, v).key = k
                      /\ Entry(k, v).version # 0
  BY EntryFacts
<1> HIDE DEF C, held
<1>4. /\ C \in SUBSET Command
      /\ \A c, d \in C : c.key = d.key => c = d
      /\ \A c \in C : c.version # 0
  BY <1>1, <1>2, <1>3
<1>5. IsFiniteSet(C)
  <2> DEFINE f == [c \in C |-> c.key]
  <2>1. \A c \in C : c.key \in Key
    BY <1>4 DEF Command
  <2>2. f \in Injection(C, Key)
    BY <1>4, <2>1 DEF Injection, IsInjective
  <2> QED
    BY <2>2, FiniteAssumption, FS_Injection
<1>6. Rebuilt(FoldSet(LAMBDA cmd, s : Apply(s, cmd), NewStore, C), C)
  BY Zenon, <1>4, <1>5, FoldRebuilds
<1> QED
  BY Zenon, <1>6 DEF C

LEMMA SnapshotReads == SnapshotInv => SnapshotServesReads
<1> SUFFICES ASSUME SnapshotInv, NEW v \in VNode, NEW k \in Key, VNodeOf[k] = v
             PROVE  GetWithVersion(FoldSet(LAMBDA cmd, s : Apply(s, cmd), NewStore,
                                           SnapshotVNode(store, v)), k)
                      = GetWithVersion(store, k)
  BY Zenon DEF SnapshotServesReads
<1> DEFINE C == SnapshotVNode(store, v)
           copy == FoldSet(LAMBDA cmd, s : Apply(s, cmd), NewStore, C)
<1>1. Rebuilt(copy, C)
  BY Zenon, SnapshotRebuilds
<1>2. store \in StoreState /\ IndexExact /\ Carried
  BY DEF SnapshotInv, IndexInv, TypeOK
<1>3. v \notin store.indexed => C = {}
  BY DEF SnapshotVNode
<1>4. v \in store.indexed =>
        C = {Entry(j, v) : j \in {j \in Key : /\ VNodeOf[j] = v
                                              /\ store.storage[j] # NoValue
                                                   \/ store.meta[j].tombstone}}
  BY SnapshotEntries
<1> SUFFICES GetWithVersion(copy, k) = GetWithVersion(store, k)
  BY Zenon
<1> HIDE DEF C, copy
<1>5. CASE store.storage[k] # NoValue
  <2>1. v \in store.indexed /\ ~store.meta[k].tombstone
    BY <1>2, <1>5 DEF IndexExact, Carried
  <2>2. Entry(k, v) \in C
    BY <1>4, <1>5, <2>1
  <2>3. /\ Entry(k, v).key = k /\ Entry(k, v).op = "put"
        /\ Entry(k, v).value = store.storage[k] /\ Entry(k, v).version = store.meta[k].version
    BY <1>5, <2>1, EntryFacts
  <2>4. Holds(copy, k, Entry(k, v))
    BY <1>1, <2>2, <2>3 DEF Rebuilt
  <2>5. /\ copy.storage[k] = store.storage[k] /\ copy.meta[k].version = store.meta[k].version
        /\ ~copy.meta[k].tombstone
    <3>1. (Entry(k, v).op = "delete") = FALSE
      BY <2>3
    <3>2. copy.meta[k] = [version |-> store.meta[k].version, tombstone |-> FALSE]
      BY <2>3, <2>4, <3>1, Zenon DEF Holds
    <3>3. copy.storage[k] = store.storage[k]
      BY <2>3, <2>4, Zenon DEF Holds
    <3>4. ~copy.meta[k].tombstone /\ copy.meta[k].version = store.meta[k].version
      BY <3>2
    <3> QED
      BY <3>3, <3>4
  <2> QED
    BY <1>5, <2>1, <2>5 DEF GetWithVersion
<1>6. CASE store.storage[k] = NoValue
  <2>1. GetWithVersion(store, k) = NotFound
    BY <1>6 DEF GetWithVersion
  <2>2. ASSUME NEW c \in C, c.key = k PROVE c.op = "delete"
    <3>1. v \in store.indexed
      BY <1>3
    <3>2. PICK j \in Key : /\ store.storage[j] # NoValue \/ store.meta[j].tombstone
                           /\ c = Entry(j, v)
      BY <1>4, <3>1
    <3>3. j = k
      BY <2>2, <3>2, EntryFacts
    <3> QED
      BY <1>6, <3>2, <3>3, EntryFacts
  <2>3. copy.storage[k] = NoValue
    <3>1. CASE \A c \in C : c.key # k
      BY <1>1, <3>1 DEF Rebuilt
    <3>2. CASE \E c \in C : c.key = k
      BY Zenon, <1>1, <2>2, <3>2 DEF Rebuilt, Holds
    <3> QED
      BY <3>1, <3>2
  <2> QED
    BY <2>1, <2>3 DEF GetWithVersion
<1> QED
  BY <1>5, <1>6

\* On a node that has a placement before its first write, applying a vnode's
\* snapshot to an empty store, in whatever order, serves every read of that
\* vnode as the source does.
THEOREM SnapshotCorrect ==
  ASSUME PlacedAtStart PROVE Spec => []SnapshotServesReads
<1>1. Init => SnapshotInv
  BY InitSnapshot
<1> QED
  BY <1>1, SnapshotReads, StepSnapshot, PTL DEF Spec

-------------------------------------------------------------------------------
(* Versions never go back *)

VersionStep ==
  \A k \in Key :
    \/ store'.meta[k].version >= store.meta[k].version
    \/ store'.meta[k].version = 0 /\ store'.storage[k] = NoValue

LEMMA SubmitVersion ==
  ASSUME TypeOK, NEW cmd \in Command, Submit(cmd)
  PROVE  VersionStep
<1> SUFFICES ASSUME NEW k \in Key
             PROVE  store'.meta[k].version >= store.meta[k].version
  BY DEF VersionStep
<1>1. store \in StoreState /\ store' = Apply(store, cmd)
  BY DEF TypeOK, Submit
<1>2. store.meta[k].version \in Nat /\ cmd.version \in Nat /\ cmd.key \in Key
  BY <1>1 DEF StoreState, KeyMeta, Command
<1>3. CASE k # cmd.key
  BY <1>1, <1>2, <1>3, ApplyOtherKey
<1>4. CASE k = cmd.key /\ Stale(store, cmd)
  BY <1>1, <1>2, <1>4 DEF Apply
<1>5. CASE k = cmd.key /\ ~Stale(store, cmd)
  <2>1. store'.meta[k].version = NewVersion(store, cmd)
    BY Zenon, <1>1, <1>5, ApplyOwnKey
  <2> QED
    BY <1>2, <1>5, <2>1 DEF NewVersion, Stale
<1> QED
  BY <1>3, <1>4, <1>5

LEMMA DropVersion ==
  ASSUME IndexInv, NEW v \in VNode, DropVNode(v)
  PROVE  VersionStep
<1> SUFFICES ASSUME NEW k \in Key
             PROVE  \/ store'.meta[k].version >= store.meta[k].version
                    \/ store'.meta[k].version = 0 /\ store'.storage[k] = NoValue
  BY DEF VersionStep
<1>1. store \in StoreState /\ store' = DeleteVNodeData(store, v)
  BY DEF IndexInv, TypeOK, DropVNode
<1>2. store.meta[k].version \in Nat
  BY <1>1 DEF StoreState, KeyMeta
<1>3. CASE k \in store.vNodeIdx[v] \/ k \in store.tombstoneIdx[v]
  <2>1. store'.meta[k].version = 0
    BY <1>1, <1>3 DEF DeleteVNodeData
  <2>2. k \notin store.vNodeIdx[v] => store.storage[k] = NoValue
    BY <1>3 DEF IndexInv, IndexExact
  <2>3. store'.storage[k] = NoValue
    BY <1>1, <1>3, <2>2 DEF DeleteVNodeData
  <2> QED
    BY <2>1, <2>3
<1>4. CASE ~(k \in store.vNodeIdx[v] \/ k \in store.tombstoneIdx[v])
  <2>1. store'.meta[k] = store.meta[k]
    <3>1. CASE store.vNodeIdx[v] = {} /\ store.tombstoneIdx[v] = {}
      BY <1>1, <3>1 DEF DeleteVNodeData
    <3>2. CASE ~(store.vNodeIdx[v] = {} /\ store.tombstoneIdx[v] = {})
      <4>1. store'.meta = [j \in Key |-> IF j \in store.vNodeIdx[v] \cup store.tombstoneIdx[v]
                                            THEN [version |-> 0, tombstone |-> FALSE]
                                            ELSE store.meta[j]]
        BY <1>1, <3>2 DEF DeleteVNodeData
      <4> QED
        BY <1>4, <4>1
    <3> QED
      BY <3>1, <3>2
  <2>2. store'.meta[k].version = store.meta[k].version
    BY <2>1, Zenon
  <2> QED
    BY <1>2, <2>2
<1> QED
  BY <1>3, <1>4

\* Apply never takes a key back to an older version; only the drop of its
\* vnode does, and then the value goes with it.
THEOREM VersionsCorrect ==
  ASSUME PlacedAtStart \/ Droppable = {} PROVE Spec => VersionsAdvance
<1>1. WriterInv /\ [Next]_vars => [VersionStep]_vars
  <2> SUFFICES ASSUME WriterInv, Next PROVE VersionStep \/ UNCHANGED vars
    OBVIOUS
  <2>1. TypeOK
    BY DEF WriterInv
  <2>2. ASSUME NEW cmd \in Command, Submit(cmd) PROVE VersionStep
    BY <2>1, <2>2, SubmitVersion
  <2>3. ASSUME NEW v \in Droppable, DropVNode(v) PROVE VersionStep
    BY <2>3, DropVersion, VNodeAssumption DEF WriterInv
  <2>4. ASSUME InstallPlacement PROVE VersionStep
    BY <2>1, <2>4 DEF InstallPlacement, VersionStep, TypeOK, StoreState, KeyMeta
  <2> QED
    BY <2>1, <2>2, <2>3, <2>4, StepCases
<1> QED
  BY <1>1, InitWriter, StepWriter, PTL DEF Spec, VersionsAdvance, VersionStep
===============================================================================
