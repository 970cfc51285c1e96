------------------------------- MODULE WritePath -------------------------------
(***************************************************************************)
(* Put and Delete of core/rpc.go with ReplicateToAll and                   *)
(* ApplyPlacementFromRaft of cluster/replication.go: how writes of one key *)
(* reach a quorum of nodes while placements change and data moves.         *)
(*                                                                         *)
(* A call checks that its node owns the key, takes a version from the      *)
(* node's clock, writes locally, and then reads the member list and the    *)
(* placement (again) to find out how many acknowledgements it needs and    *)
(* whom to ask.  Tasks that were handed to the replication workers live on *)
(* when the call has returned.  A node that installs a placement starts a  *)
(* goroutine (a job) that copies the key from other nodes, or drops it.    *)
(*                                                                         *)
(* A node's copy of the key is the newest entry it was given               *)
(* (LastWriterCorrect, module StoreProofs).  A worker reports success for  *)
(* tasks the peer applied and, once a Send has failed on its stream, also  *)
(* for tasks that were lost with it (OkMeansApplied, module BatchWorker).  *)
(* Members are what gossip says when they are read, and placements come    *)
(* from raft with growing epochs.                                          *)
(***************************************************************************)
EXTENDS Integers, Sequences, FiniteSets

CONSTANTS Node,
          PutCall, DeleteCall,   \* client calls, each made once; one in both may be either
          ReplicationFactor,
          Placements,            \* [owner, replicas] of the key that raft may commit
          MemberCounts,          \* how many members gossip may report
          MaxVersion,            \* bound: versions
          MaxEpoch,              \* bound: placements committed
          MaxBroken              \* bound: streams on which a Send fails

Call == PutCall \cup DeleteCall

Placement == [owner : Node, replicas : SUBSET Node]

\* AssignReplicas gives at most ReplicationFactor - 1 replicas, none of them the owner.
ASSUME PlacementAssumption ==
  /\ ReplicationFactor \in Nat \ {0}
  /\ Placements \subseteq Placement
  /\ \A p \in Placements : /\ p.owner \notin p.replicas
                           /\ Cardinality(p.replicas) < ReplicationFactor

ASSUME NodeAssumption == IsFiniteSet(Node) /\ Node # {}

\* The member list always has the node itself in it.
ASSUME MemberAssumption == MemberCounts \subseteq Nat \ {0}

ASSUME PathBoundAssumption == MaxVersion \in Nat /\ MaxEpoch \in Nat /\ MaxBroken \in Nat

VARIABLES
  placements,      \* Seq of committed placements; the index is the epoch
  epoch,           \* epoch[n]: the placement n has installed, 0 for none
  versionCounter,  \* versionCounter[n]: last version NextVersion gave at n
  held,            \* held[n]: what n's store has of the key
  sent,            \* <<c, n>>: command of c on its way to n's event loop
  appliedAt,       \* appliedAt[c]: the nodes whose event loop applied it
  dropped,         \* <<c, n>>: n applied the command of c, and a drop took it away
  broken,          \* <<m, n>>: a Send has failed on the stream of m's worker for n
  jobs,            \* what the goroutines of ApplyPlacementFromRaft have to do
  call             \* call[c]: where the call is

storeVars == <<held, appliedAt, dropped>>
pathVars == <<placements, epoch, versionCounter, storeVars, sent, broken, jobs, call>>

\* An entry of a store: its version, and whose command it was; a transfer
\* dropper's delete is told apart from a client's.
Entry == [version : Nat, by : {"none", "put", "delete", "drop"}]
NoEntry == [version |-> 0, by |-> "none"]

Job == [node : Node, epoch : Nat,
        pc : {"fetch", "copy", "grace", "listed", "delete", "erase"},
        from : SUBSET Node,    \* the candidates that are left
        entry : Entry]         \* what is to be applied

PC == {"idle", "rejected", "local", "quorum", "resolve", "refreshed", "wait", "ok", "error"}

NewCall(n, pc, op) ==
  [pc |-> pc, node |-> n, op |-> op, version |-> 0,
   checked |-> 0, resolved |-> 0,   \* epochs of the ownership check and of the targets
   viewed |-> 0,                    \* members seen
   required |-> 0, acks |-> 0, remaining |-> {}]

PathTypeOK ==
  /\ placements \in Seq(Placements)
  /\ epoch \in [Node -> 0 .. Len(placements)]
  /\ versionCounter \in [Node -> Nat]
  /\ held \in [Node -> Entry]
  /\ sent \subseteq Call \X Node
  /\ appliedAt \in [Call -> SUBSET Node]
  /\ dropped \subseteq Call \X Node
  /\ broken \subseteq Node \X Node
  /\ jobs \subseteq Job
  /\ call \in [Call -> [pc : PC, node : Node, op : {"put", "delete"}, version : Nat,
                        checked : 0 .. Len(placements), resolved : 0 .. Len(placements),
                        viewed : Nat, required : Nat, acks : Nat,
                        remaining : SUBSET Node]]

PathInit ==
  /\ placements = <<>>
  /\ epoch = [n \in Node |-> 0]
  /\ versionCounter = [n \in Node |-> 0]
  /\ held = [n \in Node |-> NoEntry]
  /\ sent = {}
  /\ appliedAt = [c \in Call |-> {}]
  /\ dropped = {} /\ broken = {} /\ jobs = {}
  /\ call = [c \in Call |-> NewCall(CHOOSE n \in Node : TRUE, "idle", "put")]

-------------------------------------------------------------------------------
(* Placements *)

Commit(p) ==
  /\ Len(placements) < MaxEpoch
  /\ placements' = Append(placements, p)
  /\ UNCHANGED <<epoch, versionCounter, storeVars, sent, broken, jobs, call>>

Group(e) == {placements[e].owner} \cup placements[e].replicas

NewJob(n, e, pc, from) ==
  [node |-> n, epoch |-> e, pc |-> pc, from |-> from, entry |-> NoEntry]

InstallAhead(n, e) ==  \* mutant: one epoch too far
  /\ e > epoch[n]
  /\ epoch' = [epoch EXCEPT ![n] = e + 1]
  /\ UNCHANGED <<placements, versionCounter, storeVars, sent, broken, jobs, call>>

Lost(n, old, new) == placements[old].owner = n /\ placements[new].owner # n
Gained(n, old, new) == placements[old].owner # n /\ placements[new].owner = n
Added(n, old, new) ==
  /\ n \notin Group(old) /\ n \in placements[new].replicas

\* What the goroutine started with placement "new" will do about the key.
JobsFor(n, old, new) ==
  CASE Lost(n, old, new)   -> {NewJob(n, new, "grace", {})}
    [] Gained(n, old, new) -> {NewJob(n, new, "fetch", (Group(old) \cup Group(new)) \ {n})}
    [] Added(n, old, new)  -> {NewJob(n, new, "fetch", Group(new) \ {n})}
    [] OTHER               -> {}

\* placementFSM.Apply skips epochs that are not newer, and raft restores a
\* snapshot only to jump ahead.  The first placement starts no migration.
Install(n, e) ==
  /\ e > epoch[n]
  /\ epoch' = [epoch EXCEPT ![n] = e]
  /\ jobs' = jobs \cup (IF epoch[n] = 0 THEN {} ELSE JobsFor(n, epoch[n], e))
  /\ UNCHANGED <<placements, versionCounter, storeVars, sent, broken, call>>

CheckOwnership(n) == epoch[n] # 0 => placements[epoch[n]].owner = n

TargetsWithSelf(n) ==  \* mutant: the node may ask itself
  IF epoch[n] = 0 THEN {} ELSE placements[epoch[n]].replicas

Targets(n) == IF epoch[n] = 0 THEN {} ELSE placements[epoch[n]].replicas \ {n}

-------------------------------------------------------------------------------
(* Stores *)

At(n, applied) == {<<c, n>> : c \in {d \in Call : n \in applied[d]}}

\* The event loop of n applies an entry; "applied" is who has applied what then.
Apply(n, entry, applied) ==
  LET newest == IF entry.version < held[n].version THEN held[n] ELSE entry
  IN /\ held' = [held EXCEPT ![n] = newest]
     /\ appliedAt' = applied
     /\ dropped' = dropped \cup (IF newest.by = "drop" THEN At(n, applied) ELSE {})

ApplyCall(c, n) ==
  Apply(n, [version |-> call[c].version, by |-> call[c].op],
        [appliedAt EXCEPT ![c] = @ \cup {n}])

\* A replicated command, or one whose caller gave up, reaches n's event loop.
Arrive(c, n) ==
  /\ <<c, n>> \in sent
  /\ sent' = sent \ {<<c, n>>}
  /\ ApplyCall(c, n)
  /\ UNCHANGED <<placements, epoch, versionCounter, broken, jobs, call>>

-------------------------------------------------------------------------------
(* The goroutines of ApplyPlacementFromRaft *)

Continue(j, next) == jobs' = (jobs \ {j}) \cup {next}
End(j) == jobs' = jobs \ {j}

\* The next candidate is asked, as long as there is one.
Retry(j) ==
  IF j.from = {} THEN End(j) ELSE Continue(j, [j EXCEPT !.pc = "fetch"])

\* The candidates are asked one after the other, the old owner first; here in
\* any order.  A snapshot may leave a delete marker out, depending on what
\* else the vnode has (TombstonesTransferred, module Store).
Fetch(j) ==
  /\ j.pc = "fetch"
  /\ \E src \in j.from :
       LET asked == [j EXCEPT !.from = @ \ {src}]
       IN \/ /\ held[src].by # "none"
             /\ Continue(j, [asked EXCEPT !.pc = "copy", !.entry = held[src]])
          \/ /\ held[src].by # "put"
             /\ End(j)
          \/ asked.from = {} /\ End(j)
          \/ asked.from # {} /\ Continue(j, asked)
  /\ UNCHANGED <<placements, epoch, versionCounter, storeVars, sent, broken, call>>

\* The entry goes through the event loop with its version; the stream may
\* break before or after.
CopyEntry(j) ==
  /\ j.pc = "copy"
  /\ \/ Apply(j.node, j.entry, appliedAt) /\ End(j)
     \/ Apply(j.node, j.entry, appliedAt) /\ Retry(j)
     \/ UNCHANGED storeVars /\ Retry(j)
  /\ UNCHANGED <<placements, epoch, versionCounter, sent, broken, call>>

\* The grace period is over and the dropper lists the keys.
DropList(j) ==
  /\ j.pc = "grace"
  /\ Continue(j, [j EXCEPT !.pc = IF held[j.node].by = "put" THEN "listed" ELSE "erase"])
  /\ UNCHANGED <<placements, epoch, versionCounter, storeVars, sent, broken, call>>

DropVersion(j) ==
  /\ j.pc = "listed"
  /\ \E v \in versionCounter[j.node] + 1 .. MaxVersion :
       /\ versionCounter' = [versionCounter EXCEPT ![j.node] = v]
       /\ Continue(j, [j EXCEPT !.pc = "delete", !.entry = [version |-> v, by |-> "drop"]])
  /\ UNCHANGED <<placements, epoch, storeVars, sent, broken, call>>

\* The delete goes through the event loop; when it is not answered in time
\* the rest of the drop is given up.
DropDelete(j) ==
  /\ j.pc = "delete"
  /\ \/ Apply(j.node, j.entry, appliedAt) /\ Continue(j, [j EXCEPT !.pc = "erase"])
     \/ Apply(j.node, j.entry, appliedAt) /\ End(j)
     \/ UNCHANGED storeVars /\ End(j)
  /\ UNCHANGED <<placements, epoch, versionCounter, sent, broken, call>>

\* DeleteVNodeData, whatever has arrived since.
DropErase(j) ==
  /\ j.pc = "erase"
  /\ held' = [held EXCEPT ![j.node] = NoEntry]
  /\ dropped' = dropped \cup At(j.node, appliedAt)
  /\ End(j)
  /\ UNCHANGED <<placements, epoch, versionCounter, appliedAt, sent, broken, call>>

JobStep(j) ==
  Fetch(j) \/ CopyEntry(j) \/ DropList(j) \/ DropVersion(j) \/ DropDelete(j) \/ DropErase(j)

-------------------------------------------------------------------------------
(* The handlers *)

\* Clocks differ between nodes: the version is any that is new to this one.
Start(c, n, op) ==
  /\ call[c].pc = "idle"
  /\ \/ /\ CheckOwnership(n)
        /\ \E v \in versionCounter[n] + 1 .. MaxVersion :
             /\ versionCounter' = [versionCounter EXCEPT ![n] = v]
             /\ call' = [call EXCEPT ![c] = [NewCall(n, "local", op) EXCEPT
                                               !.version = v, !.checked = epoch[n]]]
     \/ /\ ~CheckOwnership(n)
        /\ call' = [call EXCEPT ![c] = NewCall(n, "rejected", op)]
        /\ UNCHANGED versionCounter
  /\ UNCHANGED <<placements, epoch, storeVars, sent, broken, jobs>>

Put(c, n) == c \in PutCall /\ Start(c, n, "put")

Delete(c, n) == c \in DeleteCall /\ Start(c, n, "delete")

SetPC(c, pc) == call' = [call EXCEPT ![c].pc = pc]

\* The call returns an error; its tasks need nothing of it but the version.
ReturnError(c) ==
  call' = [call EXCEPT ![c] = [NewCall(call[c].node, "error", call[c].op) EXCEPT
                                 !.version = call[c].version]]

\* sendRequest answers without an error, or the client's context ends first:
\* then the call fails and its command may still come through.
LocalWrite(c) ==
  /\ call[c].pc = "local"
  /\ \/ /\ ApplyCall(c, call[c].node)
        /\ SetPC(c, "quorum")
        /\ UNCHANGED sent
     \/ /\ sent' = sent \cup {<<c, call[c].node>>}
        /\ ReturnError(c)
        /\ UNCHANGED storeVars
  /\ UNCHANGED <<placements, epoch, versionCounter, broken, jobs>>

-------------------------------------------------------------------------------
(* ReplicateToAll *)

EffectiveRF(members) ==
  IF members < ReplicationFactor THEN members ELSE ReplicationFactor

RequiredHalf(members) == EffectiveRF(members) \div 2  \* mutant: half is enough

\* A majority of the replicas that the members at hand can provide.
Required(members) == EffectiveRF(members) \div 2 + 1

\* The local write is the first ack.
Quorum(c) ==
  /\ call[c].pc = "quorum"
  /\ \E members \in MemberCounts :
       call' = [call EXCEPT ![c].viewed = members,
                            ![c].required = Required(members),
                            ![c].acks = 1,
                            ![c].pc = IF 1 >= Required(members) THEN "ok" ELSE "resolve"]
  /\ UNCHANGED <<placements, epoch, versionCounter, storeVars, sent, broken, jobs>>

\* Some tasks may be refused at once; their errors come in like the others'.
SubmitTasks(c, targets) ==
  IF 1 + Cardinality(targets) < call[c].required
    THEN ReturnError(c) /\ UNCHANGED sent
    ELSE /\ call' = [call EXCEPT ![c].pc = "wait", ![c].remaining = targets,
                                ![c].resolved = epoch[call[c].node]]
         /\ \E accepted \in SUBSET targets : sent' = sent \cup ({c} \X accepted)

\* Without targets, a node that leads tries once to have a placement committed
\* (Commit and Install, before it looks again) and any other gives up.  That
\* there are other members is certain here: more than one ack is required.
Resolve(c) ==
  /\ call[c].pc \in {"resolve", "refreshed"}
  /\ LET targets == Targets(call[c].node)
     IN  \/ /\ targets = {}
            /\ ReturnError(c) \/ (call[c].pc = "resolve" /\ SetPC(c, "refreshed"))
            /\ UNCHANGED sent
         \/ targets # {} /\ SubmitTasks(c, targets)
  /\ UNCHANGED <<placements, epoch, versionCounter, storeVars, broken, jobs>>

\* A result came in, and "acks" of them were good.
Take(c, n, acks) ==
  /\ call[c].pc = "wait"
  /\ n \in call[c].remaining
  /\ LET remaining == call[c].remaining \ {n}
     IN  CASE acks >= call[c].required ->
                call' = [call EXCEPT ![c].acks = acks, ![c].remaining = {}, ![c].pc = "ok"]
           [] acks + Cardinality(remaining) < call[c].required ->
                ReturnError(c)
           [] OTHER ->
                call' = [call EXCEPT ![c].acks = acks, ![c].remaining = remaining]
  /\ UNCHANGED <<placements, epoch, versionCounter, storeVars, sent, broken, jobs>>

\* A worker whose Send failed while tasks were in flight gives the next
\* acknowledgement to the oldest of them, which the peer may not have seen.
Misattributed(c, n) == <<c, n>> \in sent /\ <<call[c].node, n>> \in broken

TakeOkSent(c, n) ==  \* mutant: handing the task over counts
  /\ n \in appliedAt[c] \/ <<c, n>> \in sent
  /\ Take(c, n, call[c].acks + 1)

\* The worker's answer is an ok, and the handler counts it.
TakeOk(c, n) ==
  /\ n \in appliedAt[c] \/ Misattributed(c, n)
  /\ Take(c, n, call[c].acks + 1)

\* A refused task, a failed stream, or an error of the peer; the command may
\* have been applied all the same, or be applied later.
TakeError(c, n) == Take(c, n, call[c].acks)

\* A Send fails while tasks of m for n are in flight.
BreakStream(m, n) ==
  /\ Cardinality(broken) < MaxBroken
  /\ \E c \in Call : call[c].node = m /\ n \in call[c].remaining
  /\ broken' = broken \cup {<<m, n>>}
  /\ UNCHANGED <<placements, epoch, versionCounter, storeVars, sent, jobs, call>>

TimeoutAfterResults(c) ==  \* mutant: the context is looked at between results only
  /\ call[c].pc = "wait" /\ call[c].remaining = {}
  /\ ReturnError(c)
  /\ UNCHANGED <<placements, epoch, versionCounter, storeVars, sent, broken, jobs>>

Timeout(c) ==
  /\ call[c].pc = "wait"
  /\ ReturnError(c)
  /\ UNCHANGED <<placements, epoch, versionCounter, storeVars, sent, broken, jobs>>

\* What the handler does by itself once its local write has been answered.
HandlerStep(c) == Quorum(c) \/ Resolve(c) \/ Timeout(c)

CallStep(c) ==
  \/ LocalWrite(c)
  \/ HandlerStep(c)
  \/ \E n \in Node : TakeOk(c, n) \/ TakeError(c, n)

PathNext ==
  \/ \E p \in Placements : Commit(p)
  \/ \E n \in Node, e \in 1 .. Len(placements) : Install(n, e)
  \/ \E c \in Call, n \in Node : Put(c, n) \/ Delete(c, n) \/ Arrive(c, n)
  \/ \E c \in Call : CallStep(c)
  \/ \E j \in jobs : JobStep(j)
  \/ \E m, n \in Node : BreakStream(m, n)

PathSpec == PathInit /\ [][PathNext]_pathVars

\* A handler's goroutine runs and the context of ReplicateToAll expires.
\* Nothing is assumed of the event loop, the workers and the peers.
FairPathSpec == PathSpec /\ \A c \in Call : WF_pathVars(HandlerStep(c))

-------------------------------------------------------------------------------
(* Properties *)

Holders(v) == {n \in Node : held[n].version >= v /\ held[n].by # "drop"}

\* The nodes an acknowledgement of c may have counted in vain: the command
\* went down a stream whose Send failed, or a drop has taken it away since.
InVain(c) == {n \in Node : <<c, n>> \in dropped \/ <<call[c].node, n>> \in broken}

\* What ReplicateToAll counts is real.  A call that returns without an error
\* has its write, or a newer one of a client, on a majority of as many nodes
\* as the member list could provide, up to ReplicationFactor; every node that
\* is missing has dropped it since or is behind a stream that failed.  This
\* is so from the acknowledgement on, for every interleaving of ownership
\* changes, transfers, drops, refused, lost and late tasks.
AckedOnQuorum ==
  \A c \in Call : call[c].pc = "ok" =>
     2 * Cardinality(Holders(call[c].version) \cup InVain(c)) > EffectiveRF(call[c].viewed)

\* Every majority of the placement's nodes has somebody who has the write of c.
OnMajority(c, e) ==
  \A Q \in SUBSET Group(e) :
     2 * Cardinality(Q) > ReplicationFactor =>
       Q \cap (Holders(call[c].version) \cup InVain(c)) # {}

\* When the member list was complete and the placement did not change between
\* the ownership check and the choice of targets, an acknowledged write is
\* on a majority of the placement's nodes, with the same exceptions: a new
\* owner that asks any majority finds it.
AckedOnMajority ==
  \A c \in Call :
     /\ call[c].pc = "ok"
     /\ call[c].checked # 0
     /\ call[c].resolved \in {0, call[c].checked}
     /\ call[c].viewed >= ReplicationFactor
     => OnMajority(c, call[c].checked)

\* A call whose local write was answered returns, whatever becomes of its
\* tasks: the retry for a placement is bounded and the context ends the wait
\* for results that never come.
CallsReturn ==
  \A c \in Call : (call[c].pc \in {"quorum", "resolve", "refreshed", "wait"})
                    ~> (call[c].pc \in {"ok", "error"})
===============================================================================
