------------------------------- MODULE EventLoop -------------------------------
(***************************************************************************)
(* core/loop.go with the request path of core/rpc.go, the transfer applier *)
(* and dropper of cmd/server/main.go, the store and the write-ahead log:   *)
(* one node, from a handler's sendRequest to its response.                 *)
(*                                                                         *)
(* Handlers put requests on the bounded channel reqCh and wait on a        *)
(* response channel of capacity one.  The event loop is the only goroutine *)
(* that applies commands to the store and appends to the WAL.  It answers  *)
(* reads at once; it applies writes in batches, appends the batch to the   *)
(* WAL and leaves the answers to the reaper, or, in the enqueue mode,      *)
(* appends, applies and answers one write at a time.                       *)
(*                                                                         *)
(* A request is its command with the handler that sent it, and stands for  *)
(* the command in the WAL.  Cmd of module Wal is the set of requests.      *)
(***************************************************************************)
EXTENDS StoreOps, Wal, SequencesExt

CONSTANTS Handler,      \* goroutines serving Put and Delete
          Reader,       \* goroutines serving Get
          Applier,      \* goroutines applying transferred or replicated entries
          Dropper,      \* the goroutine that drops a lost vnode
          LostVNode,    \* the vnodes that are lost
          KeyVNode,     \* the vnode of a key
          ReqCap,       \* capacity of reqCh
          BatchSize,    \* EventLoop.BatchSize
          MaxVersion,   \* bound: versions handed out
          MaxEntries,   \* bound: transferred or replicated entries
          MaxDrops      \* bound: vnodes dropped

ASSUME LoopAssumption ==
  /\ ReqCap \in Nat \ {0} /\ BatchSize \in Nat \ {0}
  /\ MaxVersion \in Nat /\ MaxEntries \in Nat /\ MaxDrops \in Nat
  /\ KeyVNode \in [Key -> VNode] /\ LostVNode \subseteq VNode
  /\ Dropper \notin Handler \cup Applier \cup Reader
  /\ Applier \cap (Handler \cup Reader) = {}

VARIABLES
  reqCh,         \* Seq of requests
  call,          \* call[c]: the request c has outstanding, and how it went
  writeBatch,    \* writes taken from reqCh and not yet handed to the reaper;
                 \* on the fast path, the one write in hand
  loop,          \* "select", "append" (in Wal.Append), "ack" (sending to ackCh)
                 \* or "apply" (on the fast path, behind Wal.Append)
  store,
  version,       \* the last version NextVersion returned; it follows the
                 \* clock, which goes on while the node is down
  drop,          \* [pc, vnode, keys]: where the dropper is
  drops, entries,   \* drops and entries so far
  acked          \* history: the writes answered without an error

loopVars == <<reqCh, call, writeBatch, loop, store, version, drop, drops, entries, acked>>
vars == <<walVars, loopVars>>

Caller == Handler \cup Reader \cup Applier \cup {Dropper}
Idle == [stage |-> "idle"]
NoDrop == [pc |-> "idle"]

LoopInit ==
  /\ WalInit
  /\ reqCh = <<>> /\ writeBatch = <<>> /\ loop = "select"
  /\ call = [c \in Caller |-> Idle]
  /\ store = NewStore
  /\ version = 0
  /\ drop = NoDrop /\ drops = 0 /\ entries = 0
  /\ acked = {}

ApplyAll(s, cmds) == FoldLeft(Apply, s, cmds)

-------------------------------------------------------------------------------
(* Requests *)

\* The requests on their way through the node.
InNode == UNION {ToSet(reqCh), ToSet(writeBatch), ToSet(waiter.cmds),
                 UNION {ToSet(ack.cmds) : ack \in ToSet(ackCh)}}

\* A caller stands for one call of sendRequest.  Its name serves for another
\* call once the request of an earlier one that gave up has left the node.
Free(c) ==
  /\ call[c].stage \in {"idle", "ok", "error"}
  /\ \A req \in InNode : req.from # c

Issue(c, req) == call' = [call EXCEPT ![c] = [stage |-> "sending", req |-> req]]

Write(c, op, k, val, ver) ==
  IF op = "put"
    THEN [from |-> c, op |-> op, key |-> k, value |-> val, vnode |-> KeyVNode[k],
          version |-> ver]
    ELSE [from |-> c, op |-> op, key |-> k, vnode |-> KeyVNode[k], version |-> ver]

\* Put and Delete take the next version before they send.
HandlerWrite(c) ==
  /\ up /\ Free(c)
  /\ version < MaxVersion
  /\ version' = version + 1
  /\ \E k \in Key, op \in {"put", "delete"}, val \in Value :
       Issue(c, Write(c, op, k, val, version + 1))
  /\ UNCHANGED <<reqCh, writeBatch, loop, store, drop, drops, entries, acked, walVars>>

HandlerGet(c) ==
  /\ up /\ Free(c)
  /\ \E k \in Key : Issue(c, [from |-> c, op |-> "get", key |-> k])
  /\ UNCHANGED <<reqCh, writeBatch, loop, store, version, drop, drops, entries, acked, walVars>>

\* An entry of another node's snapshot, or a replicated write, has the version
\* it was given there.
ApplierWrite(c) ==
  /\ up /\ Free(c)
  /\ entries < MaxEntries
  /\ entries' = entries + 1
  /\ \E k \in Key, op \in {"put", "delete"}, val \in Value, ver \in 1 .. MaxVersion :
       Issue(c, Write(c, op, k, val, ver))
  /\ UNCHANGED <<reqCh, writeBatch, loop, store, version, drop, drops, acked, walVars>>

SendRequest(c) ==
  /\ up
  /\ call[c].stage = "sending"
  /\ Len(reqCh) < ReqCap
  /\ reqCh' = Append(reqCh, call[c].req)
  /\ call' = [call EXCEPT ![c].stage = "waiting"]
  /\ UNCHANGED <<writeBatch, loop, store, version, drop, drops, entries, acked, walVars>>

\* ctx.Done: the caller gives up; the request, if sent, is still served.
Cancel(c) ==
  /\ call[c].stage \in {"sending", "waiting"}
  /\ call' = [call EXCEPT ![c] = [stage |-> "error"]]
  /\ UNCHANGED <<reqCh, writeBatch, loop, store, version, drop, drops, entries, acked, walVars>>

DropAck(reqs, outcome) == UNCHANGED call  \* mutant: a send that gives up

\* Responses go to a channel of capacity one that only this call reads.
Respond(reqs, outcome) ==
  call' = [c \in Caller |->
             IF call[c].stage = "waiting" /\ call[c].req \in reqs
               THEN [stage |-> outcome] ELSE call[c]]

-------------------------------------------------------------------------------
(* EventLoop.Run *)

LoopGet ==
  /\ up
  /\ loop = "select"
  /\ reqCh # <<>>
  /\ Head(reqCh).op = "get"
  /\ reqCh' = Tail(reqCh)
  /\ Respond({Head(reqCh)},
             IF GetWithVersion(store, Head(reqCh).key).found THEN "ok" ELSE "error")
  /\ UNCHANGED <<writeBatch, loop, store, version, drop, drops, entries, acked, walVars>>

ApplyFirst(batch) ==  \* mutant: only the first command reaches the store
  /\ store' = Apply(store, Head(batch))
  /\ loop' = "append"

\* processBatch up to its call of Wal.Append.
ApplyBatch(batch) ==
  /\ store' = ApplyAll(store, batch)
  /\ loop' = "append"

LoopWrite ==
  /\ up
  /\ loop = "select"
  /\ AckMode # "enqueue"
  /\ reqCh # <<>>
  /\ Head(reqCh).op # "get"
  /\ reqCh' = Tail(reqCh)
  /\ writeBatch' = Append(writeBatch, Head(reqCh))
  /\ IF Len(writeBatch) + 1 >= BatchSize
       THEN ApplyBatch(Append(writeBatch, Head(reqCh)))
       ELSE UNCHANGED <<store, loop>>
  /\ UNCHANGED <<call, version, drop, drops, entries, acked, walVars>>

LoopTick ==
  /\ up
  /\ loop = "select"
  /\ writeBatch # <<>>
  /\ ApplyBatch(writeBatch)
  /\ UNCHANGED <<reqCh, call, writeBatch, version, drop, drops, entries, acked, walVars>>

LoopAppend ==
  /\ up
  /\ loop = "append"
  /\ WalAppend(writeBatch)
  /\ loop' = IF AckMode = "enqueue" THEN "apply" ELSE "ack"
  /\ UNCHANGED <<reqCh, call, writeBatch, store, version, drop, drops, entries, acked>>
  /\ UNCHANGED <<flushedID, err, ackCh, writer, buf, waiter, promised, disk, node>>

AckPrevious ==  \* mutant: waits for the batch before
  /\ up
  /\ loop = "ack"
  /\ QueueAck(nextID - Len(writeBatch), writeBatch)
  /\ writeBatch' = <<>>
  /\ loop' = "select"
  /\ UNCHANGED <<reqCh, call, store, version, drop, drops, entries, acked>>
  /\ UNCHANGED <<nextID, flushedID, err, appendCh, writer, buf, waiter, log,
                 promised, disk, node>>

LoopAck ==
  /\ up
  /\ loop = "ack"
  /\ QueueAck(nextID, writeBatch)
  /\ writeBatch' = <<>>
  /\ loop' = "select"
  /\ UNCHANGED <<reqCh, call, store, version, drop, drops, entries, acked>>
  /\ UNCHANGED <<nextID, flushedID, err, appendCh, writer, buf, waiter, log,
                 promised, disk, node>>

LoopFastApplies ==  \* mutant: applied before it is logged
  /\ up
  /\ loop = "select"
  /\ AckMode = "enqueue"
  /\ reqCh # <<>>
  /\ Head(reqCh).op # "get"
  /\ reqCh' = Tail(reqCh)
  /\ writeBatch' = <<Head(reqCh)>>
  /\ store' = Apply(store, Head(reqCh))
  /\ loop' = "append"
  /\ UNCHANGED <<call, version, drop, drops, entries, acked, walVars>>

\* The fast path, up to its call of Wal.Append.
LoopFast ==
  /\ up
  /\ loop = "select"
  /\ AckMode = "enqueue"
  /\ reqCh # <<>>
  /\ Head(reqCh).op # "get"
  /\ reqCh' = Tail(reqCh)
  /\ writeBatch' = <<Head(reqCh)>>
  /\ loop' = "append"
  /\ UNCHANGED <<call, store, version, drop, drops, entries, acked, walVars>>

\* The rest of the fast path; Apply returns no error.
LoopFastApply ==
  /\ up
  /\ loop = "apply"
  /\ store' = Apply(store, Head(writeBatch))
  /\ Respond({Head(writeBatch)}, "ok")
  /\ acked' = acked \cup {Head(writeBatch)}
  /\ writeBatch' = <<>>
  /\ loop' = "select"
  /\ UNCHANGED <<reqCh, version, drop, drops, entries, walVars>>

LoopStep == LoopGet \/ LoopWrite \/ LoopTick \/ LoopAppend \/ LoopAck \/ LoopFast \/ LoopFastApply

\* The reaper passes the outcome of Wait on to every request of the batch.
ReaperAnswer ==
  /\ ReaperRespond
  /\ Respond(ToSet(waiter.cmds), IF waiter.pc = "ok" THEN "ok" ELSE "error")
  /\ acked' = IF waiter.pc = "ok" THEN acked \cup ToSet(waiter.cmds) ELSE acked
  /\ UNCHANGED <<reqCh, writeBatch, loop, store, version, drop, drops, entries>>

-------------------------------------------------------------------------------
(* The transfer dropper: delete the keys one by one through the event loop,   *)
(* then remove the vnode from the store directly.                             *)

DropStart ==
  /\ up
  /\ drop.pc = "idle"
  /\ drops < MaxDrops
  /\ drops' = drops + 1
  /\ \E v \in LostVNode :
       drop' = [pc |-> "next", vnode |-> v, keys |-> GetKeysForVNode(store, v)]
  /\ UNCHANGED <<reqCh, call, writeBatch, loop, store, version, entries, acked, walVars>>

DropKey ==
  /\ up
  /\ drop.pc = "next"
  /\ version < MaxVersion
  /\ version' = version + 1
  /\ \E k \in drop.keys :
       /\ drop' = [drop EXCEPT !.pc = "wait", !.keys = @ \ {k}]
       /\ Issue(Dropper, [from |-> Dropper, op |-> "delete", key |-> k,
                          vnode |-> drop.vnode, version |-> version + 1])
  /\ UNCHANGED <<reqCh, writeBatch, loop, store, drops, entries, acked, walVars>>

DropAnswered ==
  /\ up
  /\ drop.pc = "wait"
  /\ \/ call[Dropper].stage = "ok" /\ drop' = [drop EXCEPT !.pc = "next"]
     \/ call[Dropper].stage = "error" /\ drop' = NoDrop
  /\ UNCHANGED <<reqCh, call, writeBatch, loop, store, version, drops, entries, acked, walVars>>

DropFinish ==
  /\ up
  /\ drop.pc = "next"
  /\ drop.keys = {}
  /\ store' = DeleteVNodeData(store, drop.vnode)
  /\ drop' = NoDrop
  /\ UNCHANGED <<reqCh, call, writeBatch, loop, version, drops, entries, acked, walVars>>

DropStep == DropStart \/ DropKey \/ DropAnswered \/ DropFinish

-------------------------------------------------------------------------------
(* Crash and restart *)

Down ==
  /\ CrashProcess \/ CrashPower \/ Close
  /\ reqCh' = <<>> /\ writeBatch' = <<>> /\ loop' = "select"
  /\ call' = [c \in Caller |-> Idle]
  /\ drop' = NoDrop
  /\ store' = NewStore
  /\ UNCHANGED <<version, drops, entries, acked>>

\* main replays the whole file into a new store.
Reboot ==
  /\ Restart
  /\ store' = ApplyAll(NewStore, file)
  /\ UNCHANGED <<reqCh, call, writeBatch, loop, version, drop, drops, entries, acked>>

CallStep ==
  \/ \E c \in Handler : HandlerWrite(c)
  \/ \E c \in Reader : HandlerGet(c)
  \/ \E c \in Applier : ApplierWrite(c)
  \/ \E c \in Caller : SendRequest(c) \/ Cancel(c)

LoopNext ==
  \/ CallStep
  \/ LoopStep
  \/ (WriterStep \/ ReaperTake \/ WaitCheck \/ WaitEnlist) /\ UNCHANGED loopVars
  \/ ReaperAnswer
  \/ DropStep
  \/ Down
  \/ Reboot

LoopSpec == LoopInit /\ [][LoopNext]_vars

\* Every goroutine of the node is scheduled when it can run; the ticker ticks.
FairLoopSpec ==
  /\ LoopSpec
  /\ WF_vars(LoopStep)
  /\ WF_vars(WriterStep /\ UNCHANGED loopVars)
  /\ WF_vars(((ReaperTake \/ WaitCheck \/ WaitEnlist) /\ UNCHANGED loopVars)
             \/ ReaperAnswer)
  /\ \A c \in Caller : WF_vars(SendRequest(c))

-------------------------------------------------------------------------------
(* Properties *)

\* What the log gives, with the batch that is applied and waits at Append.
Replayed ==
  ApplyAll(NewStore, log \o (IF loop = "append" /\ AckMode # "enqueue" THEN writeBatch
                                                                     ELSE <<>>))

\* Until a vnode is dropped, replaying what was handed to the WAL, in WAL
\* order, gives the live store to the last index entry and counter: the order
\* of Append is the order of Apply, and a restart starts from the same state
\* machine.  The fast path has logged one write more between its two calls.
ReplayRebuildsStore == up /\ drops = 0 /\ loop # "apply" => store = Replayed

\* A write that was answered without an error is in the store, or has been
\* overtaken by a newer one, now and after any crash the mode protects from.
AckedSurvive ==
  up => \A w \in acked : store.meta[w.key].version >= w.version

\* No read shows a version that is not in the WAL's hands, not between the
\* calls of the fast path and not while vnodes are being dropped: the log is
\* never behind the store.
WalCoversStore ==
  up => \A k \in Key : store.meta[k].version <= Replayed.meta[k].version

\* Every request that reached reqCh is answered, or its caller gave up.
CallsAnswered ==
  \A c \in Caller : (call[c].stage = "waiting") ~> (call[c].stage # "waiting")

\* "Non-blocking Append to WAL" (loop.go): the event loop gets past Append.
AppendReturns == (loop = "append") ~> (loop # "append")
===============================================================================
