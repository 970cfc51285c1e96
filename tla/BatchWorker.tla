------------------------------ MODULE BatchWorker ------------------------------
(***************************************************************************)
(* cluster/replication_batch.go: the goroutine that replicates a node's    *)
(* writes to one peer, with the peer's side of the stream                  *)
(* (ReplicateStream and applyReplicationBatch of core/rpc.go).             *)
(*                                                                         *)
(* submit puts tasks on the bounded channel enqueue.  The worker gathers   *)
(* them in "pending", sends them as a batch over the current stream and    *)
(* keeps the batch in "inFlight" until an acknowledgement comes: acks      *)
(* carry no batch number, so the first ack answers the first batch in      *)
(* flight.  A goroutine per expected ack calls Recv on the stream that is  *)
(* current when it starts, and passes what it gets to recvCh.  It lives on *)
(* when the worker closes that stream.                                     *)
(*                                                                         *)
(* Streams are numbered in the order they are opened.  A stream ends when  *)
(* the worker cancels it, when the connection breaks, or when the peer's   *)
(* handler returns; the worker notices only when it calls Send or Recv.    *)
(***************************************************************************)
EXTENDS Integers, SequencesExt

CONSTANTS Task,         \* replicated writes, each submitted once
          QueueCap,     \* capacity of enqueue
          BatchSize,    \* replicationBatchSize
          PeerErrors,   \* may the peer fail to apply a batch?
          MaxStreams,   \* bound: streams opened
          MaxFaults     \* bound: connections that break

ASSUME WorkerAssumption ==
  /\ QueueCap \in Nat \ {0} /\ BatchSize \in Nat \ {0} /\ MaxStreams \in Nat \ {0}
  /\ MaxFaults \in Nat /\ PeerErrors \in BOOLEAN

VARIABLES
  stage,        \* stage[t]: "new", "accepted" or "refused" by submit
  done,         \* done[t]: what was sent on the task's done channel
  enqueue, pending,       \* Seq of tasks
  inFlight,     \* Seq of batches
  stream,       \* the current stream, 0 for nil
  recvActive,
  stopped,      \* stopCh is closed
  running,      \* the worker's goroutine has not returned
  opened,       \* streams opened so far
  receivers,    \* receivers[s]: goroutines in Recv on stream s
  recvCh,       \* capacity one: "ok", "nack" (ack with an error) or "error"
  wire, acks,   \* per stream: batches the peer has not read, acks not received
  ended,        \* ended[s]: no further batch or ack gets through
  faults,
  applied       \* the tasks whose write the peer's event loop applied

worker == <<enqueue, pending, inFlight, stream, recvActive, stopped, running, recvCh>>
net == <<opened, receivers, wire, acks, ended, faults>>
vars == <<stage, done, worker, net, applied>>

Stream == 1 .. MaxStreams
Ack == {"ok", "nack"}
Answer == {"ok", "error"}

WorkerTypeOK ==
  /\ stage \in [Task -> {"new", "accepted", "refused"}]
  /\ done \in [Task -> Seq(Answer)]
  /\ enqueue \in Seq(Task) /\ Len(enqueue) <= QueueCap
  /\ pending \in Seq(Task) /\ Len(pending) < BatchSize
  /\ inFlight \in Seq(Seq(Task))
  /\ stream \in 0 .. opened
  /\ recvActive \in BOOLEAN /\ stopped \in BOOLEAN /\ running \in BOOLEAN
  /\ opened \in 0 .. MaxStreams
  /\ receivers \in [Stream -> Nat]
  /\ recvCh \in Seq(Ack \cup {"error"}) /\ Len(recvCh) <= 1
  /\ wire \in [Stream -> Seq(Seq(Task))]
  /\ acks \in [Stream -> Seq(Ack)]
  /\ ended \in [Stream -> BOOLEAN]
  /\ faults \in 0 .. MaxFaults
  /\ applied \subseteq Task

WorkerInit ==
  /\ stage = [t \in Task |-> "new"]
  /\ done = [t \in Task |-> <<>>]
  /\ enqueue = <<>> /\ pending = <<>> /\ inFlight = <<>>
  /\ stream = 0 /\ recvActive = FALSE
  /\ stopped = FALSE /\ running = TRUE
  /\ opened = 0
  /\ receivers = [s \in Stream |-> 0]
  /\ recvCh = <<>>
  /\ wire = [s \in Stream |-> <<>>]
  /\ acks = [s \in Stream |-> <<>>]
  /\ ended = [s \in Stream |-> FALSE]
  /\ faults = 0
  /\ applied = {}

-------------------------------------------------------------------------------
(* The callers *)

\* submit; also after stop, when select may still pick the channel.
Accept(t) ==
  /\ stage[t] = "new"
  /\ Len(enqueue) < QueueCap
  /\ stage' = [stage EXCEPT ![t] = "accepted"]
  /\ enqueue' = Append(enqueue, t)
  /\ UNCHANGED <<done, pending, inFlight, stream, recvActive, stopped, running, recvCh,
                 net, applied>>

\* The queue stayed full for 500 ms, or the worker is stopped.
Refuse(t) ==
  /\ stage[t] = "new"
  /\ Len(enqueue) = QueueCap \/ stopped
  /\ stage' = [stage EXCEPT ![t] = "refused"]
  /\ UNCHANGED <<done, worker, net, applied>>

Stop ==
  /\ ~stopped
  /\ stopped' = TRUE
  /\ UNCHANGED <<stage, done, enqueue, pending, inFlight, stream, recvActive, running,
                 recvCh, net, applied>>

-------------------------------------------------------------------------------
(* run *)

\* failTasks
FailTasks(tasks, answer) ==
  done' = [t \in Task |-> IF t \in tasks THEN Append(done[t], answer) ELSE done[t]]

InFlightTasks(batches) == UNION {ToSet(b) : b \in ToSet(batches)}

\* What an ending stream may still deliver: a batch the peer has read, and the
\* acks that have come in.
EndStream(s) ==
  /\ ended' = [ended EXCEPT ![s] = TRUE]
  /\ \E n \in 0 .. Len(wire[s]) : n <= 1 /\ wire' = [wire EXCEPT ![s] = SubSeq(@, 1, n)]
  /\ \E n \in 0 .. Len(acks[s]) : acks' = [acks EXCEPT ![s] = SubSeq(@, 1, n)]

\* closeStream: CloseSend and cancel.
CloseStream ==
  /\ stream' = 0
  /\ recvActive' = FALSE
  /\ IF stream = 0 THEN UNCHANGED <<ended, wire, acks>> ELSE EndStream(stream)

\* startRecv for the stream s, with batches in flight
StartRecv(s, active, batches) ==
  IF s = 0 \/ active \/ batches = <<>>
    THEN UNCHANGED receivers /\ recvActive' = active
    ELSE /\ receivers' = [receivers EXCEPT ![s] = @ + 1]
         /\ recvActive' = TRUE

\* open: recvActive is reset only when a new stream is made.
Opened == IF stream = 0 THEN opened + 1 ELSE stream

\* sendBatch.  Send fails on a stream whose end has been noticed; before that
\* it succeeds and the batch is lost.
SendBatch(batch) ==
  LET s == Opened
  IN /\ s <= MaxStreams
     /\ stream' = s
     /\ opened' = IF stream = 0 THEN s ELSE opened
     /\ wire' = IF ended[s] THEN wire ELSE [wire EXCEPT ![s] = Append(@, batch)]
     /\ inFlight' = Append(inFlight, batch)
     /\ StartRecv(s, stream # 0 /\ recvActive, inFlight')
     /\ UNCHANGED <<ended, acks>>

\* sendBatch returned an error: no stream could be opened, or Send failed.
SendFails(batch) ==
  /\ stream # 0 => ended[stream]
  /\ CloseStream
  /\ UNCHANGED <<inFlight, opened, receivers>>

FlushBatch(batch) ==
  /\ pending' = <<>>
  /\ \/ SendBatch(batch) /\ UNCHANGED done
     \/ SendFails(batch) /\ FailTasks(ToSet(batch), "error")

BatchOverfull(p) == Len(p) > BatchSize  \* mutant: one task too late

BatchFull(p) == Len(p) >= BatchSize

WorkerTake ==
  /\ running
  /\ enqueue # <<>>
  /\ enqueue' = Tail(enqueue)
  /\ LET p == Append(pending, Head(enqueue))
     IN IF BatchFull(p) THEN FlushBatch(p)
        ELSE /\ pending' = p
             /\ UNCHANGED <<done, inFlight, stream, recvActive, opened, receivers, wire,
                            acks, ended>>
  /\ UNCHANGED <<stage, stopped, running, recvCh, faults, applied>>

WorkerTick ==
  /\ running
  /\ pending # <<>>
  /\ FlushBatch(pending)
  /\ UNCHANGED <<stage, enqueue, stopped, running, recvCh, faults, applied>>

\* A result with nothing in flight.
RecvIdle ==
  /\ inFlight = <<>>
  /\ CloseStream
  /\ UNCHANGED <<done, pending, inFlight, receivers>>

ErrorKeepsPending ==  \* mutant: pending is answered and not emptied
  /\ inFlight # <<>>
  /\ Head(recvCh) = "error"
  /\ CloseStream
  /\ FailTasks(InFlightTasks(inFlight) \cup ToSet(pending), "error")
  /\ inFlight' = <<>>
  /\ UNCHANGED <<pending, receivers>>

\* The stream failed: so has everything that is pending or in flight.
RecvError ==
  /\ inFlight # <<>>
  /\ Head(recvCh) = "error"
  /\ CloseStream
  /\ FailTasks(InFlightTasks(inFlight) \cup ToSet(pending), "error")
  /\ pending' = <<>> /\ inFlight' = <<>>
  /\ UNCHANGED receivers

AckNewest ==     \* mutant: the batch sent last is answered
  /\ inFlight # <<>>
  /\ Head(recvCh) # "error"
  /\ FailTasks(ToSet(Last(inFlight)), IF Head(recvCh) = "ok" THEN "ok" ELSE "error")
  /\ inFlight' = Front(inFlight)
  /\ StartRecv(stream, FALSE, Front(inFlight))
  /\ UNCHANGED <<pending, stream, wire, acks, ended>>

AckReadsNoMore ==  \* mutant: no receiver for the batches behind
  /\ inFlight # <<>>
  /\ Head(recvCh) # "error"
  /\ FailTasks(ToSet(Head(inFlight)), IF Head(recvCh) = "ok" THEN "ok" ELSE "error")
  /\ inFlight' = Tail(inFlight)
  /\ recvActive' = FALSE
  /\ UNCHANGED <<pending, stream, receivers, wire, acks, ended>>

\* An ack answers the oldest batch in flight.
RecvAck ==
  /\ inFlight # <<>>
  /\ Head(recvCh) # "error"
  /\ FailTasks(ToSet(Head(inFlight)), IF Head(recvCh) = "ok" THEN "ok" ELSE "error")
  /\ inFlight' = Tail(inFlight)
  /\ StartRecv(stream, FALSE, Tail(inFlight))
  /\ UNCHANGED <<pending, stream, wire, acks, ended>>

WorkerRecv ==
  /\ running
  /\ recvCh # <<>>
  /\ recvCh' = <<>>
  /\ RecvIdle \/ RecvError \/ RecvAck
  /\ UNCHANGED <<stage, enqueue, stopped, running, opened, faults, applied>>

\* What is still in enqueue is left there.
WorkerStop ==
  /\ running /\ stopped
  /\ running' = FALSE
  /\ CloseStream
  /\ FailTasks(InFlightTasks(inFlight) \cup ToSet(pending), "error")
  /\ pending' = <<>> /\ inFlight' = <<>>
  /\ UNCHANGED <<stage, enqueue, stopped, recvCh, opened, receivers, faults, applied>>

WorkerStep == WorkerTake \/ WorkerTick \/ WorkerRecv \/ WorkerStop

-------------------------------------------------------------------------------
(* A goroutine of startRecv: Recv returns the next ack, or an error when the  *)
(* stream has ended and no ack is left; then it sends on recvCh.              *)

Receive(s) ==
  /\ receivers[s] > 0
  /\ recvCh = <<>>
  /\ \/ /\ acks[s] # <<>>
        /\ recvCh' = <<Head(acks[s])>>
        /\ acks' = [acks EXCEPT ![s] = Tail(@)]
     \/ /\ acks[s] = <<>> /\ ended[s]
        /\ recvCh' = <<"error">>
        /\ UNCHANGED acks
  /\ receivers' = [receivers EXCEPT ![s] = @ - 1]
  /\ UNCHANGED <<stage, done, enqueue, pending, inFlight, stream, recvActive, stopped,
                 running, opened, wire, ended, faults, applied>>

-------------------------------------------------------------------------------
(* The peer and the connection *)

\* The handler has put the batch on its event loop and every write was answered.
PeerApply(s) ==
  /\ wire[s] # <<>>
  /\ applied' = applied \cup ToSet(Head(wire[s]))
  /\ wire' = [wire EXCEPT ![s] = IF ended[s] THEN <<>> ELSE Tail(@)]
  /\ acks' = IF ended[s] THEN acks ELSE [acks EXCEPT ![s] = Append(@, "ok")]
  /\ UNCHANGED <<stage, done, worker, opened, receivers, ended, faults>>

\* A write was answered with an error, or the stream's context ended while
\* writes were being queued: some of the batch is applied, and the handler
\* returns after a last ack.
PeerFails(s) ==
  /\ wire[s] # <<>>
  /\ PeerErrors \/ ended[s]
  /\ \E n \in 0 .. Len(Head(wire[s])) :
       applied' = applied \cup ToSet(SubSeq(Head(wire[s]), 1, n))
  /\ wire' = [wire EXCEPT ![s] = <<>>]
  /\ acks' = IF ended[s] THEN acks ELSE [acks EXCEPT ![s] = Append(@, "nack")]
  /\ ended' = [ended EXCEPT ![s] = TRUE]
  /\ UNCHANGED <<stage, done, worker, opened, receivers, faults>>

BreakStream(s) ==
  /\ s <= opened /\ ~ended[s]
  /\ faults < MaxFaults
  /\ faults' = faults + 1
  /\ EndStream(s)
  /\ UNCHANGED <<stage, done, worker, opened, receivers, applied>>

CallerStep == Stop \/ \E t \in Task : Accept(t) \/ Refuse(t)

PeerStep == \E s \in Stream : PeerApply(s) \/ PeerFails(s)

ReceiveStep == \E s \in Stream : Receive(s)

WorkerNext ==
  \/ CallerStep
  \/ WorkerStep
  \/ ReceiveStep
  \/ PeerStep
  \/ \E s \in Stream : BreakStream(s)

WorkerSpec == WorkerInit /\ [][WorkerNext]_vars

\* The worker and its receivers are runnable goroutines, the ticker ticks, and
\* a peer that is up reads its stream and answers.
FairWorkerSpec ==
  /\ WorkerSpec
  /\ WF_vars(WorkerStep)
  /\ \A s \in Stream : WF_vars(Receive(s)) /\ WF_vars(PeerApply(s) \/ PeerFails(s))

-------------------------------------------------------------------------------
(* Properties *)

Occurrences(t, batches) == Cardinality({i \in DOMAIN batches : Contains(batches[i], t)})

\* An accepted task is in exactly one place: the channel, the pending batch, a
\* batch in flight, or answered; and it is answered once, which matters
\* because done has room for one value and the worker would block on a second.
TasksConserved ==
  \A t \in Task :
    Cardinality({i \in DOMAIN enqueue : enqueue[i] = t})
      + Cardinality({i \in DOMAIN pending : pending[i] = t})
      + Occurrences(t, inFlight) + Len(done[t])
    = IF stage[t] = "accepted" THEN 1 ELSE 0

\* A task answered without an error is applied at the peer: ReplicateToAll
\* counts it towards the write quorum ("Keeps RF=3 and quorum semantics",
\* docker/compose/README.md).
OkMeansApplied == \A t \in Task : "ok" \in ToSet(done[t]) => t \in applied

\* No stream was cancelled, broken or ended by the peer so far.
Intact == \A s \in Stream : ~ended[s]

\* The same as long as the first stream holds, whatever the timing of flushes,
\* receivers and the peer: acks, which carry no number, are counted right.
OkMeansAppliedIntact == Intact => OkMeansApplied

\* As long as the stream holds, every accepted task is answered, unless the
\* worker is stopped: no batch in flight is left without a receiver.
TasksAnswered ==
  \A t \in Task : (stage[t] = "accepted") ~> (done[t] # <<>> \/ stopped \/ ~Intact)
===============================================================================
