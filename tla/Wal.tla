---------------------------------- MODULE Wal ----------------------------------
(***************************************************************************)
(* core/wal.go: the write-ahead log of a node.  Three parties share it.    *)
(*   - The event loop hands batches of commands to Append, which numbers   *)
(*     them (the id of a batch is the number of commands appended up to    *)
(*     and including it) and sends them on the bounded channel appendCh.   *)
(*   - The writer goroutine (writerLoop) encodes them into buf, writes buf *)
(*     to the file when it is full or when the channel is empty, and then  *)
(*     publishes flushedID and broadcasts on the condition variable.       *)
(*   - The reaper goroutine of loop.go takes pending acknowledgements from *)
(*     ackCh in order and calls Wait(id) for each.                         *)
(* The process may crash, the machine may lose power, a write or a sync    *)
(* may fail; on restart ReplayWal reads the file back.                     *)
(*                                                                         *)
(* Commands are opaque here.  Bytes are abstracted to whole records: buf   *)
(* holds at most BufCap of them, and "torn" says that the file ends in a   *)
(* part of a record.                                                       *)
(***************************************************************************)
EXTENDS Integers, Sequences

CONSTANTS Cmd,          \* the commands
          AckMode,      \* "enqueue", "flush" or "fsync"
          AppendCap,    \* capacity of appendCh
          AckCap,       \* capacity of ackCh
          BufCap,       \* records the write buffer holds
          CrashKinds,   \* subset of {"process", "power"}
          DiskFaults,   \* may a write or a sync fail?
          MaxLog,       \* bound: commands in the log
          MaxCrashes    \* bound: number of crashes

ASSUME ModeAssumption == AckMode \in {"enqueue", "flush", "fsync"}

ASSUME CapAssumption == /\ AppendCap \in Nat \ {0}
                        /\ AckCap \in Nat \ {0}
                        /\ BufCap \in Nat \ {0}

ASSUME FaultAssumption == /\ CrashKinds \subseteq {"process", "power"}
                          /\ DiskFaults \in BOOLEAN

ASSUME WalBoundAssumption == MaxLog \in Nat /\ MaxCrashes \in Nat

VARIABLES
  up,          \* the process is running
  nextID, flushedID, err,   \* fields of Wal; err is w.err # nil
  appendCh,    \* Seq of [id, cmds]
  ackCh,       \* Seq of [id, cmds]: acknowledgements that wait for the disk
  writer,      \* [pc, cmds, id]: where writerLoop is, the rest of its batch, its id
  buf,         \* encoded records not yet written
  waiter,      \* [pc, id, cmds]: where the reaper's call of Wait is
  file,        \* the records of the file
  synced,      \* how many of them are on stable storage
  torn,        \* the file ends in a partial record
  base,        \* history: records in the file when this process opened it
  log,         \* history: those records, and every command appended since
  promised,    \* history: the log position up to which Wait returned nil
  crashes

disk == <<file, synced, torn>>
node == <<up, base, crashes>>

walVars == <<nextID, flushedID, err, appendCh, ackCh, writer, buf, waiter,
             log, promised, disk, node>>

Batch == [id : Nat, cmds : Seq(Cmd)]

WriterPC == {"select", "encode", "sync", "publish", "broadcast", "failing", "dead"}
WaiterPC == {"idle", "check", "enlist", "asleep", "ok", "failed"}

WalTypeOK ==
  /\ up \in BOOLEAN /\ err \in BOOLEAN /\ torn \in BOOLEAN
  /\ nextID \in Nat /\ flushedID \in Nat
  /\ appendCh \in Seq(Batch) /\ ackCh \in Seq(Batch)
  /\ writer \in [pc : WriterPC, cmds : Seq(Cmd), id : Nat]
  /\ waiter \in [pc : WaiterPC, cmds : Seq(Cmd), id : Nat]
  /\ buf \in Seq(Cmd) /\ file \in Seq(Cmd) /\ log \in Seq(Cmd)
  /\ synced \in Nat /\ base \in Nat /\ promised \in Nat /\ crashes \in Nat

IdleWriter == [pc |-> "select", cmds |-> <<>>, id |-> 0]
IdleWaiter == [pc |-> "idle", cmds |-> <<>>, id |-> 0]

WalInit ==
  /\ up = TRUE
  /\ nextID = 0 /\ flushedID = 0 /\ err = FALSE
  /\ appendCh = <<>> /\ ackCh = <<>> /\ buf = <<>>
  /\ writer = IdleWriter
  /\ waiter = IdleWaiter
  /\ file = <<>> /\ synced = 0 /\ torn = FALSE
  /\ base = 0 /\ log = <<>> /\ promised = 0 /\ crashes = 0

-------------------------------------------------------------------------------
(* The event loop's side *)

AppendSubtracts(cmds) ==  \* mutant: the id goes the wrong way
  /\ Len(appendCh) < AppendCap
  /\ nextID' = nextID - Len(cmds)
  /\ appendCh' = Append(appendCh, [id |-> nextID - Len(cmds), cmds |-> cmds])
  /\ log' = log \o cmds

WalAppend(cmds) ==
  /\ Len(appendCh) < AppendCap
  /\ nextID' = nextID + Len(cmds)
  /\ appendCh' = Append(appendCh, [id |-> nextID + Len(cmds), cmds |-> cmds])
  /\ log' = log \o cmds

QueueAck(id, cmds) ==
  /\ Len(ackCh) < AckCap
  /\ ackCh' = Append(ackCh, [id |-> id, cmds |-> cmds])

Submit(cmds) ==
  /\ up
  /\ Len(log) + Len(cmds) <= MaxLog
  /\ WalAppend(cmds)
  /\ IF AckMode = "enqueue" THEN UNCHANGED ackCh
     ELSE QueueAck(nextID + Len(cmds), cmds)
  /\ UNCHANGED <<flushedID, err, writer, buf, waiter, promised, disk, node>>

-------------------------------------------------------------------------------
(* writerLoop *)

WriterTake ==
  /\ up
  /\ writer.pc = "select"
  /\ appendCh # <<>>
  /\ writer' = [pc |-> "encode", cmds |-> Head(appendCh).cmds, id |-> Head(appendCh).id]
  /\ appendCh' = Tail(appendCh)
  /\ UNCHANGED <<nextID, flushedID, err, ackCh, buf, waiter, log,
                 promised, disk, node>>

WriterEncode ==
  /\ up
  /\ writer.pc = "encode"
  /\ writer.cmds # <<>>
  /\ Len(buf) < BufCap
  /\ buf' = Append(buf, Head(writer.cmds))
  /\ writer' = [writer EXCEPT !.cmds = Tail(@)]
  /\ UNCHANGED <<nextID, flushedID, err, appendCh, ackCh, waiter, log,
                 promised, disk, node>>

\* The next record does not fit, or the batch is encoded and the channel empty.
FlushDue ==
  /\ writer.pc = "encode"
  /\ IF writer.cmds = <<>> THEN appendCh = <<>> ELSE Len(buf) >= BufCap

\* After a flush the writer goes on with the batch, or publishes its id.
AfterFlush == IF writer.cmds = <<>> THEN "publish" ELSE "encode"

FlushKeepsBuffer ==  \* mutant: pos is not reset
  /\ up
  /\ FlushDue
  /\ file' = file \o buf
  /\ writer' = [writer EXCEPT !.pc = IF writer.cmds = <<>> THEN "publish" ELSE "select"]
  /\ UNCHANGED <<nextID, flushedID, err, appendCh, ackCh, buf, waiter, synced,
                 torn, log, promised, node>>

FlushUnsynced ==     \* mutant: the sync is left out
  /\ up
  /\ FlushDue
  /\ file' = file \o buf
  /\ buf' = <<>>
  /\ writer' = [writer EXCEPT !.pc = AfterFlush]
  /\ UNCHANGED <<nextID, flushedID, err, appendCh, ackCh, waiter, synced,
                 torn, log, promised, node>>

WriterFlush ==
  /\ up
  /\ FlushDue
  /\ file' = file \o buf
  /\ buf' = <<>>
  /\ writer' = [writer EXCEPT !.pc = IF AckMode = "fsync" THEN "sync" ELSE AfterFlush]
  /\ UNCHANGED <<nextID, flushedID, err, appendCh, ackCh, waiter, synced,
                 torn, log, promised, node>>

WriterSync ==
  /\ up
  /\ writer.pc = "sync"
  /\ synced' = Len(file)
  /\ writer' = [writer EXCEPT !.pc = AfterFlush]
  /\ UNCHANGED <<nextID, flushedID, err, appendCh, ackCh, buf, waiter,
                 file, torn, log, promised, node>>

\* More batches wait: keep filling the buffer.
WriterSkip ==
  /\ up
  /\ writer.pc = "encode"
  /\ writer.cmds = <<>>
  /\ appendCh # <<>>
  /\ writer' = [writer EXCEPT !.pc = "select"]
  /\ UNCHANGED <<nextID, flushedID, err, appendCh, ackCh, buf, waiter,
                 log, promised, disk, node>>

PublishNothing ==  \* mutant: flushedID is not stored
  /\ up
  /\ writer.pc = "publish"
  /\ writer' = [writer EXCEPT !.pc = "broadcast"]
  /\ UNCHANGED <<nextID, flushedID, err, appendCh, ackCh, buf, waiter, log, promised,
                 disk, node>>

WriterPublish ==
  /\ up
  /\ writer.pc = "publish"
  /\ flushedID' = writer.id
  /\ writer' = [writer EXCEPT !.pc = "broadcast"]
  /\ UNCHANGED <<nextID, err, appendCh, ackCh, buf, waiter, log, promised,
                 disk, node>>

\* Only a goroutine that is already on the condition's list is woken.
Woken == IF waiter.pc = "asleep" THEN [waiter EXCEPT !.pc = "check"] ELSE waiter

\* The broadcast does not take w.mu.
WriterBroadcast ==
  /\ up
  /\ writer.pc = "broadcast"
  /\ waiter' = Woken
  /\ writer' = [writer EXCEPT !.pc = "select"]
  /\ UNCHANGED <<nextID, flushedID, err, appendCh, ackCh, buf, log,
                 promised, disk, node>>

\* file.Write fails after some of the bytes.
WriteFails ==
  \E n \in 0 .. Len(buf) :
    /\ file' = file \o SubSeq(buf, 1, n)
    /\ torn' \in (IF n < Len(buf) THEN BOOLEAN ELSE {FALSE})

\* A write or a sync fails.
WriterError ==
  /\ up
  /\ DiskFaults
  /\ \/ FlushDue /\ WriteFails
     \/ /\ writer.pc = "sync"
        /\ UNCHANGED <<file, torn>>
  /\ writer' = [writer EXCEPT !.pc = "failing"]
  /\ UNCHANGED <<nextID, flushedID, err, appendCh, ackCh, buf, waiter,
                 synced, log, promised, node>>

FailQuietly ==  \* mutant: nobody is woken
  /\ up
  /\ writer.pc = "failing"
  /\ waiter.pc # "enlist"
  /\ err' = TRUE
  /\ writer' = [writer EXCEPT !.pc = "dead"]
  /\ UNCHANGED <<nextID, flushedID, appendCh, ackCh, waiter, buf, log, promised,
                 disk, node>>

\* fail() takes w.mu, which a reaper between its check and cond.Wait holds.
\* The writer goroutine then returns; nothing reads appendCh any more.
Fail ==
  /\ up
  /\ writer.pc = "failing"
  /\ waiter.pc # "enlist"
  /\ err' = TRUE
  /\ waiter' = Woken
  /\ writer' = [writer EXCEPT !.pc = "dead"]
  /\ UNCHANGED <<nextID, flushedID, appendCh, ackCh, buf, log, promised,
                 disk, node>>

-------------------------------------------------------------------------------
(* Wait, called by the reaper for each entry of ackCh in turn *)

ReaperTake ==
  /\ up
  /\ waiter.pc = "idle"
  /\ ackCh # <<>>
  /\ waiter' = [pc |-> "check", cmds |-> Head(ackCh).cmds, id |-> Head(ackCh).id]
  /\ ackCh' = Tail(ackCh)
  /\ UNCHANGED <<nextID, flushedID, err, appendCh, writer, buf, log,
                 promised, disk, node>>

MustWaitForPrevious == flushedID + 1 < waiter.id /\ ~err  \* mutant: off by one

MustWait == flushedID < waiter.id /\ ~err

\* With w.mu held: look at flushedID and err, and return or prepare to sleep.
WaitCheck ==
  /\ up
  /\ waiter.pc = "check"
  /\ waiter' = [waiter EXCEPT !.pc = IF MustWait THEN "enlist"
                                     ELSE IF err THEN "failed" ELSE "ok"]
  /\ promised' = IF ~MustWait /\ ~err /\ base + waiter.id > promised
                   THEN base + waiter.id ELSE promised
  /\ UNCHANGED <<nextID, flushedID, err, appendCh, ackCh, writer, buf,
                 log, disk, node>>

\* cond.Wait: onto the condition's list, then w.mu is released.
WaitEnlist ==
  /\ up
  /\ waiter.pc = "enlist"
  /\ waiter' = [waiter EXCEPT !.pc = "asleep"]
  /\ UNCHANGED <<nextID, flushedID, err, appendCh, ackCh, writer, buf,
                 log, promised, disk, node>>

\* The reaper answers the requests of the batch and goes back to ackCh.
ReaperRespond ==
  /\ up
  /\ waiter.pc \in {"ok", "failed"}
  /\ waiter' = IdleWaiter
  /\ UNCHANGED <<nextID, flushedID, err, appendCh, ackCh, writer, buf,
                 log, promised, disk, node>>

-------------------------------------------------------------------------------
(* Shutdown, crash, restart *)

\* All that is in memory goes; what is left of the log is the file.
LoseMemory ==
  /\ up' = FALSE
  /\ appendCh' = <<>> /\ ackCh' = <<>> /\ buf' = <<>>
  /\ writer' = IdleWriter /\ waiter' = IdleWaiter
  /\ nextID' = 0 /\ flushedID' = 0 /\ err' = FALSE
  /\ log' = file'
  /\ crashes' = crashes + 1
  /\ UNCHANGED <<base, promised>>

\* The page cache outlives the process.
CrashProcess ==
  /\ up
  /\ "process" \in CrashKinds
  /\ crashes < MaxCrashes
  /\ UNCHANGED disk
  /\ LoseMemory

\* Records that were not synced may be lost, the first of them in the middle.
CrashPower ==
  /\ up
  /\ "power" \in CrashKinds
  /\ crashes < MaxCrashes
  /\ \E n \in synced .. Len(file) :
       /\ file' = SubSeq(file, 1, n)
       /\ torn' \in (IF torn \/ n < Len(file) THEN BOOLEAN ELSE {FALSE})
  /\ LoseMemory
  /\ UNCHANGED synced

\* Close: the writer picks closeCh, writes what it has encoded, syncs and
\* returns; batches still in appendCh are left there, and what the write or
\* the sync returned is not looked at.  main then exits.
Close ==
  /\ up
  /\ crashes < MaxCrashes
  /\ \/ /\ writer.pc = "select"
        /\ \/ file' = file \o buf /\ UNCHANGED torn
           \/ DiskFaults /\ WriteFails
        /\ synced' \in (IF DiskFaults THEN {synced, Len(file')} ELSE {Len(file')})
     \/ writer.pc = "dead" /\ UNCHANGED disk
  /\ LoseMemory

\* ReplayWal accepts a file that ends at a record boundary and returns an
\* error on any other; main panics on the error.
ReplayOK == ~torn

Restart ==
  /\ ~up
  /\ ReplayOK
  /\ up' = TRUE
  /\ base' = Len(file)
  /\ UNCHANGED <<nextID, flushedID, err, appendCh, ackCh, writer, buf,
                 waiter, log, promised, crashes, disk>>

-------------------------------------------------------------------------------
(* The log on its own, with the event loop reduced to its calls *)

WriterStep == \/ WriterTake \/ WriterEncode \/ WriterFlush \/ WriterSync \/ WriterSkip
              \/ WriterPublish \/ WriterBroadcast \/ WriterError \/ Fail

ReaperStep == ReaperTake \/ WaitCheck \/ WaitEnlist \/ ReaperRespond

CrashStep == CrashProcess \/ CrashPower \/ Close \/ Restart

CONSTANT Batches       \* the batches the event loop submits

ASSUME BatchesAssumption == Batches \subseteq Seq(Cmd) \ {<<>>}

WalNext == (\E cmds \in Batches : Submit(cmds)) \/ WriterStep \/ ReaperStep \/ CrashStep

WalSpec == WalInit /\ [][WalNext]_walVars

\* Both goroutines are runnable whenever one of their steps is enabled, and
\* the Go scheduler runs every runnable goroutine.
FairWalSpec == WalSpec /\ WF_walVars(WriterStep) /\ WF_walVars(ReaperStep)

-------------------------------------------------------------------------------
(* Properties *)

\* The file holds the commands in the order they were appended, none
\* missing and none twice, whatever was buffered, flushed early or lost.
FileIsLogPrefix == Len(file) <= Len(log) /\ file = SubSeq(log, 1, Len(file))

\* The part of the file that survives what the mode protects against.
Durable == IF AckMode = "fsync" THEN synced ELSE Len(file)

\* "Wait blocks until the sequence ID is safely durable" (wal.go): when Wait
\* has returned nil for a batch, every command up to that batch is in the
\* file, and on stable storage in the fsync mode, also after later crashes.
WaitMeansDurable == promised <= Durable

\* What the WAL promises to the event loop, as a specification: see DurableLog.
DL == INSTANCE DurableLog WITH durable <- Durable

ImplementsDurableLog == DL!Spec

\* Every appended command is flushed and published in the end, unless the
\* writer fails or the node goes down.
FlushCatchesUp ==
  \A n \in 1 .. MaxLog : (up /\ nextID >= n) ~> (flushedID >= n \/ err \/ ~up)

\* "fail sets a fatal error and wakes up all waiting Reapers" (wal.go): after
\* a disk error no acknowledgement stays unanswered.
DiskErrorAnswersAll ==
  (up /\ err) ~> (~up \/ (ackCh = <<>> /\ waiter.pc = "idle"))

\* "Wait blocks until the sequence ID is safely durable" (wal.go), and no
\* longer: a reaper that sleeps on a flushed batch wakes up.
FlushedWaiterWakes ==
  (up /\ waiter.pc = "asleep" /\ flushedID >= waiter.id)
    ~> (~up \/ waiter.pc # "asleep")

\* "AckAfterFsync // durable" (wal.go): commands whose Wait returned nil can
\* be read back, that is, ReplayWal accepts the file.
PromisedReplayable == promised > 0 => ReplayOK
===============================================================================
