------------------------------- MODULE WalProofs -------------------------------
(***************************************************************************)
(* Theorems about module Wal, for every set of commands, every channel and *)
(* buffer capacity and any number of crashes and disk faults.              *)
(*                                                                         *)
(* The inductive invariant accounts for every appended command: up to the  *)
(* writer's position the log is the file, then the buffer, then the rest   *)
(* of the writer's batch; after it come the batches of appendCh, one after *)
(* the other, and the last of them ends where nextID points.               *)
(***************************************************************************)
EXTENDS Wal, SequenceTheorems, TLAPS

Healthy == writer.pc \notin {"failing", "dead"}

\* The rest of the writer's batch and the id it ends at; the same for batch i
\* of the channel.
Rest == writer.cmds
At == writer.id
End(i) == appendCh[i].id
BatchLen(i) == Len(appendCh[i].cmds)
Item(i, j) == appendCh[i].cmds[j]

\* Where the pieces of the log lie: up to the writer's position,
WriterPos ==
  /\ Len(file) + Len(buf) + Len(Rest) = base + At
  /\ At <= nextID

\* and from there on, each batch of the channel right behind the one before.
QueuePos ==
  /\ \A i \in 1 .. Len(appendCh) :
       /\ End(i) <= nextID
       /\ End(i) = (IF i = 1 THEN At ELSE End(i - 1)) + BatchLen(i)
  /\ nextID = IF Len(appendCh) = 0 THEN At ELSE End(Len(appendCh))

Positions ==
  /\ Len(file) <= Len(log)
  /\ up => Len(log) = base + nextID
  /\ up /\ Healthy => WriterPos /\ QueuePos

\* What the pieces are.
WriterPart ==
  /\ \A j \in 1 .. Len(buf) : buf[j] = log[Len(file) + j]
  /\ \A j \in 1 .. Len(Rest) : Rest[j] = log[Len(file) + Len(buf) + j]

QueuePart ==
  \A i \in 1 .. Len(appendCh) : \A j \in 1 .. BatchLen(i) :
    Item(i, j) = log[base + End(i) - BatchLen(i) + j]

Contents ==
  /\ \A j \in 1 .. Len(file) : file[j] = log[j]
  /\ up /\ Healthy => WriterPart /\ QueuePart

\* What the writer's position says of its batch and its buffer.
WriterAt ==
  /\ writer.pc \in {"select", "publish", "broadcast"} => writer.cmds = <<>>
  /\ writer.pc \in {"sync", "publish"} => buf = <<>>
  /\ writer.pc = "publish" => Durable = Len(file)

\* What is published and what is promised.
Published ==
  /\ synced <= Len(file)
  /\ up /\ flushedID > 0 => base + flushedID <= Durable
  /\ \A i \in 1 .. Len(ackCh) : ackCh[i].id > 0
  /\ waiter.pc # "idle" => waiter.id > 0
  /\ promised <= Durable

\* Nothing of the process is left when it is down.
Gone ==
  ~up => /\ log = file /\ appendCh = <<>> /\ ackCh = <<>> /\ buf = <<>>
         /\ writer = IdleWriter /\ waiter = IdleWaiter
         /\ nextID = 0 /\ flushedID = 0

LogInv == WalTypeOK /\ Positions /\ Contents /\ WriterAt /\ Gone

-------------------------------------------------------------------------------
(* Sequences: what the channels, the buffer and the file do. *)

LEMMA EmptyFacts == ASSUME NEW S PROVE <<>> \in Seq(S) /\ Len(<<>>) = 0
OBVIOUS

LEMMA JoinFacts ==
  ASSUME NEW S, NEW s \in Seq(S), NEW t \in Seq(S)
  PROVE  /\ s \o t \in Seq(S)
         /\ Len(s \o t) = Len(s) + Len(t)
         /\ \A i \in 1 .. Len(s) : (s \o t)[i] = s[i]
         /\ \A i \in 1 .. Len(t) : (s \o t)[Len(s) + i] = t[i]
BY ConcatProperties

LEMMA PushFacts ==
  ASSUME NEW S, NEW s \in Seq(S), NEW x \in S
  PROVE  /\ Append(s, x) \in Seq(S)
         /\ Append(s, x) # <<>>
         /\ Len(Append(s, x)) = Len(s) + 1
         /\ \A i \in 1 .. Len(s) : Append(s, x)[i] = s[i]
         /\ Append(s, x)[Len(s) + 1] = x
BY AppendProperties

LEMMA PopFacts ==
  ASSUME NEW S, NEW s \in Seq(S), s # <<>>
  PROVE  /\ Head(s) \in S /\ Head(s) = s[1]
         /\ Len(s) \in Nat \ {0}
         /\ Tail(s) \in Seq(S)
         /\ Len(Tail(s)) = Len(s) - 1
         /\ \A i \in 1 .. Len(s) - 1 : Tail(s)[i] = s[i + 1]
BY HeadTailProperties, EmptySeq

LEMMA CutFacts ==
  ASSUME NEW S, NEW s \in Seq(S), NEW n \in 0 .. Len(s)
  PROVE  /\ SubSeq(s, 1, n) \in Seq(S)
         /\ Len(SubSeq(s, 1, n)) = n
         /\ \A i \in 1 .. n : SubSeq(s, 1, n)[i] = s[i]
BY SubSeqProperties

-------------------------------------------------------------------------------
(* Type correctness *)

LEMMA InitType == WalInit => WalTypeOK
<1> SUFFICES ASSUME WalInit PROVE WalTypeOK
  OBVIOUS
<1>1. <<>> \in Seq(Cmd) /\ <<>> \in Seq(Batch)
  BY EmptyFacts
<1>2. writer \in [pc : WriterPC, cmds : Seq(Cmd), id : Nat]
  BY <1>1 DEF WalInit, IdleWriter, WriterPC
<1>3. waiter \in [pc : WaiterPC, cmds : Seq(Cmd), id : Nat]
  BY <1>1 DEF WalInit, IdleWaiter, WaiterPC
<1> QED
  BY Zenon, <1>1, <1>2, <1>3 DEF WalInit, WalTypeOK

LEMMA SubmitType ==
  ASSUME WalTypeOK, NEW cmds \in Batches, Submit(cmds)
  PROVE  WalTypeOK'
<1>1. cmds \in Seq(Cmd) /\ Len(cmds) \in Nat
  BY BatchesAssumption
<1>2. [id |-> nextID + Len(cmds), cmds |-> cmds] \in Batch
  BY <1>1 DEF Batch, WalTypeOK
<1>3. log' \in Seq(Cmd) /\ nextID' \in Nat
  BY <1>1 DEF Submit, WalAppend, WalTypeOK
<1>4. appendCh' \in Seq(Batch) /\ ackCh' \in Seq(Batch)
  <2> DEFINE b == [id |-> nextID + Len(cmds), cmds |-> cmds]
  <2>1. appendCh' = Append(appendCh, b)
    BY DEF Submit, WalAppend
  <2>2. ackCh' = ackCh \/ ackCh' = Append(ackCh, b)
    BY DEF Submit, QueueAck
  <2>3. appendCh \in Seq(Batch) /\ ackCh \in Seq(Batch)
    BY DEF WalTypeOK
  <2> HIDE DEF b
  <2> QED
    BY Zenon, <1>2, <2>1, <2>2, <2>3, PushFacts DEF b
<1> QED
  BY <1>3, <1>4 DEF Submit, WalTypeOK, disk, node

LEMMA WriterType ==
  ASSUME WalTypeOK, WriterStep
  PROVE  WalTypeOK'
<1>1. CASE WriterTake
  <2>1. Head(appendCh) \in Batch /\ Tail(appendCh) \in Seq(Batch)
    BY <1>1 DEF WriterTake, WalTypeOK
  <2> QED
    BY <1>1, <2>1 DEF WriterTake, WalTypeOK, Batch, WriterPC, disk, node
<1>2. CASE WriterEncode
  <2>1. Head(writer.cmds) \in Cmd /\ Tail(writer.cmds) \in Seq(Cmd)
    BY <1>2, PopFacts DEF WriterEncode, WalTypeOK
  <2>2. buf' \in Seq(Cmd)
    BY <1>2, <2>1, PushFacts DEF WriterEncode, WalTypeOK
  <2> QED
    BY Zenon, <1>2, <2>1, <2>2 DEF WriterEncode, WalTypeOK, disk, node
<1>3. CASE WriterFlush
  <2>1. file' \in Seq(Cmd) /\ buf' \in Seq(Cmd)
    BY <1>3, JoinFacts, EmptyFacts DEF WriterFlush, WalTypeOK
  <2>2. writer' \in [pc : WriterPC, cmds : Seq(Cmd), id : Nat]
    BY Zenon, <1>3 DEF WriterFlush, AfterFlush, WalTypeOK, WriterPC
  <2> QED
    BY <1>3, <2>1, <2>2 DEF WriterFlush, WalTypeOK, node
<1>4. CASE WriterSync
  <2>1. writer' \in [pc : WriterPC, cmds : Seq(Cmd), id : Nat]
    BY Zenon, <1>4 DEF WriterSync, AfterFlush, WalTypeOK, WriterPC
  <2> QED
    BY <1>4, <2>1 DEF WriterSync, WalTypeOK, node
<1>5. CASE WriterSkip
  BY Zenon, <1>5 DEF WriterSkip, WalTypeOK, WriterPC, disk, node
<1>6. CASE WriterPublish
  BY Zenon, <1>6 DEF WriterPublish, WalTypeOK, WriterPC, disk, node
<1>7. CASE WriterBroadcast
  BY Zenon, <1>7 DEF WriterBroadcast, Woken, WalTypeOK, WriterPC, WaiterPC, disk, node
<1>8. CASE WriterError
  <2>1. file' \in Seq(Cmd) /\ torn' \in BOOLEAN
    <3>1. \A n \in 0 .. Len(buf) : file \o SubSeq(buf, 1, n) \in Seq(Cmd)
      BY CutFacts, JoinFacts DEF WalTypeOK
    <3>2. CASE WriteFails
      BY Zenon, <3>1, <3>2 DEF WriteFails, WalTypeOK
    <3>3. CASE UNCHANGED <<file, torn>>
      BY <3>3 DEF WalTypeOK
    <3> QED
      BY <1>8, <3>2, <3>3 DEF WriterError
  <2> QED
    BY Zenon, <1>8, <2>1 DEF WriterError, WalTypeOK, WriterPC, node
<1>9. CASE Fail
  BY Zenon, <1>9 DEF Fail, Woken, WalTypeOK, WriterPC, WaiterPC, disk, node
<1> QED
  BY <1>1, <1>2, <1>3, <1>4, <1>5, <1>6, <1>7, <1>8, <1>9 DEF WriterStep

LEMMA ReaperType ==
  ASSUME WalTypeOK, ReaperStep
  PROVE  WalTypeOK'
<1>1. CASE ReaperTake
  <2>1. Head(ackCh) \in Batch /\ Tail(ackCh) \in Seq(Batch)
    BY <1>1 DEF ReaperTake, WalTypeOK
  <2> QED
    BY <1>1, <2>1 DEF ReaperTake, WalTypeOK, Batch, WaiterPC, disk, node
<1>2. CASE WaitCheck
  <2>1. waiter' \in [pc : WaiterPC, cmds : Seq(Cmd), id : Nat]
    BY Zenon, <1>2 DEF WaitCheck, WalTypeOK, WaiterPC
  <2>2. promised' \in Nat
    <3>1. base + waiter.id \in Nat /\ promised \in Nat
      BY DEF WalTypeOK
    <3>2. promised' \in {base + waiter.id, promised}
      BY <1>2, Zenon DEF WaitCheck
    <3> QED
      BY <3>1, <3>2
  <2> QED
    BY <1>2, <2>1, <2>2 DEF WaitCheck, WalTypeOK, disk, node
<1>3. CASE WaitEnlist
  BY Zenon, <1>3 DEF WaitEnlist, WalTypeOK, WaiterPC, disk, node
<1>4. CASE ReaperRespond
  BY <1>4 DEF ReaperRespond, IdleWaiter, WalTypeOK, WaiterPC, disk, node
<1> QED
  BY <1>1, <1>2, <1>3, <1>4 DEF ReaperStep

LEMMA CrashType ==
  ASSUME WalTypeOK, CrashStep
  PROVE  WalTypeOK'
<1>1. ASSUME LoseMemory, file' \in Seq(Cmd), torn' \in BOOLEAN, synced' \in Nat
      PROVE  WalTypeOK'
  <2>1. <<>> \in Seq(Cmd) /\ <<>> \in Seq(Batch)
    BY EmptyFacts
  <2>2. writer' \in [pc : WriterPC, cmds : Seq(Cmd), id : Nat]
    BY <1>1, <2>1 DEF LoseMemory, IdleWriter, WriterPC
  <2>3. waiter' \in [pc : WaiterPC, cmds : Seq(Cmd), id : Nat]
    BY <1>1, <2>1 DEF LoseMemory, IdleWaiter, WaiterPC
  <2>4. up' \in BOOLEAN /\ err' \in BOOLEAN
    BY Zenon, <1>1 DEF LoseMemory
  <2>5. nextID' \in Nat /\ flushedID' \in Nat /\ base' \in Nat /\ promised' \in Nat
        /\ crashes' \in Nat
    BY <1>1 DEF LoseMemory, WalTypeOK
  <2>6. appendCh' \in Seq(Batch) /\ ackCh' \in Seq(Batch) /\ buf' \in Seq(Cmd)
        /\ log' \in Seq(Cmd)
    BY <1>1, <2>1 DEF LoseMemory
  <2> QED
    BY <1>1, <2>2, <2>3, <2>4, <2>5, <2>6 DEF WalTypeOK
<1>2. CASE CrashProcess
  BY <1>1, <1>2 DEF CrashProcess, WalTypeOK, disk
<1>3. CASE CrashPower
  <2>1. \A n \in synced .. Len(file) : SubSeq(file, 1, n) \in Seq(Cmd)
    BY CutFacts DEF WalTypeOK
  <2>2. file' \in Seq(Cmd) /\ torn' \in BOOLEAN
    BY Zenon, <1>3, <2>1 DEF CrashPower
  <2> QED
    BY <1>1, <1>3, <2>2 DEF CrashPower, WalTypeOK
<1>4. CASE Close
  <2>1. /\ file \o buf \in Seq(Cmd)
        /\ \A n \in 0 .. Len(buf) : file \o SubSeq(buf, 1, n) \in Seq(Cmd)
    BY CutFacts, JoinFacts DEF WalTypeOK
  <2>2. file' \in Seq(Cmd) /\ torn' \in BOOLEAN
    BY Zenon, <1>4, <2>1 DEF Close, WriteFails, WalTypeOK, disk
  <2>3. synced' \in Nat
    BY <1>4, <2>2 DEF Close, WalTypeOK, disk
  <2> QED
    BY <1>1, <1>4, <2>2, <2>3 DEF Close
<1>5. CASE Restart
  BY <1>5 DEF Restart, WalTypeOK, disk
<1> QED
  BY <1>2, <1>3, <1>4, <1>5 DEF CrashStep

LEMMA StepType == WalTypeOK /\ [WalNext]_walVars => WalTypeOK'
<1> SUFFICES ASSUME WalTypeOK, [WalNext]_walVars PROVE WalTypeOK'
  OBVIOUS
<1>1. CASE UNCHANGED walVars
  BY <1>1 DEF walVars, disk, node, WalTypeOK
<1> QED
  BY <1>1, SubmitType, WriterType, ReaperType, CrashType DEF WalNext

\* Append, the writer goroutine, Wait and the crashes keep every field of the
\* log and of the disk in its type.
THEOREM WalTypeCorrect == WalSpec => []WalTypeOK
BY InitType, StepType, PTL DEF WalSpec

-------------------------------------------------------------------------------
(* Every appended command is accounted for *)

\* The numbers the positions are made of.
LEMMA NumberTypes ==
  ASSUME WalTypeOK
  PROVE  /\ Rest \in Seq(Cmd) /\ At \in Nat
         /\ Len(Rest) \in Nat /\ Len(appendCh) \in Nat /\ Len(log) \in Nat
         /\ Len(file) \in Nat /\ Len(buf) \in Nat
         /\ nextID \in Nat /\ base \in Nat /\ flushedID \in Nat /\ synced \in Nat
         /\ promised \in Nat
<1>1. Rest \in Seq(Cmd) /\ At \in Nat
  BY DEF WalTypeOK, Rest, At
<1> QED
  BY <1>1 DEF WalTypeOK

LEMMA BatchTypes ==
  ASSUME WalTypeOK, NEW i \in 1 .. Len(appendCh)
  PROVE  End(i) \in Nat /\ BatchLen(i) \in Nat
<1>1. appendCh[i] \in Batch
  BY ElementOfSeq DEF WalTypeOK
<1> QED
  BY <1>1 DEF Batch, End, BatchLen

\* Command j of a batch of z commands that ends at e, in a log that began at o.
LEMMA SpotInLog ==
  ASSUME NEW o \in Nat, NEW e \in Nat, NEW z \in Nat, NEW m \in Nat, NEW j \in 1 .. z,
         e - z \in Nat, e <= m
  PROVE  o + e - z + j \in 1 .. (o + m)
OBVIOUS

LEMMA SpotAtEnd ==
  ASSUME NEW o \in Nat, NEW m \in Nat, NEW z \in Nat, NEW j \in Nat
  PROVE  o + (m + z) - z + j = (o + m) + j
OBVIOUS

LEMMA InitLog == WalInit => LogInv
<1> SUFFICES ASSUME WalInit PROVE LogInv
  OBVIOUS
<1>1. WalTypeOK
  BY InitType
<1>2. Rest = <<>> /\ At = 0
  BY DEF WalInit, IdleWriter, Rest, At
<1>3. Positions /\ Contents
  BY <1>2, EmptyFacts DEF WalInit, Positions, WriterPos, QueuePos, Contents, WriterPart,
                          QueuePart
<1>4. WriterAt /\ Gone
  BY DEF WalInit, WriterAt, Gone, IdleWriter
<1> QED
  BY <1>1, <1>3, <1>4 DEF LogInv

\* Steps that move no command.
LEMMA FrameLog ==
  ASSUME Positions, Contents,
         UNCHANGED <<up, nextID, appendCh, buf, file, log, base>>,
         writer'.cmds = writer.cmds, writer'.id = writer.id, Healthy' => Healthy
  PROVE  Positions' /\ Contents'
<1>1. Positions'
  BY Zenon DEF Positions, WriterPos, QueuePos, Rest, At, End, BatchLen
<1>2. Contents'
  BY DEF Contents, WriterPart, QueuePart, Rest, End, BatchLen, Item
<1> QED
  BY <1>1, <1>2

LEMMA AppendLog ==
  ASSUME LogInv, NEW cmds \in Seq(Cmd), up, WalAppend(cmds),
         UNCHANGED <<up, file, buf, writer, base, synced>>
  PROVE  Positions' /\ Contents' /\ WriterAt' /\ Gone'
<1> DEFINE b == [id |-> nextID + Len(cmds), cmds |-> cmds]
<1>1. cmds \in Seq(Cmd) /\ Len(cmds) \in Nat
  OBVIOUS
<1>2. /\ up /\ up' /\ log' = log \o cmds /\ nextID' = nextID + Len(cmds)
      /\ appendCh' = Append(appendCh, b)
      /\ file' = file /\ buf' = buf /\ writer' = writer /\ base' = base
      /\ synced' = synced
  BY DEF WalAppend
<1>3. Rest' = Rest /\ At' = At
  BY <1>2 DEF Rest, At
<1>4. WalTypeOK
  BY DEF LogInv
<1>n. PICK n \in Nat : n = Len(appendCh)
  BY <1>4, NumberTypes
<1>t. /\ Len(Rest) \in Nat /\ Len(log) \in Nat /\ Len(file) \in Nat /\ Len(buf) \in Nat
      /\ nextID \in Nat /\ base \in Nat /\ At \in Nat
  BY <1>4, NumberTypes
<1>5. /\ Len(log') = Len(log) + Len(cmds)
      /\ \A j \in 1 .. Len(log) : log'[j] = log[j]
      /\ \A j \in 1 .. Len(cmds) : log'[Len(log) + j] = cmds[j]
  BY <1>1, <1>2, <1>4, JoinFacts DEF WalTypeOK
<1>6. /\ Len(appendCh') = n + 1
      /\ \A i \in 1 .. n : appendCh'[i] = appendCh[i]
      /\ appendCh'[n + 1] = b
  <2>1. b \in Batch /\ appendCh \in Seq(Batch)
    BY <1>1, <1>4 DEF Batch, WalTypeOK
  <2> HIDE DEF b
  <2> QED
    BY <1>2, <1>n, <2>1, PushFacts
<1>7. \A i \in 1 .. n : /\ End(i)' = End(i) /\ BatchLen(i)' = BatchLen(i)
                        /\ \A j : Item(i, j)' = Item(i, j)
  BY <1>6 DEF End, BatchLen, Item
<1>8. /\ End(n + 1)' = nextID + Len(cmds) /\ BatchLen(n + 1)' = Len(cmds)
      /\ \A j : Item(n + 1, j)' = cmds[j]
  BY <1>6 DEF End, BatchLen, Item
<1>9. /\ Len(file) <= Len(log) /\ Len(log) = base + nextID
      /\ \A j \in 1 .. Len(file) : file[j] = log[j]
      /\ Healthy => WriterPos /\ QueuePos /\ WriterPart /\ QueuePart
      /\ Healthy' <=> Healthy
  BY <1>2 DEF LogInv, Positions, Contents, Healthy
<1>10. n \in Nat /\ \A i \in 1 .. Len(appendCh') : i \in 1 .. n \/ i = n + 1
  BY <1>6, <1>n
<1> HIDE DEF b
<1>11. ASSUME Healthy PROVE WriterPos'
  <2>1. WriterPos
    BY <1>9, <1>11
  <2> QED
    BY <1>1, <1>2, <1>3, <1>t, <2>1 DEF WriterPos
<1>12. ASSUME Healthy PROVE QueuePos'
  <2>1. QueuePos
    BY <1>9, <1>12
  <2>2. ASSUME NEW i \in 1 .. n
        PROVE  End(i)' <= nextID' /\ End(i)' = (IF i = 1 THEN At' ELSE End(i - 1)') + BatchLen(i)'
    <3>1. End(i) <= nextID /\ End(i) = (IF i = 1 THEN At ELSE End(i - 1)) + BatchLen(i)
      BY <1>n, <2>1 DEF QueuePos
    <3>2. End(i) \in Nat /\ nextID \in Nat
      BY <1>4, <1>n, <1>t, BatchTypes
    <3>3. i # 1 => End(i - 1)' = End(i - 1)
      BY <1>7, <1>10
    <3> QED
      BY <1>1, <1>2, <1>3, <1>7, <3>1, <3>2, <3>3
  <2>3. /\ End(n + 1)' <= nextID'
        /\ End(n + 1)' = (IF n + 1 = 1 THEN At' ELSE End(n)') + BatchLen(n + 1)'
    <3>1. nextID = IF n = 0 THEN At ELSE End(n)
      BY <1>n, <2>1 DEF QueuePos
    <3>2. n # 0 => End(n)' = End(n)
      BY <1>7, <1>10
    <3> QED
      BY SMTT(30), <1>1, <1>2, <1>3, <1>8, <1>10, <1>t, <3>1, <3>2
  <2>4. Len(appendCh') = n + 1 /\ Len(appendCh') # 0 /\ End(n + 1)' = nextID'
    BY <1>2, <1>6, <1>8, <1>10
  <2>5. ASSUME NEW i \in 1 .. Len(appendCh')
        PROVE  End(i)' <= nextID' /\ End(i)' = (IF i = 1 THEN At' ELSE End(i - 1)') + BatchLen(i)'
    <3>1. CASE i \in 1 .. n
      BY Zenon, <2>2, <3>1
    <3>2. CASE i = n + 1
      <4>1. End(i - 1)' = End(n)'
        BY <1>10, <3>2
      <4> QED
        BY Zenon, <2>3, <3>2, <4>1
    <3> QED
      BY Zenon, <1>10, <3>1, <3>2
  <2>6. nextID' = (IF Len(appendCh) = 0 THEN At ELSE End(Len(appendCh)))'
    BY Zenon, <2>4
  <2> QED
    BY Zenon, <2>5, <2>6 DEF QueuePos
<1>13. ASSUME Healthy PROVE WriterPart'
  <2>1. WriterPart /\ WriterPos
    BY <1>9, <1>13
  <2>2. Len(file) + Len(buf) + Len(Rest) <= Len(log)
    BY <1>t, <1>9, <2>1 DEF WriterPos
  <2>3. /\ \A j \in 1 .. Len(buf) : Len(file) + j \in 1 .. Len(log)
        /\ \A j \in 1 .. Len(Rest) : Len(file) + Len(buf) + j \in 1 .. Len(log)
    BY <1>t, <2>2
  <2> QED
    BY <1>2, <1>3, <1>5, <2>1, <2>3 DEF WriterPart
<1>14. ASSUME Healthy PROVE QueuePart'
  <2>1. QueuePart /\ QueuePos
    BY <1>9, <1>14
  <2>2. ASSUME NEW i \in 1 .. n, NEW j \in 1 .. BatchLen(i)
        PROVE  Item(i, j)' = log'[base' + End(i)' - BatchLen(i)' + j]
    <3>1. End(i) <= nextID /\ End(i) = (IF i = 1 THEN At ELSE End(i - 1)) + BatchLen(i)
      BY <1>n, <2>1 DEF QueuePos
    <3>2. End(i) \in Nat /\ BatchLen(i) \in Nat /\ (i # 1 => End(i - 1) \in Nat)
      BY <1>4, <1>n, <1>10, BatchTypes
    <3>3. base + End(i) - BatchLen(i) + j \in 1 .. Len(log)
      <4>1. End(i) - BatchLen(i) \in Nat
        BY <1>t, <3>1, <3>2
      <4>2. Len(log) = base + nextID
        BY <1>9
      <4> QED
        BY Zenon, <1>t, <3>1, <3>2, <4>1, <4>2, SpotInLog
    <3>4. Item(i, j) = log[base + End(i) - BatchLen(i) + j]
      BY <1>n, <2>1 DEF QueuePart
    <3> QED
      BY <1>2, <1>5, <1>7, <3>3, <3>4
  <2>3. ASSUME NEW j \in 1 .. Len(cmds)
        PROVE  Item(n + 1, j)' = log'[base' + End(n + 1)' - BatchLen(n + 1)' + j]
    <3>1. base' + End(n + 1)' - BatchLen(n + 1)' + j = Len(log) + j
      <4>1. /\ base' = base /\ End(n + 1)' = nextID + Len(cmds) /\ BatchLen(n + 1)' = Len(cmds)
            /\ Len(log) = base + nextID
        BY <1>2, <1>8, <1>9
      <4>2. j \in Nat
        BY <1>1
      <4> QED
        BY SMTT(30), <1>1, <1>t, <4>1, <4>2, SpotAtEnd
    <3> QED
      BY <1>5, <1>8, <3>1
  <2> QED
    BY <1>7, <1>8, <1>10, <2>2, <2>3 DEF QueuePart
<1>15. Positions' /\ Contents'
  <2>1. Len(file') <= Len(log') /\ Len(log') = base' + nextID'
    BY <1>1, <1>2, <1>t, <1>5, <1>9
  <2>2. \A j \in 1 .. Len(file') : file'[j] = log'[j]
    BY <1>2, <1>t, <1>5, <1>9
  <2> QED
    BY <1>9, <1>11, <1>12, <1>13, <1>14, <2>1, <2>2 DEF Positions, Contents
<1>16. WriterAt'
  BY <1>2 DEF LogInv, WriterAt, Durable
<1>17. Gone'
  BY <1>2 DEF Gone
<1> QED
  BY <1>15, <1>16, <1>17

LEMMA SubmitLog ==
  ASSUME LogInv, NEW cmds \in Batches, Submit(cmds)
  PROVE  Positions' /\ Contents' /\ WriterAt' /\ Gone'
<1>1. cmds \in Seq(Cmd)
  BY BatchesAssumption
<1>2. up /\ WalAppend(cmds) /\ UNCHANGED <<up, file, buf, writer, base, synced>>
  BY DEF Submit, disk, node
<1> QED
  BY <1>1, <1>2, AppendLog

LEMMA TakeLog ==
  ASSUME LogInv, WriterTake
  PROVE  Positions' /\ Contents' /\ WriterAt' /\ Gone'
<1>1. /\ up /\ up' /\ Healthy /\ Healthy' /\ writer.pc = "select"
      /\ UNCHANGED <<nextID, log, file, buf, base, synced>>
      /\ appendCh # <<>> /\ appendCh' = Tail(appendCh)
      /\ Rest' = Head(appendCh).cmds /\ At' = Head(appendCh).id
      /\ writer'.pc = "encode"
  BY DEF WriterTake, Healthy, Rest, At, disk, node
<1>2. WalTypeOK /\ WriterPos /\ QueuePos /\ WriterPart /\ QueuePart /\ Len(Rest) = 0
  BY <1>1, EmptyFacts DEF LogInv, Positions, Contents, WriterAt, Rest
<1>n. PICK n \in Nat : n = Len(appendCh)
  BY <1>2, NumberTypes
<1>t. /\ Len(log) \in Nat /\ Len(file) \in Nat /\ Len(buf) \in Nat
      /\ nextID \in Nat /\ base \in Nat /\ At \in Nat
  BY <1>2, NumberTypes
<1>3. /\ n # 0 /\ Len(appendCh') = n - 1 /\ Head(appendCh) = appendCh[1]
      /\ \A i \in 1 .. n - 1 : appendCh'[i] = appendCh[i + 1]
  BY <1>1, <1>2, <1>n, PopFacts DEF WalTypeOK
<1>4. /\ At' = End(1) /\ Len(Rest') = BatchLen(1) /\ \A j : Rest'[j] = Item(1, j)
  BY <1>1, <1>3 DEF End, BatchLen, Item
<1>5. \A i \in 1 .. n - 1 : /\ End(i)' = End(i + 1) /\ BatchLen(i)' = BatchLen(i + 1)
                            /\ \A j : Item(i, j)' = Item(i + 1, j)
  BY <1>3 DEF End, BatchLen, Item
<1>6. \A i \in 1 .. n : /\ End(i) \in Nat /\ BatchLen(i) \in Nat /\ End(i) <= nextID
                        /\ End(i) = (IF i = 1 THEN At ELSE End(i - 1)) + BatchLen(i)
  BY <1>2, <1>n, BatchTypes DEF QueuePos
<1>7. /\ End(1) \in Nat /\ BatchLen(1) \in Nat /\ End(1) <= nextID /\ End(1) = At + BatchLen(1)
      /\ Len(file) + Len(buf) = base + At
  BY <1>2, <1>3, <1>6, <1>t DEF WriterPos
<1>8. WriterPos'
  <2>1. Len(file) + Len(buf) + BatchLen(1) = base + End(1)
    BY <1>7, <1>t
  <2> QED
    BY Zenon, <1>1, <1>4, <1>7, <2>1 DEF WriterPos
<1>9. QueuePos'
  <2>1. ASSUME NEW i \in 1 .. n - 1
        PROVE  End(i)' <= nextID' /\ End(i)' = (IF i = 1 THEN At' ELSE End(i - 1)') + BatchLen(i)'
    <3>1. /\ i + 1 \in 1 .. n /\ i + 1 # 1 /\ i + 1 - 1 = i
          /\ i # 1 => i - 1 \in 1 .. n - 1 /\ i - 1 + 1 = i
      BY <1>3
    <3>2. End(i + 1) <= nextID /\ End(i + 1) = End(i) + BatchLen(i + 1)
      BY <1>6, <3>1
    <3>3. i # 1 => End(i - 1)' = End(i)
      BY <1>5, <3>1
    <3> QED
      BY <1>1, <1>4, <1>5, <3>2, <3>3
  <2>2. nextID' = IF Len(appendCh') = 0 THEN At' ELSE appendCh'[Len(appendCh')].id
    <3>1. nextID = End(n)
      BY <1>2, <1>3, <1>n DEF QueuePos
    <3>2. n # 1 => End(n - 1)' = End(n)
      BY <1>3, <1>5
    <3> QED
      BY <1>1, <1>3, <1>4, <3>1, <3>2 DEF End
  <2> QED
    BY <1>3, <2>1, <2>2 DEF QueuePos, End
<1>10. WriterPart'
  <2>1. ASSUME NEW j \in 1 .. BatchLen(1) PROVE Rest'[j] = log[Len(file) + Len(buf) + j]
    <3>1. Item(1, j) = log[base + End(1) - BatchLen(1) + j]
      BY <1>2, <1>3, <1>n DEF QueuePart
    <3>2. base + End(1) - BatchLen(1) + j = (base + At) + j
      BY <1>7, <1>t, SpotAtEnd
    <3> QED
      BY <1>4, <1>7, <3>1, <3>2
  <2> QED
    BY <1>1, <1>2, <1>4, <2>1 DEF WriterPart
<1>11. QueuePart'
  <2>1. ASSUME NEW i \in 1 .. n - 1, NEW j \in 1 .. BatchLen(i + 1)
        PROVE  Item(i + 1, j) = log[base + End(i + 1) - BatchLen(i + 1) + j]
    BY <1>2, <1>n DEF QueuePart
  <2> QED
    BY <1>1, <1>3, <1>5, <2>1 DEF QueuePart
<1>12. Positions' /\ Contents'
  BY <1>1, <1>8, <1>9, <1>10, <1>11 DEF LogInv, Positions, Contents
<1>13. WriterAt' /\ Gone'
  BY <1>1 DEF WriterAt, Gone
<1> QED
  BY <1>12, <1>13

\* Nothing the writer does to its own batch touches the channel.
LEMMA QueueFrame ==
  ASSUME QueuePos, QueuePart, UNCHANGED <<nextID, appendCh, log, base>>, At' = At
  PROVE  QueuePos' /\ QueuePart'
<1>1. QueuePos'
  BY DEF QueuePos, End, BatchLen
<1>2. QueuePart'
  BY DEF QueuePart, End, BatchLen, Item
<1> QED
  BY <1>1, <1>2

LEMMA EncodeLog ==
  ASSUME LogInv, WriterEncode
  PROVE  Positions' /\ Contents' /\ WriterAt' /\ Gone'
<1>1. /\ up /\ up' /\ Healthy /\ Healthy'
      /\ UNCHANGED <<nextID, appendCh, log, file, base, synced>>
      /\ Rest # <<>> /\ buf' = Append(buf, Head(Rest))
      /\ writer'.pc = "encode"
  BY DEF WriterEncode, Healthy, Rest, At, disk, node
<1>2. Rest' = Tail(Rest) /\ At' = At
  BY DEF WriterEncode, LogInv, WalTypeOK, Rest, At
<1>3. WalTypeOK /\ WriterPos /\ QueuePos /\ WriterPart /\ QueuePart
  BY <1>1 DEF LogInv, Positions, Contents
<1>t. /\ Len(Rest) \in Nat /\ Len(file) \in Nat /\ Len(buf) \in Nat
      /\ nextID \in Nat /\ base \in Nat /\ At \in Nat
  BY <1>3, NumberTypes
<1>4. /\ Head(Rest) = Rest[1] /\ Head(Rest) \in Cmd
      /\ Len(Rest) # 0 /\ Len(Rest') = Len(Rest) - 1
      /\ \A j \in 1 .. Len(Rest) - 1 : Rest'[j] = Rest[j + 1]
  BY <1>1, <1>2, <1>3, NumberTypes, PopFacts
<1>5. /\ Len(buf') = Len(buf) + 1
      /\ \A j \in 1 .. Len(buf) : buf'[j] = buf[j]
      /\ buf'[Len(buf) + 1] = Rest[1]
  BY <1>1, <1>3, <1>4, PushFacts DEF WalTypeOK
<1>6. WriterPos'
  <2>1. Len(file) + Len(buf) + Len(Rest) = base + At /\ At <= nextID
    BY <1>3 DEF WriterPos
  <2>2. Len(file) + (Len(buf) + 1) + (Len(Rest) - 1) = base + At
    BY <1>t, <2>1
  <2> QED
    BY <1>1, <1>2, <1>4, <1>5, <2>1, <2>2 DEF WriterPos
<1>7. WriterPart'
  <2>1. \A j \in 1 .. Len(buf) + 1 : buf'[j] = log[Len(file) + j]
    <3>1. Rest[1] = log[Len(file) + Len(buf) + 1]
      BY <1>3, <1>4, <1>t DEF WriterPart
    <3>2. Len(file) + Len(buf) + 1 = Len(file) + (Len(buf) + 1)
      BY <1>t
    <3>3. \A j \in 1 .. Len(buf) + 1 : j \in 1 .. Len(buf) \/ j = Len(buf) + 1
      BY <1>t
    <3> QED
      BY Zenon, <1>3, <1>5, <3>1, <3>2, <3>3 DEF WriterPart
  <2>2. ASSUME NEW j \in 1 .. Len(Rest) - 1
        PROVE  Rest'[j] = log[Len(file) + (Len(buf) + 1) + j]
    <3>1. j + 1 \in 1 .. Len(Rest) /\ j \in Nat
      BY <1>t
    <3>2. Len(file) + Len(buf) + (j + 1) = Len(file) + (Len(buf) + 1) + j
      BY <1>t, <3>1
    <3>3. Rest[j + 1] = log[Len(file) + Len(buf) + (j + 1)]
      BY <1>3, <3>1 DEF WriterPart
    <3> QED
      BY <1>4, <3>2, <3>3
  <2> QED
    BY <1>1, <1>4, <1>5, <2>1, <2>2 DEF WriterPart
<1>8. Positions' /\ Contents'
  BY <1>1, <1>2, <1>3, <1>6, <1>7, QueueFrame DEF LogInv, Positions, Contents
<1>9. WriterAt' /\ Gone'
  BY <1>1 DEF WriterAt, Gone
<1> QED
  BY <1>8, <1>9

\* Any part of the buffer that reaches the file leaves a prefix of the log there.
LEMMA FileGrows ==
  ASSUME LogInv, up, Healthy, NEW n \in 0 .. Len(buf)
  PROVE  LET f == file \o SubSeq(buf, 1, n)
         IN  /\ f \in Seq(Cmd) /\ Len(f) = Len(file) + n /\ Len(f) <= Len(log)
             /\ \A j \in 1 .. Len(f) : f[j] = log[j]
<1> DEFINE part == SubSeq(buf, 1, n)
           f == file \o part
<1> SUFFICES /\ f \in Seq(Cmd) /\ Len(f) = Len(file) + n /\ Len(f) <= Len(log)
             /\ \A j \in 1 .. Len(f) : f[j] = log[j]
  OBVIOUS
<1>1. WalTypeOK /\ WriterPos /\ WriterPart /\ Len(log) = base + nextID
  BY DEF LogInv, Positions, Contents
<1>2. file \in Seq(Cmd) /\ buf \in Seq(Cmd)
  BY <1>1 DEF WalTypeOK
<1>t. /\ Len(Rest) \in Nat /\ Len(file) \in Nat /\ Len(buf) \in Nat
      /\ nextID \in Nat /\ base \in Nat /\ At \in Nat
  BY <1>1, NumberTypes
<1>3. part \in Seq(Cmd) /\ Len(part) = n /\ \A i \in 1 .. n : part[i] = buf[i]
  BY <1>2, CutFacts
<1> HIDE DEF part
<1>4. /\ f \in Seq(Cmd) /\ Len(f) = Len(file) + n
      /\ \A j \in 1 .. Len(file) : f[j] = file[j]
      /\ \A i \in 1 .. n : f[Len(file) + i] = part[i]
  <2>1. file \in Seq(Cmd) /\ part \in Seq(Cmd)
    BY <1>2, <1>3
  <2>2. /\ f \in Seq(Cmd) /\ Len(f) = Len(file) + Len(part)
        /\ \A j \in 1 .. Len(file) : f[j] = file[j]
        /\ \A i \in 1 .. Len(part) : f[Len(file) + i] = part[i]
    BY <2>1, JoinFacts
  <2> QED
    BY <1>3, <2>2
<1> HIDE DEF f
<1>5. Len(file) + n <= Len(log)
  <2>1. Len(file) + Len(buf) + Len(Rest) = base + At /\ At <= nextID
    BY <1>1 DEF WriterPos
  <2>2. Len(file) + n <= base + nextID
    BY <1>t, <2>1
  <2> QED
    BY <1>1, <2>2
<1>6. ASSUME NEW j \in 1 .. Len(file) + n PROVE f[j] = log[j]
  <2>1. CASE j \in 1 .. Len(file)
    BY <1>4, <2>1 DEF LogInv, Contents
  <2>2. CASE j \notin 1 .. Len(file)
    <3>1. PICK i \in 1 .. n : j = Len(file) + i
      <4>1. j - Len(file) \in 1 .. n /\ j = Len(file) + (j - Len(file))
        BY <1>t, <2>2
      <4> QED
        BY <4>1
    <3>2. i \in 1 .. Len(buf)
      BY <1>t
    <3> QED
      BY Zenon, <1>1, <1>3, <1>4, <3>1, <3>2 DEF WriterPart
  <2> QED
    BY <2>1, <2>2
<1> QED
  BY <1>4, <1>5, <1>6

LEMMA FlushLog ==
  ASSUME LogInv, WriterFlush
  PROVE  Positions' /\ Contents' /\ WriterAt' /\ Gone'
<1>1. /\ up /\ up' /\ Healthy
      /\ UNCHANGED <<nextID, appendCh, log, base, synced>>
      /\ file' = file \o buf /\ buf' = <<>>
  BY DEF WriterFlush, FlushDue, Healthy, node
<1>2. /\ Rest' = Rest /\ At' = At
      /\ writer'.pc = IF AckMode = "fsync" THEN "sync" ELSE AfterFlush
  BY DEF WriterFlush, LogInv, WalTypeOK, Rest, At
<1>3. WalTypeOK /\ WriterPos /\ QueuePos /\ WriterPart /\ QueuePart
      /\ Len(log) = base + nextID
  BY <1>1 DEF LogInv, Positions, Contents
<1>t. /\ Len(Rest) \in Nat /\ Len(file) \in Nat /\ Len(buf) \in Nat
      /\ nextID \in Nat /\ base \in Nat /\ At \in Nat
  BY <1>3, NumberTypes
<1>4. /\ Len(file') = Len(file) + Len(buf) /\ Len(file') <= Len(log)
      /\ \A j \in 1 .. Len(file') : file'[j] = log[j]
  <2>1. SubSeq(buf, 1, Len(buf)) = buf
    BY <1>3, SubSeqFull DEF WalTypeOK
  <2>2. Len(buf) \in 0 .. Len(buf)
    BY <1>t
  <2> QED
    BY Zenon, <1>1, <2>1, <2>2, FileGrows
<1>5. Len(buf') = 0
  BY <1>1, EmptyFacts
<1>6. WriterPos'
  <2>1. Len(file) + Len(buf) + 0 + Len(Rest) = base + At /\ At <= nextID
    BY <1>3, <1>t DEF WriterPos
  <2> QED
    BY <1>1, <1>2, <1>4, <1>5, <2>1 DEF WriterPos
<1>7. WriterPart'
  <2>1. \A j \in 1 .. Len(Rest) : Rest[j] = log[Len(file) + Len(buf) + j]
    BY <1>3 DEF WriterPart
  <2>2. Len(file) + Len(buf) + 0 = Len(file) + Len(buf)
    BY <1>t
  <2> QED
    BY <1>1, <1>2, <1>4, <1>5, <2>1, <2>2 DEF WriterPart
<1>8. Positions' /\ Contents'
  BY <1>1, <1>2, <1>3, <1>4, <1>6, <1>7, QueueFrame DEF Positions, Contents
<1>9. WriterAt' /\ Gone'
  BY <1>1, <1>2 DEF WriterAt, Gone, AfterFlush, Rest, Durable
<1> QED
  BY <1>8, <1>9

LEMMA ErrorLog ==
  ASSUME LogInv, WriterError
  PROVE  Positions' /\ Contents' /\ WriterAt' /\ Gone'
<1>1. up /\ up' /\ UNCHANGED <<nextID, log, base>>
  BY DEF WriterError, node
<1>2. writer'.pc = "failing" /\ ~Healthy'
  BY DEF WriterError, LogInv, WalTypeOK, Healthy
<1>3. Len(file') <= Len(log) /\ \A j \in 1 .. Len(file') : file'[j] = log[j]
  <2>1. CASE FlushDue /\ WriteFails
    <3>1. Healthy
      BY <2>1 DEF FlushDue, Healthy
    <3>2. PICK n \in 0 .. Len(buf) : file' = file \o SubSeq(buf, 1, n)
      BY <2>1 DEF WriteFails
    <3> QED
      BY <1>1, <3>1, <3>2, FileGrows
  <2>2. CASE UNCHANGED file
    BY <2>2 DEF LogInv, Positions, Contents
  <2> QED
    BY <2>1, <2>2 DEF WriterError
<1> QED
  BY <1>1, <1>2, <1>3 DEF LogInv, Positions, Contents, WriterAt, Gone

LEMMA WriterLog ==
  ASSUME LogInv, WriterStep
  PROVE  Positions' /\ Contents' /\ WriterAt' /\ Gone'
<1>1. CASE WriterTake
  BY <1>1, TakeLog
<1>2. CASE WriterEncode
  BY <1>2, EncodeLog
<1>3. CASE WriterFlush
  BY <1>3, FlushLog
<1>4. CASE WriterError
  BY <1>4, ErrorLog
<1>5. CASE WriterSync \/ WriterSkip \/ WriterPublish \/ WriterBroadcast \/ Fail
  <2>1. /\ UNCHANGED <<up, nextID, appendCh, buf, file, log, base>> /\ up
        /\ writer'.cmds = writer.cmds /\ writer'.id = writer.id
    BY <1>5 DEF WriterSync, WriterSkip, WriterPublish, WriterBroadcast, Fail,
                disk, node, LogInv, WalTypeOK
  <2>2. \/ writer.pc = "sync" /\ writer'.pc = AfterFlush /\ synced' = Len(file)
        \/ writer.cmds = <<>> /\ writer'.pc \in {"select", "broadcast"}
        \/ writer.pc = "failing" /\ writer'.pc = "dead"
    BY <1>5 DEF WriterSync, WriterSkip, WriterPublish, WriterBroadcast, Fail,
                LogInv, WalTypeOK, WriterAt
  <2>3. Healthy' => Healthy
    <3>1. writer.pc = "failing" => writer'.pc = "dead"
      BY <1>5 DEF WriterSync, WriterSkip, WriterPublish, WriterBroadcast, Fail,
                  LogInv, WalTypeOK
    <3>2. writer.pc # "dead"
      BY <1>5 DEF WriterSync, WriterSkip, WriterPublish, WriterBroadcast, Fail
    <3> QED
      BY <3>1, <3>2 DEF Healthy
  <2>4. Positions' /\ Contents'
    BY <2>1, <2>3, FrameLog DEF LogInv
  <2>5. WriterAt' /\ Gone'
    BY <2>1, <2>2 DEF LogInv, WriterAt, Gone, AfterFlush, Durable
  <2> QED
    BY <2>4, <2>5
<1> QED
  BY <1>1, <1>2, <1>3, <1>4, <1>5 DEF WriterStep

LEMMA ReaperLog ==
  ASSUME LogInv, ReaperStep
  PROVE  Positions' /\ Contents' /\ WriterAt' /\ Gone'
<1>1. up /\ UNCHANGED <<up, nextID, appendCh, writer, buf, file, log, base, synced>>
  BY DEF ReaperStep, ReaperTake, WaitCheck, WaitEnlist, ReaperRespond, disk, node
<1>2. Positions' /\ Contents'
  BY <1>1, FrameLog DEF LogInv, Healthy
<1>3. WriterAt' /\ Gone'
  BY <1>1 DEF LogInv, WriterAt, Gone, Durable
<1> QED
  BY <1>2, <1>3

LEMMA CrashLog ==
  ASSUME LogInv, CrashStep, WalTypeOK'
  PROVE  Positions' /\ Contents' /\ WriterAt' /\ Gone'
<1>1. CASE LoseMemory
  <2>1. ~up' /\ log' = file' /\ writer' = IdleWriter /\ Len(file') \in Nat
    BY <1>1 DEF LoseMemory, WalTypeOK
  <2>2. Positions' /\ Contents'
    BY <2>1 DEF Positions, Contents
  <2>3. WriterAt' /\ Gone'
    BY <1>1, <2>1 DEF LoseMemory, WriterAt, Gone, IdleWriter
  <2> QED
    BY <2>2, <2>3
<1>2. CASE Restart
  <2>1. /\ ~up /\ up' /\ base' = Len(file)
        /\ UNCHANGED <<nextID, appendCh, writer, buf, file, log, synced>>
    BY <1>2 DEF Restart, disk
  <2>2. /\ log = file /\ appendCh = <<>> /\ buf = <<>> /\ nextID = 0
        /\ writer = IdleWriter
    BY <2>1 DEF LogInv, Gone
  <2>3. /\ Len(file) \in Nat /\ Len(appendCh) = 0 /\ Len(buf) = 0
        /\ Rest = <<>> /\ Len(Rest) = 0 /\ At = 0 /\ Rest' = Rest /\ At' = At
    BY <2>1, <2>2, EmptyFacts DEF LogInv, WalTypeOK, IdleWriter, Rest, At
  <2>4. Positions'
    BY <2>1, <2>2, <2>3 DEF Positions, WriterPos, QueuePos
  <2>5. Contents'
    BY <2>1, <2>2, <2>3 DEF Contents, WriterPart, QueuePart
  <2>6. WriterAt' /\ Gone'
    BY <2>1, <2>2 DEF WriterAt, Gone, IdleWriter
  <2> QED
    BY <2>4, <2>5, <2>6
<1> QED
  BY Zenon, <1>1, <1>2 DEF CrashStep, CrashProcess, CrashPower, Close

LEMMA StepLog == LogInv /\ [WalNext]_walVars => LogInv'
<1> SUFFICES ASSUME LogInv, [WalNext]_walVars PROVE LogInv'
  OBVIOUS
<1>1. WalTypeOK'
  BY StepType DEF LogInv
<1>2. CASE \E cmds \in Batches : Submit(cmds)
  BY <1>1, <1>2, SubmitLog DEF LogInv
<1>3. CASE WriterStep
  BY <1>1, <1>3, WriterLog DEF LogInv
<1>4. CASE ReaperStep
  BY <1>1, <1>4, ReaperLog DEF LogInv
<1>5. CASE CrashStep
  BY <1>1, <1>5, CrashLog DEF LogInv
<1>6. CASE UNCHANGED walVars
  <2>1. UNCHANGED <<up, nextID, flushedID, appendCh, ackCh, writer, waiter, buf, file, log,
                    base, synced>>
    BY <1>6 DEF walVars, disk, node
  <2>2. Positions' /\ Contents'
    BY <2>1, FrameLog DEF LogInv, Healthy
  <2>3. WriterAt' /\ Gone'
    BY <2>1 DEF LogInv, WriterAt, Gone, Durable
  <2> QED
    BY <1>1, <2>2, <2>3 DEF LogInv
<1> QED
  BY <1>2, <1>3, <1>4, <1>5, <1>6 DEF WalNext

\* The file holds the appended commands in order, none missing and none
\* twice: wal.go's writerLoop never reorders, drops or repeats a record,
\* whenever it flushes and wherever a crash or a failed write cuts it off.
THEOREM FilePrefixCorrect == WalSpec => []FileIsLogPrefix
<1>1. WalInit => LogInv
  BY InitLog, InitType DEF LogInv
<1>2. LogInv => FileIsLogPrefix
  <2> SUFFICES ASSUME LogInv PROVE FileIsLogPrefix
    OBVIOUS
  <2>1. /\ file \in Seq(Cmd) /\ log \in Seq(Cmd) /\ Len(file) \in Nat /\ Len(log) \in Nat
        /\ Len(file) <= Len(log) /\ \A j \in 1 .. Len(file) : file[j] = log[j]
    BY DEF LogInv, WalTypeOK, Positions, Contents
  <2>2. Len(file) \in 0 .. Len(log)
    BY <2>1
  <2>3. /\ SubSeq(log, 1, Len(file)) \in Seq(Cmd) /\ Len(SubSeq(log, 1, Len(file))) = Len(file)
        /\ \A j \in 1 .. Len(file) : SubSeq(log, 1, Len(file))[j] = log[j]
    BY <2>1, <2>2, CutFacts
  <2>4. file = SubSeq(log, 1, Len(file))
    BY <2>1, <2>3, SeqEqual
  <2> QED
    BY <2>1, <2>4 DEF FileIsLogPrefix
<1> QED
  BY <1>1, <1>2, StepLog, PTL DEF WalSpec

-------------------------------------------------------------------------------
(* Durability.  A mode protects against the crashes it is chosen for. *)

Protected == AckMode = "fsync" \/ "power" \notin CrashKinds

\* What every step does to the file: it stays a prefix of the old log that is
\* no shorter than what was durable, or the step does not touch the disk.
FileStep ==
  /\ file' \in Seq(Cmd) /\ Len(file') <= Len(log)
  /\ \A j \in 1 .. Len(file') : file'[j] = log[j]

LEMMA DurableTypes ==
  ASSUME WalTypeOK
  PROVE  Durable \in Nat /\ Len(file) \in Nat /\ synced \in Nat
BY DEF WalTypeOK, Durable

LEMMA PartWritten ==
  ASSUME LogInv, up, Healthy, file' = file \o buf \/ WriteFails
  PROVE  FileStep /\ Len(file') >= Len(file)
<1>1. Len(buf) \in Nat /\ Len(file) \in Nat
  BY NumberTypes DEF LogInv
<1>2. PICK n \in 0 .. Len(buf) : file' = file \o SubSeq(buf, 1, n)
  <2>1. CASE file' = file \o buf
    <3>1. SubSeq(buf, 1, Len(buf)) = buf
      BY SubSeqFull DEF LogInv, WalTypeOK
    <3>2. Len(buf) \in 0 .. Len(buf) /\ file' = file \o SubSeq(buf, 1, Len(buf))
      BY <1>1, <2>1, <3>1
    <3> QED
      BY <3>2
  <2>2. CASE WriteFails
    BY <2>2 DEF WriteFails
  <2> QED
    BY Zenon, <2>1, <2>2
<1>3. /\ file' \in Seq(Cmd) /\ Len(file') = Len(file) + n /\ Len(file') <= Len(log)
      /\ \A j \in 1 .. Len(file') : file'[j] = log[j]
  BY <1>2, FileGrows
<1> QED
  BY <1>1, <1>3 DEF FileStep

LEMMA SameFile ==
  ASSUME LogInv, UNCHANGED file
  PROVE  FileStep
BY DEF LogInv, WalTypeOK, Positions, Contents, FileStep

LEMMA WriterDisk ==
  ASSUME LogInv, synced <= Len(file), WriterStep
  PROVE  FileStep /\ synced' <= Len(file') /\ Durable <= Durable'
<1>1. Len(file) \in Nat /\ synced \in Nat
  BY DurableTypes DEF LogInv
<1>2. CASE WriterFlush \/ (WriterError /\ FlushDue /\ WriteFails)
  <2>1. up /\ Healthy /\ synced' = synced /\ (file' = file \o buf \/ WriteFails)
    BY <1>2 DEF WriterFlush, WriterError, FlushDue, Healthy
  <2>2. FileStep /\ Len(file') >= Len(file)
    BY <2>1, PartWritten
  <2>3. Len(file') \in Nat
    BY <2>2 DEF FileStep
  <2> QED
    BY <1>1, <2>1, <2>2, <2>3 DEF Durable
<1>3. CASE WriterSync
  <2>1. file' = file /\ synced' = Len(file)
    BY <1>3 DEF WriterSync
  <2> QED
    BY <1>1, <2>1, SameFile DEF Durable
<1>4. CASE UNCHANGED <<file, synced>>
  BY <1>1, <1>4, SameFile DEF Durable
<1> QED
  BY <1>2, <1>3, <1>4 DEF WriterStep, WriterTake, WriterEncode, WriterSkip, WriterPublish,
                          WriterBroadcast, WriterError, Fail, disk

LEMMA CrashDisk ==
  ASSUME Protected, LogInv, synced <= Len(file), CrashStep
  PROVE  FileStep /\ synced' <= Len(file') /\ Durable <= Durable'
<1>1. Len(file) \in Nat /\ synced \in Nat /\ file \in Seq(Cmd)
  BY DurableTypes DEF LogInv, WalTypeOK
<1>2. CASE CrashPower
  <2>1. AckMode = "fsync" /\ synced' = synced
    BY <1>2 DEF CrashPower, Protected
  <2>2. PICK n \in synced .. Len(file) : file' = SubSeq(file, 1, n)
    BY <1>2 DEF CrashPower
  <2>3. n \in 0 .. Len(file)
    BY <1>1
  <2>4. /\ file' \in Seq(Cmd) /\ Len(file') = n
        /\ \A j \in 1 .. n : file'[j] = file[j]
    BY <1>1, <2>2, <2>3, CutFacts
  <2>5. Len(file) <= Len(log) /\ Len(log) \in Nat
    BY NumberTypes DEF LogInv, Positions
  <2>6. n <= Len(log) /\ \A j \in 1 .. n : j \in 1 .. Len(file)
    BY <1>1, <2>3, <2>5
  <2>7. FileStep
    BY <2>4, <2>6 DEF FileStep, LogInv, Contents
  <2> QED
    BY <1>1, <2>1, <2>4, <2>7 DEF Durable
<1>3. CASE Close /\ writer.pc = "select"
  <2>1. up /\ Healthy /\ (file' = file \o buf \/ WriteFails)
        /\ synced' \in {synced, Len(file')}
    BY <1>3 DEF Close, Healthy
  <2>2. FileStep /\ Len(file') >= Len(file)
    BY <2>1, PartWritten
  <2>3. Len(file') \in Nat
    BY <2>2 DEF FileStep
  <2> QED
    BY <1>1, <2>1, <2>2, <2>3 DEF Durable
<1>4. CASE UNCHANGED <<file, synced>>
  BY <1>1, <1>4, SameFile DEF Durable
<1> QED
  BY <1>2, <1>3, <1>4 DEF CrashStep, CrashProcess, Close, Restart, disk

DurInv == LogInv /\ Published

LEMMA AckPublished ==
  ASSUME DurInv, NEW b \in Batch, b.id > 0, ackCh' = Append(ackCh, b),
         UNCHANGED <<up, flushedID, waiter, promised, file, synced, base>>
  PROVE  Published'
<1>1. ackCh \in Seq(Batch)
  BY DEF DurInv, LogInv, WalTypeOK
<1>2. /\ Len(ackCh) \in Nat /\ Len(ackCh') = Len(ackCh) + 1
      /\ \A i \in 1 .. Len(ackCh) : ackCh'[i] = ackCh[i]
      /\ ackCh'[Len(ackCh) + 1] = b
  BY <1>1, PushFacts
<1>3. \A i \in 1 .. Len(ackCh') : i \in 1 .. Len(ackCh) \/ i = Len(ackCh) + 1
  BY <1>2
<1>4. \A i \in 1 .. Len(ackCh') : ackCh'[i].id > 0
  BY <1>2, <1>3 DEF DurInv, Published
<1> QED
  BY <1>4 DEF DurInv, Published, Durable

LEMMA SubmitPublished ==
  ASSUME DurInv, NEW cmds \in Batches, Submit(cmds)
  PROVE  Published'
<1>1. UNCHANGED <<up, flushedID, waiter, promised, file, synced, base>>
  BY DEF Submit, disk, node
<1>2. CASE UNCHANGED ackCh
  BY <1>1, <1>2 DEF DurInv, Published, Durable
<1>3. CASE ackCh' = Append(ackCh, [id |-> nextID + Len(cmds), cmds |-> cmds])
  <2> DEFINE b == [id |-> nextID + Len(cmds), cmds |-> cmds]
  <2>1. cmds \in Seq(Cmd) /\ Len(cmds) \in Nat /\ Len(cmds) # 0 /\ nextID \in Nat
    BY BatchesAssumption, EmptySeq DEF DurInv, LogInv, WalTypeOK
  <2>2. b \in Batch /\ b.id > 0
    BY <2>1 DEF Batch
  <2> HIDE DEF b
  <2> QED
    BY <1>1, <1>3, <2>2, AckPublished DEF b
<1> QED
  BY <1>2, <1>3 DEF Submit, QueueAck

LEMMA WriterPublished ==
  ASSUME DurInv, WriterStep, WalTypeOK'
  PROVE  Published'
<1>1. UNCHANGED <<up, ackCh, promised, base>> /\ up
  BY DEF WriterStep, WriterTake, WriterEncode, WriterFlush, WriterSync, WriterSkip,
         WriterPublish, WriterBroadcast, WriterError, Fail, node
<1>2. synced' <= Len(file') /\ Durable <= Durable'
  BY WriterDisk DEF DurInv, Published
<1>3. waiter'.id = waiter.id /\ (waiter.pc = "idle" => waiter'.pc = "idle")
  <2>1. waiter' \in {waiter, Woken}
    BY DEF WriterStep, WriterTake, WriterEncode, WriterFlush, WriterSync, WriterSkip,
           WriterPublish, WriterBroadcast, WriterError, Fail
  <2> QED
    BY Zenon, <2>1 DEF Woken, DurInv, LogInv, WalTypeOK
<1>t. /\ Durable \in Nat /\ Durable' \in Nat /\ promised \in Nat /\ base \in Nat
      /\ flushedID \in Nat
  BY SMTT(30), DurableTypes DEF DurInv, LogInv, WalTypeOK, Durable
<1>4. promised' <= Durable'
  BY <1>1, <1>2, <1>t DEF DurInv, Published
<1>5. flushedID' > 0 => base + flushedID' <= Durable'
  <2>1. CASE UNCHANGED flushedID
    <3>1. flushedID > 0 => base + flushedID <= Durable
      BY <1>1 DEF DurInv, Published
    <3> QED
      BY <1>2, <1>t, <2>1, <3>1
  <2>2. CASE WriterPublish
    <3>1. /\ flushedID' = At /\ Healthy /\ buf = <<>> /\ Rest = <<>>
          /\ Durable = Len(file)
      BY <2>2 DEF WriterPublish, DurInv, LogInv, WriterAt, Healthy, At, Rest
    <3>2. Len(file) + Len(buf) + Len(Rest) = base + At
      BY <1>1, <3>1 DEF DurInv, LogInv, Positions, WriterPos
    <3>3. Len(buf) = 0 /\ Len(Rest) = 0 /\ Len(file) \in Nat /\ At \in Nat
      BY <3>1, EmptyFacts, NumberTypes DEF DurInv, LogInv
    <3>4. base + At = Durable
      BY <3>1, <3>2, <3>3, <1>t
    <3> QED
      BY <1>2, <3>1, <3>4
  <2> QED
    BY <2>1, <2>2 DEF WriterStep, WriterTake, WriterEncode, WriterFlush, WriterSync,
                      WriterSkip, WriterBroadcast, WriterError, Fail
<1> QED
  BY <1>1, <1>2, <1>3, <1>4, <1>5 DEF DurInv, Published

LEMMA ReaperPublished ==
  ASSUME DurInv, ReaperStep
  PROVE  Published' /\ promised <= promised'
<1>1. UNCHANGED <<up, flushedID, file, synced, base>> /\ up /\ Durable' = Durable
  BY DEF ReaperStep, ReaperTake, WaitCheck, WaitEnlist, ReaperRespond, disk, node, Durable
<1>t. /\ Durable \in Nat /\ promised \in Nat /\ base \in Nat
      /\ flushedID \in Nat /\ waiter.id \in Nat
  BY DurableTypes DEF DurInv, LogInv, WalTypeOK
<1>2. CASE ReaperTake
  <2>1. ackCh \in Seq(Batch) /\ ackCh # <<>> /\ ackCh' = Tail(ackCh)
        /\ waiter'.id = Head(ackCh).id /\ promised' = promised
    BY <1>2 DEF ReaperTake, DurInv, LogInv, WalTypeOK
  <2>2. /\ Head(ackCh) = ackCh[1] /\ Len(ackCh) \in Nat \ {0}
        /\ Len(ackCh') = Len(ackCh) - 1
        /\ \A i \in 1 .. Len(ackCh) - 1 : ackCh'[i] = ackCh[i + 1]
    BY <2>1, PopFacts
  <2>3. waiter'.id > 0
    BY <2>1, <2>2 DEF DurInv, Published
  <2>4. \A i \in 1 .. Len(ackCh') : ackCh'[i].id > 0
    <3>1. \A i \in 1 .. Len(ackCh) - 1 : i + 1 \in 1 .. Len(ackCh)
      BY <2>2
    <3> QED
      BY <2>2, <3>1 DEF DurInv, Published
  <2> QED
    BY <1>1, <1>t, <2>1, <2>3, <2>4 DEF DurInv, Published
<1>3. CASE WaitCheck
  <2>1. /\ ackCh' = ackCh /\ waiter.pc = "check" /\ waiter'.id = waiter.id
        /\ promised' = IF ~MustWait /\ ~err /\ base + waiter.id > promised
                         THEN base + waiter.id ELSE promised
    BY <1>3 DEF WaitCheck, DurInv, LogInv, WalTypeOK
  <2>2. waiter.id > 0 /\ (flushedID > 0 => base + flushedID <= Durable)
        /\ promised <= Durable
    BY <1>1, <2>1 DEF DurInv, Published
  <2>3. ~MustWait /\ ~err => waiter.id <= flushedID
    BY <1>t DEF MustWait
  <2>4. promised' <= Durable /\ promised <= promised'
    BY <1>t, <2>1, <2>2, <2>3
  <2> QED
    BY <1>1, <2>1, <2>2, <2>4 DEF DurInv, Published
<1>4. CASE WaitEnlist \/ ReaperRespond
  <2>1. /\ UNCHANGED <<ackCh, promised>>
        /\ waiter' = IdleWaiter \/ (waiter.pc # "idle" /\ waiter'.id = waiter.id)
    BY <1>4 DEF WaitEnlist, ReaperRespond, DurInv, LogInv, WalTypeOK
  <2> QED
    BY SMTT(30), <1>1, <1>t, <2>1 DEF DurInv, Published, IdleWaiter
<1> QED
  BY <1>2, <1>3, <1>4 DEF ReaperStep

LEMMA CrashPublished ==
  ASSUME Protected, DurInv, CrashStep, WalTypeOK'
  PROVE  Published'
<1>1. synced' <= Len(file') /\ Durable <= Durable'
  BY CrashDisk DEF DurInv, Published
<1>2. promised' = promised
  BY Zenon DEF CrashStep, CrashProcess, CrashPower, Close, Restart, LoseMemory
<1>3. Durable \in Nat /\ Durable' \in Nat /\ promised \in Nat
  BY SMTT(30), DurableTypes DEF DurInv, LogInv, WalTypeOK, Durable
<1>4. promised' <= Durable'
  BY <1>1, <1>2, <1>3 DEF DurInv, Published
<1>5. flushedID' = 0 /\ ackCh' = <<>> /\ waiter' = IdleWaiter
  BY Zenon DEF CrashStep, CrashProcess, CrashPower, Close, Restart, LoseMemory, DurInv,
         LogInv, Gone
<1> QED
  BY <1>1, <1>4, <1>5, EmptyFacts DEF Published, IdleWaiter

LEMMA InitDur == WalInit => DurInv
<1> SUFFICES ASSUME WalInit PROVE Published
  BY InitLog DEF DurInv
<1>1. Durable = 0 /\ Len(file) = 0 /\ Len(ackCh) = 0
  BY EmptyFacts DEF WalInit, Durable
<1> QED
  BY <1>1 DEF WalInit, Published, IdleWaiter

LEMMA StepDur ==
  ASSUME Protected
  PROVE  DurInv /\ [WalNext]_walVars => DurInv'
<1> SUFFICES ASSUME DurInv, [WalNext]_walVars PROVE Published'
  BY StepLog DEF DurInv
<1>1. WalTypeOK'
  BY StepType DEF DurInv, LogInv
<1>2. CASE UNCHANGED walVars
  BY Zenon, <1>2 DEF walVars, disk, node, DurInv, Published, Durable
<1> QED
  BY <1>1, <1>2, SubmitPublished, WriterPublished, ReaperPublished, CrashPublished
     DEF WalNext

\* When Wait returns nil for a batch, the batch and all before it are in the
\* file, and on stable storage in the fsync mode, and later crashes of the
\* kinds the mode protects against never take them away (wal.go: Wait,
\* writerLoop, Close, and restarts that append to the same file).
THEOREM DurabilityCorrect ==
  ASSUME Protected
  PROVE  WalSpec => []WaitMeansDurable
<1>1. DurInv => WaitMeansDurable
  BY DEF DurInv, Published, WaitMeansDurable
<1> QED
  BY <1>1, InitDur, StepDur, PTL DEF WalSpec

-------------------------------------------------------------------------------
(* The refinement *)

LEMMA PrefixFacts ==
  ASSUME NEW f \in Seq(Cmd), NEW s \in Seq(Cmd), Len(f) <= Len(s),
         \A j \in 1 .. Len(f) : f[j] = s[j]
  PROVE  Len(f) \in 0 .. Len(s) /\ f = SubSeq(s, 1, Len(f))
<1>1. Len(f) \in 0 .. Len(s)
  OBVIOUS
<1>2. /\ SubSeq(s, 1, Len(f)) \in Seq(Cmd) /\ Len(SubSeq(s, 1, Len(f))) = Len(f)
      /\ \A j \in 1 .. Len(f) : SubSeq(s, 1, Len(f))[j] = s[j]
  BY <1>1, CutFacts
<1>3. f = SubSeq(s, 1, Len(f))
  BY <1>2, SeqEqual
<1> QED
  BY <1>1, <1>3

LEMMA StepRefines ==
  ASSUME Protected, DurInv, DurInv', [WalNext]_walVars
  PROVE  [DL!Next]_(DL!dlVars)
<1>t. /\ Durable \in Nat /\ Durable' \in Nat /\ promised \in Nat /\ promised' \in Nat
      /\ Len(log) \in Nat /\ Len(file') \in Nat /\ Durable' <= Len(file')
  <2>1. /\ promised \in Nat /\ promised' \in Nat /\ log \in Seq(Cmd)
        /\ synced \in Nat /\ file \in Seq(Cmd)
        /\ synced' \in Nat /\ file' \in Seq(Cmd) /\ synced' <= Len(file')
    BY DEF DurInv, LogInv, WalTypeOK, Published
  <2>2. Len(log) \in Nat /\ Len(file) \in Nat /\ Len(file') \in Nat
    BY <2>1
  <2> QED
    BY <2>1, <2>2 DEF Durable
<1>1. CASE \E cmds \in Batches : Submit(cmds)
  <2>1. PICK cmds \in Batches : Submit(cmds)
    BY <1>1
  <2>2. /\ log' = log \o cmds /\ promised' = promised /\ Durable' = Durable
        /\ cmds \in Seq(Cmd) /\ log \in Seq(Cmd) /\ log' \in Seq(Cmd)
    BY <2>1, BatchesAssumption
       DEF Submit, WalAppend, disk, Durable, DurInv, LogInv, WalTypeOK
  <2>3. Len(log') = Len(log) + Len(cmds) /\ \A j \in 1 .. Len(log) : log'[j] = log[j]
    BY <2>2, JoinFacts
  <2>4. Len(log) <= Len(log') /\ \A j \in 1 .. Len(log) : log[j] = log'[j]
    BY <1>t, <2>2, <2>3
  <2>5. log = SubSeq(log', 1, Len(log))
    BY <2>2, <2>4, PrefixFacts
  <2>6. DL!Extend
    BY <2>2, <2>4, <2>5 DEF DL!Extend
  <2> QED
    BY <2>6 DEF DL!Next
<1>2. CASE WriterStep
  <2>1. log' = log /\ promised' = promised
    BY <1>2 DEF WriterStep, WriterTake, WriterEncode, WriterFlush, WriterSync, WriterSkip,
                WriterPublish, WriterBroadcast, WriterError, Fail
  <2>2. Durable <= Durable' /\ Len(file') <= Len(log)
    BY <1>2, WriterDisk DEF DurInv, Published, FileStep
  <2>3. Durable' \in Durable .. Len(log)
    BY <1>t, <2>2
  <2>4. DL!Harden
    BY <2>1, <2>3 DEF DL!Harden
  <2> QED
    BY <2>4 DEF DL!Next
<1>3. CASE ReaperStep
  <2>1. log' = log /\ Durable' = Durable
    BY <1>3 DEF ReaperStep, ReaperTake, WaitCheck, WaitEnlist, ReaperRespond, disk, Durable
  <2>2. promised <= promised' /\ promised' <= Durable'
    BY <1>3, ReaperPublished DEF DurInv, Published
  <2>3. promised' \in promised .. Durable
    BY <1>t, <2>1, <2>2
  <2>4. DL!Promise
    BY <2>1, <2>3 DEF DL!Promise
  <2> QED
    BY <2>4 DEF DL!Next
<1>4. CASE CrashStep /\ LoseMemory
  <2>1. log' = file' /\ promised' = promised
    BY <1>4 DEF LoseMemory
  <2>2. FileStep /\ Durable <= Durable'
    BY <1>4, CrashDisk DEF DurInv, Published
  <2>3. log' = SubSeq(log, 1, Len(file'))
    BY <2>1, <2>2, PrefixFacts DEF FileStep, DurInv, LogInv, WalTypeOK
  <2>4. Len(file') \in Durable .. Len(log) /\ Durable' \in Durable .. Len(file')
    BY <1>t, <2>2 DEF FileStep
  <2>5. DL!Crash
    BY <2>1, <2>3, <2>4 DEF DL!Crash
  <2> QED
    BY <2>5 DEF DL!Next
<1>5. CASE Restart \/ UNCHANGED walVars
  <2>1. UNCHANGED <<log, Durable, promised>>
    BY <1>5 DEF Restart, walVars, disk, Durable
  <2> QED
    BY <2>1 DEF DL!dlVars
<1> QED
  BY Zenon, <1>1, <1>2, <1>3, <1>4, <1>5
     DEF WalNext, CrashStep, CrashProcess, CrashPower, Close

\* The WAL, with its goroutines, buffer, disk faults, crashes and restarts,
\* implements DurableLog: a log of which a growing prefix is durable, of
\* which only durable positions are promised and that a crash never cuts
\* inside its durable prefix.
THEOREM RefinesDurableLog ==
  ASSUME Protected
  PROVE  WalSpec => ImplementsDurableLog
<1>1. WalInit => DL!Init
  <2> SUFFICES ASSUME WalInit PROVE DL!Init
    OBVIOUS
  <2>1. Durable = 0
    BY EmptyFacts DEF WalInit, Durable
  <2> QED
    BY <2>1 DEF WalInit, DL!Init
<1>2. DurInv /\ DurInv' /\ [WalNext]_walVars => [DL!Next]_(DL!dlVars)
  BY StepRefines
<1>3. WalSpec => []DurInv
  BY InitDur, StepDur, PTL DEF WalSpec
<1> QED
  BY <1>1, <1>2, <1>3, PTL DEF WalSpec, ImplementsDurableLog, DL!Spec
===============================================================================
