--------------------------- MODULE WritePathProofs ---------------------------
(***************************************************************************)
(* Acknowledged writes are on a quorum (AckedOnQuorum) and, while          *)
(* placement and members are steady, on a majority of the placement's      *)
(* nodes (AckedOnMajority), up to the nodes that dropped them or that are  *)
(* behind a failed stream, for any nodes, calls, placements and numbers of *)
(* epochs, drops and failures.                                             *)
(***************************************************************************)
EXTENDS WritePath, FiniteSetTheorems, TLAPS

\* The nodes the call counts acks of: its own, and the replicas it resolved.
Asked(c) == {call[c].node}
              \cup (IF call[c].resolved = 0 THEN {}
                    ELSE placements[call[c].resolved].replicas)

\* The peers whose stream has failed.
Failed(c) == {n \in Node : <<call[c].node, n>> \in broken}

\* The nodes whose acks can have been counted.
Counted(c) == ((appliedAt[c] \cup Failed(c)) \cap Asked(c)) \ call[c].remaining

\* A call has reached no store before its local write.
Untouched(c) ==
  call[c].pc \in {"idle", "rejected", "local"} =>
     appliedAt[c] = {} /\ \A n \in Node : <<c, n>> \notin sent

\* A store that applied a command has it or a newer one, or a drop took it.
Accounted(c) ==
  \A n \in appliedAt[c] : \/ held[n].version >= call[c].version /\ held[n].by # "drop"
                          \/ <<c, n>> \in dropped

Replicating == {"resolve", "refreshed", "wait", "ok"}

\* The acks counted are those of distinct nodes that applied the command, or
\* that are behind a failed stream.
AcksReal(c) ==
  /\ call[c].pc = "quorum" \/ call[c].pc \in Replicating => call[c].node \in appliedAt[c]
  /\ call[c].pc \in Replicating =>
       /\ call[c].remaining \subseteq Asked(c) \ {call[c].node}
       /\ call[c].acks <= Cardinality(Counted(c))
       /\ call[c].viewed \in MemberCounts
       /\ call[c].required = Required(call[c].viewed)
  /\ call[c].pc \in {"local", "quorum", "resolve", "refreshed"} =>
       call[c].resolved = 0 /\ call[c].remaining = {}
  /\ call[c].pc = "ok" => call[c].acks >= call[c].required

\* The epoch of the ownership check is one whose owner is the node.
OwnerChecked(c) ==
  call[c].checked # 0 => placements[call[c].checked].owner = call[c].node

CallInv(c) == Untouched(c) /\ Accounted(c) /\ AcksReal(c) /\ OwnerChecked(c)

PathInv == PathTypeOK /\ \A c \in Call : CallInv(c)

-------------------------------------------------------------------------------
(* Types *)

CallRecord == [pc : PC, node : Node, op : {"put", "delete"}, version : Nat,
               checked : 0 .. Len(placements), resolved : 0 .. Len(placements),
               viewed : Nat, required : Nat, acks : Nat, remaining : SUBSET Node]

LEMMA RequiredType == \A members \in Nat : Required(members) \in Nat /\ Required(members) >= 1
BY PlacementAssumption DEF Required, EffectiveRF

\* A committed placement keeps the epochs that were there before.
LEMMA CommitKeeps ==
  ASSUME NEW p \in Placements, PathTypeOK, Commit(p)
  PROVE  /\ placements' \in Seq(Placements)
         /\ Len(placements') = Len(placements) + 1
         /\ \A e \in 1 .. Len(placements) : placements'[e] = placements[e]
BY DEF PathTypeOK, Commit

LEMMA NewCallType ==
  ASSUME NEW n \in Node, NEW pc \in PC, NEW op \in {"put", "delete"}
  PROVE  /\ NewCall(n, pc, op).pc = pc
         /\ NewCall(n, pc, op).node = n
         /\ NewCall(n, pc, op).version = 0
         /\ NewCall(n, pc, op).checked = 0
         /\ NewCall(n, pc, op).resolved = 0
         /\ NewCall(n, pc, op).remaining = {}
         /\ PathTypeOK => NewCall(n, pc, op) \in CallRecord
BY DEF NewCall, CallRecord, PathTypeOK

LEMMA TypeInit == PathInit => PathTypeOK
<1> SUFFICES ASSUME PathInit PROVE PathTypeOK
  OBVIOUS
<1>1. (CHOOSE n \in Node : TRUE) \in Node
  BY NodeAssumption
<1> QED
  BY <1>1 DEF PathInit, PathTypeOK, NewCall, PC, NoEntry, Entry

\* The steps of one call leave placements alone and put a record of the
\* right type in its place.
LEMMA CallType ==
  ASSUME PathTypeOK, NEW c \in Call, CallStep(c)
  PROVE  /\ call' \in [Call -> CallRecord]
         /\ UNCHANGED <<placements, epoch, versionCounter, broken, jobs>>
<1>1. /\ call \in [Call -> CallRecord]
      /\ call[c] \in CallRecord
      /\ epoch[call[c].node] \in 0 .. Len(placements)
      /\ "error" \in PC
  BY DEF PathTypeOK, CallRecord, PC
<1>2. ASSUME ReturnError(c) PROVE call' \in [Call -> CallRecord]
  <2>1. NewCall(call[c].node, "error", call[c].op) \in CallRecord
    BY <1>1, NewCallType DEF CallRecord
  <2>2. [NewCall(call[c].node, "error", call[c].op) EXCEPT !.version = call[c].version]
          \in CallRecord
    BY Zenon, <2>1, <1>1 DEF CallRecord
  <2> QED
    BY <1>1, <1>2, <2>2 DEF ReturnError
<1>3. ASSUME NEW pc \in PC, SetPC(c, pc) PROVE call' \in [Call -> CallRecord]
  BY Zenon, <1>1, <1>3 DEF SetPC, CallRecord
<1>4. CASE LocalWrite(c)
  BY <1>2, <1>3, <1>4 DEF LocalWrite, PC
<1>5. CASE Quorum(c)
  <2>1. PICK members \in MemberCounts :
          call' = [call EXCEPT ![c].viewed = members,
                               ![c].required = Required(members),
                               ![c].acks = 1,
                               ![c].pc = IF 1 >= Required(members) THEN "ok" ELSE "resolve"]
    BY Zenon, <1>5 DEF Quorum
  <2>2. members \in Nat /\ Required(members) \in Nat
    BY MemberAssumption, RequiredType
  <2> QED
    BY Zenon, <1>1, <1>5, <2>1, <2>2 DEF Quorum, CallRecord, PC
<1>6. CASE Resolve(c)
  <2>1. Targets(call[c].node) \subseteq Node
    BY <1>1, PlacementAssumption DEF Targets, PathTypeOK, Placement
  <2>2. ASSUME SubmitTasks(c, Targets(call[c].node)) PROVE call' \in [Call -> CallRecord]
    <3>1. CASE ReturnError(c)
      BY <1>2, <3>1
    <3>2. CASE call' = [call EXCEPT ![c].pc = "wait",
                                    ![c].remaining = Targets(call[c].node),
                                    ![c].resolved = epoch[call[c].node]]
      BY Zenon, <1>1, <2>1, <3>2 DEF CallRecord, PC
    <3> QED
      BY <2>2, <3>1, <3>2 DEF SubmitTasks
  <2> QED
    BY <1>2, <1>3, <1>6, <2>2 DEF Resolve, PC
<1>7. ASSUME NEW n \in Node, NEW acks \in Nat, Take(c, n, acks)
      PROVE  call' \in [Call -> CallRecord] /\ UNCHANGED <<placements, epoch, versionCounter, broken, jobs>>
  <2>1. \/ ReturnError(c)
        \/ call' = [call EXCEPT ![c].acks = acks, ![c].remaining = {}, ![c].pc = "ok"]
        \/ call' = [call EXCEPT ![c].acks = acks,
                               ![c].remaining = call[c].remaining \ {n}]
    BY <1>7 DEF Take
  <2>2. call[c].remaining \ {n} \in SUBSET Node
    BY <1>1 DEF CallRecord
  <2>3. ASSUME call' = [call EXCEPT ![c].acks = acks, ![c].remaining = {}, ![c].pc = "ok"]
        PROVE  call' \in [Call -> CallRecord]
    BY Zenon, <1>1, <2>3 DEF CallRecord, PC
  <2>4. ASSUME call' = [call EXCEPT ![c].acks = acks,
                                    ![c].remaining = call[c].remaining \ {n}]
        PROVE  call' \in [Call -> CallRecord]
    BY Zenon, <1>1, <2>2, <2>4 DEF CallRecord, PC
  <2> QED
    BY <1>2, <1>7, <2>1, <2>3, <2>4 DEF Take
<1>8. ASSUME NEW n \in Node, TakeOk(c, n) \/ TakeError(c, n)
      PROVE  call' \in [Call -> CallRecord] /\ UNCHANGED <<placements, epoch, versionCounter, broken, jobs>>
  <2>1. call[c].acks \in Nat /\ call[c].acks + 1 \in Nat
    BY <1>1 DEF CallRecord
  <2> QED
    BY <1>7, <1>8, <2>1 DEF TakeOk, TakeError
<1>9. CASE Timeout(c)
  BY <1>2, <1>9 DEF Timeout
<1> QED
  BY <1>4, <1>5, <1>6, <1>8, <1>9 DEF CallStep, HandlerStep

LEMMA StartType ==
  ASSUME PathTypeOK, NEW c \in Call, NEW n \in Node, NEW op \in {"put", "delete"},
         Start(c, n, op)
  PROVE  call' \in [Call -> CallRecord] /\ versionCounter' \in [Node -> Nat]
<1>1. /\ call \in [Call -> CallRecord]
      /\ epoch[n] \in 0 .. Len(placements)
      /\ versionCounter \in [Node -> Nat]
      /\ {"local", "rejected"} \subseteq PC
  BY DEF PathTypeOK, CallRecord, PC
<1>2. NewCall(n, "local", op) \in CallRecord /\ NewCall(n, "rejected", op) \in CallRecord
  BY <1>1, NewCallType
<1>3. ASSUME NEW v \in versionCounter[n] + 1 .. MaxVersion
      PROVE  v \in Nat /\ [NewCall(n, "local", op) EXCEPT !.version = v, !.checked = epoch[n]]
                            \in CallRecord
  <2>1. v \in Nat
    BY <1>1, PathBoundAssumption
  <2> QED
    BY Zenon, <1>1, <1>2, <2>1 DEF CallRecord
<1> QED
  BY Zenon, <1>1, <1>2, <1>3 DEF Start

\* Apply keeps the types of what it changes.
LEMMA ApplyType ==
  ASSUME PathTypeOK, NEW n \in Node, NEW entry \in Entry,
         NEW applied \in [Call -> SUBSET Node], Apply(n, entry, applied)
  PROVE  /\ held' \in [Node -> Entry]
         /\ appliedAt' \in [Call -> SUBSET Node]
         /\ dropped' \subseteq Call \X Node
<1>1. At(n, applied) \subseteq Call \X Node
  BY DEF At
<1>2. held[n] \in Entry
  BY DEF PathTypeOK
<1> QED
  BY SMTT(30), <1>1, <1>2 DEF PathTypeOK, Apply

\* A command's entry, and what is applied after it was.
LEMMA ApplyCallType ==
  ASSUME PathTypeOK, NEW c \in Call, NEW n \in Node
  PROVE  /\ [version |-> call[c].version, by |-> call[c].op] \in Entry
         /\ [appliedAt EXCEPT ![c] = @ \cup {n}] \in [Call -> SUBSET Node]
BY DEF PathTypeOK, Entry

\* What the steps of a call do to stores and tasks.
LEMMA CallEffect ==
  ASSUME PathTypeOK, NEW c \in Call, CallStep(c)
  PROVE  /\ UNCHANGED storeVars \/ ApplyCall(c, call[c].node)
         /\ sent' \subseteq Call \X Node
         /\ \A d \in Call \ {c} : /\ call'[d] = call[d]
                                  /\ \A n \in Node : <<d, n>> \in sent' => <<d, n>> \in sent
<1>1. /\ call \in [Call -> CallRecord]
      /\ call[c].node \in Node
      /\ sent \subseteq Call \X Node
  BY DEF PathTypeOK, CallRecord
<1>2. ASSUME ReturnError(c) PROVE \A d \in Call \ {c} : call'[d] = call[d]
  BY <1>1, <1>2 DEF ReturnError
<1>3. ASSUME NEW pc, SetPC(c, pc) PROVE \A d \in Call \ {c} : call'[d] = call[d]
  BY <1>1, <1>3 DEF SetPC
<1>4. CASE LocalWrite(c)
  <2>1. CASE ApplyCall(c, call[c].node) /\ SetPC(c, "quorum") /\ UNCHANGED sent
    BY <1>1, <1>3, <2>1
  <2>2. CASE sent' = sent \cup {<<c, call[c].node>>} /\ ReturnError(c) /\ UNCHANGED storeVars
    BY <1>1, <1>2, <2>2
  <2> QED
    BY <1>4, <2>1, <2>2 DEF LocalWrite
<1>5. CASE Quorum(c)
  BY <1>1, <1>5 DEF Quorum
<1>6. CASE Resolve(c)
  <2>1. Targets(call[c].node) \subseteq Node
    BY <1>1, PlacementAssumption DEF Targets, PathTypeOK, Placement
  <2>2. ASSUME SubmitTasks(c, Targets(call[c].node))
        PROVE  /\ sent' \subseteq Call \X Node
               /\ \A d \in Call \ {c} : /\ call'[d] = call[d]
                                        /\ \A n \in Node : <<d, n>> \in sent' => <<d, n>> \in sent
    <3>1. CASE ReturnError(c) /\ UNCHANGED sent
      BY <1>1, <1>2, <3>1
    <3>2. CASE /\ call' = [call EXCEPT ![c].pc = "wait",
                                       ![c].remaining = Targets(call[c].node),
                                       ![c].resolved = epoch[call[c].node]]
               /\ \E accepted \in SUBSET Targets(call[c].node) :
                     sent' = sent \cup ({c} \X accepted)
      BY <1>1, <2>1, <3>2
    <3> QED
      BY <2>2, <3>1, <3>2 DEF SubmitTasks
  <2>3. ASSUME ReturnError(c) \/ SetPC(c, "refreshed"), UNCHANGED sent
        PROVE  /\ sent' \subseteq Call \X Node
               /\ \A d \in Call \ {c} : /\ call'[d] = call[d]
                                        /\ \A n \in Node : <<d, n>> \in sent' => <<d, n>> \in sent
    BY <1>1, <1>2, <1>3, <2>3
  <2> QED
    BY <1>6, <2>2, <2>3 DEF Resolve
<1>7. ASSUME NEW n \in Node, NEW acks, Take(c, n, acks)
      PROVE  (\A d \in Call \ {c} : call'[d] = call[d]) /\ UNCHANGED <<storeVars, sent>>
  <2>1. \/ ReturnError(c)
        \/ call' = [call EXCEPT ![c].acks = acks, ![c].remaining = {}, ![c].pc = "ok"]
        \/ call' = [call EXCEPT ![c].acks = acks,
                               ![c].remaining = call[c].remaining \ {n}]
    BY <1>7 DEF Take
  <2>2. UNCHANGED <<storeVars, sent>>
    BY <1>7 DEF Take
  <2> QED
    BY <1>1, <1>2, <2>1, <2>2
<1>8. CASE \E n \in Node : TakeOk(c, n) \/ TakeError(c, n)
  BY <1>1, <1>7, <1>8 DEF TakeOk, TakeError
<1>9. CASE Timeout(c)
  BY <1>1, <1>2, <1>9 DEF Timeout
<1> QED
  BY <1>4, <1>5, <1>6, <1>8, <1>9 DEF CallStep, HandlerStep

LEMMA ArriveType ==
  ASSUME PathTypeOK, NEW c \in Call, NEW n \in Node, Arrive(c, n)
  PROVE  PathTypeOK'
<1>1. /\ held' \in [Node -> Entry]
      /\ appliedAt' \in [Call -> SUBSET Node]
      /\ dropped' \subseteq Call \X Node
  BY ApplyCallType, ApplyType DEF Arrive, ApplyCall
<1>2. sent' \subseteq Call \X Node
  BY DEF Arrive, PathTypeOK
<1> QED
  BY Zenon, <1>1, <1>2 DEF Arrive, PathTypeOK

\* The jobs a placement starts.
LEMMA JobsForType ==
  ASSUME PathTypeOK, NEW n \in Node, NEW old \in 1 .. Len(placements),
         NEW new \in 1 .. Len(placements)
  PROVE  JobsFor(n, old, new) \subseteq Job
<1>1. /\ Group(old) \subseteq Node /\ Group(new) \subseteq Node
      /\ new \in Nat /\ NoEntry \in Entry
  BY PlacementAssumption DEF Group, PathTypeOK, Placement, NoEntry, Entry
<1>2. /\ NewJob(n, new, "grace", {}) \in Job
      /\ \A from \in SUBSET Node : NewJob(n, new, "fetch", from) \in Job
  BY <1>1 DEF NewJob, Job
<1>3. (Group(old) \cup Group(new)) \ {n} \in SUBSET Node /\ Group(new) \ {n} \in SUBSET Node
  BY <1>1
<1> QED
  BY <1>2, <1>3 DEF JobsFor

\* A step of a job changes the stores with Apply, or erases the key of its node.
LEMMA JobEffect ==
  ASSUME PathTypeOK, NEW j \in jobs, JobStep(j)
  PROVE  /\ jobs' \subseteq Job
         /\ versionCounter' \in [Node -> Nat]
         /\ j \in Job
         /\ UNCHANGED <<placements, epoch, sent, broken, call>>
         /\ \/ UNCHANGED storeVars
            \/ Apply(j.node, j.entry, appliedAt)
            \/ DropErase(j)
<1>1. /\ j \in Job /\ jobs \subseteq Job
      /\ versionCounter \in [Node -> Nat] /\ held \in [Node -> Entry]
  BY DEF PathTypeOK
<1>2. ASSUME End(j) PROVE jobs' \subseteq Job
  BY <1>1, <1>2 DEF End
<1>3. ASSUME NEW next \in Job, Continue(j, next) PROVE jobs' \subseteq Job
  BY <1>1, <1>3 DEF Continue
<1>4. ASSUME Retry(j) PROVE jobs' \subseteq Job
  <2>1. [j EXCEPT !.pc = "fetch"] \in Job
    BY <1>1 DEF Job
  <2> QED
    BY <1>2, <1>3, <1>4, <2>1 DEF Retry
<1>5. CASE Fetch(j)
  <2>1. PICK src \in j.from :
          LET asked == [j EXCEPT !.from = @ \ {src}]
          IN \/ Continue(j, [asked EXCEPT !.pc = "copy", !.entry = held[src]])
             \/ End(j)
             \/ Continue(j, asked)
    BY Zenon, <1>5 DEF Fetch
  <2>2. src \in Node /\ held[src] \in Entry
    BY <1>1, <2>1 DEF Job
  <2>3. [j EXCEPT !.from = @ \ {src}] \in Job
    BY <1>1 DEF Job
  <2>4. [[j EXCEPT !.from = @ \ {src}] EXCEPT !.pc = "copy", !.entry = held[src]] \in Job
    BY Zenon, <2>2, <2>3 DEF Job
  <2>5. jobs' \subseteq Job
    BY <1>2, <1>3, <2>1, <2>3, <2>4
  <2> QED
    BY <1>1, <1>5, <2>5 DEF Fetch
<1>6. CASE CopyEntry(j)
  BY <1>1, <1>2, <1>4, <1>6 DEF CopyEntry
<1>7. CASE DropList(j)
  <2>1. [j EXCEPT !.pc = IF held[j.node].by = "put" THEN "listed" ELSE "erase"] \in Job
    BY <1>1 DEF Job
  <2> QED
    BY <1>1, <1>3, <1>7, <2>1 DEF DropList
<1>8. CASE DropVersion(j)
  <2>1. PICK v \in versionCounter[j.node] + 1 .. MaxVersion :
          /\ versionCounter' = [versionCounter EXCEPT ![j.node] = v]
          /\ Continue(j, [j EXCEPT !.pc = "delete", !.entry = [version |-> v, by |-> "drop"]])
    BY Zenon, <1>8 DEF DropVersion
  <2>2. v \in Nat
    <3>1. versionCounter[j.node] \in Nat
      BY <1>1 DEF Job
    <3> QED
      BY <3>1, PathBoundAssumption
  <2>3. [version |-> v, by |-> "drop"] \in Entry
    BY <2>2 DEF Entry
  <2>4. [j EXCEPT !.pc = "delete", !.entry = [version |-> v, by |-> "drop"]] \in Job
    BY Zenon, <1>1, <2>3 DEF Job
  <2>5. jobs' \subseteq Job /\ versionCounter' \in [Node -> Nat]
    BY Zenon, <1>1, <1>3, <2>1, <2>2, <2>4
  <2> QED
    BY <1>1, <1>8, <2>5 DEF DropVersion
<1>9. CASE DropDelete(j)
  <2>1. [j EXCEPT !.pc = "erase"] \in Job
    BY <1>1 DEF Job
  <2> QED
    BY <1>1, <1>2, <1>3, <1>9, <2>1 DEF DropDelete
<1>10. CASE DropErase(j)
  BY <1>1, <1>2, <1>10 DEF DropErase
<1> QED
  BY <1>5, <1>6, <1>7, <1>8, <1>9, <1>10 DEF JobStep

LEMMA JobType ==
  ASSUME PathTypeOK, NEW j \in jobs, JobStep(j)
  PROVE  PathTypeOK'
<1>1. /\ jobs' \subseteq Job
      /\ versionCounter' \in [Node -> Nat]
      /\ j.node \in Node /\ j.entry \in Entry
      /\ UNCHANGED <<placements, epoch, sent, broken, call>>
  BY JobEffect DEF Job
<1>2. /\ held' \in [Node -> Entry]
      /\ appliedAt' \in [Call -> SUBSET Node]
      /\ dropped' \subseteq Call \X Node
  <2>1. CASE UNCHANGED storeVars
    BY <2>1 DEF storeVars, PathTypeOK
  <2>2. CASE Apply(j.node, j.entry, appliedAt)
    <3>1. appliedAt \in [Call -> SUBSET Node]
      BY DEF PathTypeOK
    <3> QED
      BY <1>1, <2>2, <3>1, ApplyType
  <2>3. CASE DropErase(j)
    <3>1. At(j.node, appliedAt) \subseteq Call \X Node /\ NoEntry \in Entry
      BY <1>1 DEF At, NoEntry, Entry
    <3> QED
      BY Zenon, <2>3, <3>1 DEF DropErase, PathTypeOK
  <2> QED
    BY <2>1, <2>2, <2>3, JobEffect
<1> QED
  BY Zenon, <1>1, <1>2 DEF PathTypeOK

LEMMA TypeStep == PathTypeOK /\ [PathNext]_pathVars => PathTypeOK'
<1> SUFFICES ASSUME PathTypeOK, [PathNext]_pathVars PROVE PathTypeOK'
  OBVIOUS
<1>1. ASSUME NEW p \in Placements, Commit(p) PROVE PathTypeOK'
  <2>1. /\ placements' \in Seq(Placements)
        /\ Len(placements) \in Nat
        /\ Len(placements') = Len(placements) + 1
        /\ UNCHANGED <<epoch, versionCounter, storeVars, sent, broken, jobs, call>>
    BY <1>1, CommitKeeps DEF Commit, PathTypeOK
  <2>2. 0 .. Len(placements) \subseteq 0 .. Len(placements')
    BY <2>1
  <2>3. epoch' \in [Node -> 0 .. Len(placements')]
    BY <2>1, <2>2 DEF PathTypeOK
  <2>4. CallRecord \subseteq CallRecord'
    BY <2>2 DEF CallRecord
  <2>5. call \in [Call -> CallRecord]
    BY DEF PathTypeOK, CallRecord
  <2>6. call' \in [Call -> CallRecord']
    BY <2>1, <2>4, <2>5
  <2> QED
    BY Zenon, <2>1, <2>3, <2>6 DEF PathTypeOK, CallRecord, storeVars
<1>2. ASSUME NEW n \in Node, NEW e \in 1 .. Len(placements), Install(n, e) PROVE PathTypeOK'
  <2>1. epoch' \in [Node -> 0 .. Len(placements)]
    BY <1>2 DEF Install, PathTypeOK
  <2>2. jobs' \subseteq Job
    <3>1. epoch[n] # 0 => epoch[n] \in 1 .. Len(placements)
      BY DEF PathTypeOK
    <3>2. epoch[n] # 0 => JobsFor(n, epoch[n], e) \subseteq Job
      BY <3>1, JobsForType
    <3> QED
      BY <1>2, <3>2 DEF Install, PathTypeOK
  <2> QED
    BY Zenon, <1>2, <2>1, <2>2 DEF Install, PathTypeOK, storeVars
<1>3. ASSUME NEW c \in Call, NEW n \in Node, NEW op \in {"put", "delete"}, Start(c, n, op)
      PROVE  PathTypeOK'
  <2>1. call' \in [Call -> CallRecord] /\ versionCounter' \in [Node -> Nat]
    BY <1>3, StartType
  <2> QED
    BY Zenon, <1>3, <2>1 DEF Start, PathTypeOK, CallRecord, storeVars
<1>4. ASSUME NEW c \in Call, CallStep(c) PROVE PathTypeOK'
  <2>1. /\ call' \in [Call -> CallRecord]
        /\ UNCHANGED <<placements, epoch, versionCounter, broken, jobs>>
    BY <1>4, CallType
  <2>2. sent' \subseteq Call \X Node
    BY <1>4, CallEffect
  <2>3. /\ held' \in [Node -> Entry]
        /\ appliedAt' \in [Call -> SUBSET Node]
        /\ dropped' \subseteq Call \X Node
    <3>1. CASE UNCHANGED storeVars
      BY <3>1 DEF storeVars, PathTypeOK
    <3>2. CASE ApplyCall(c, call[c].node)
      <4>1. call[c].node \in Node
        BY DEF PathTypeOK
      <4> QED
        BY <3>2, <4>1, ApplyCallType, ApplyType DEF ApplyCall
    <3> QED
      BY <1>4, <3>1, <3>2, CallEffect
  <2> QED
    BY Zenon, <2>1, <2>2, <2>3 DEF PathTypeOK, CallRecord
<1>6. ASSUME NEW m \in Node, NEW n \in Node, BreakStream(m, n) PROVE PathTypeOK'
  <2>1. broken' \subseteq Node \X Node
    BY <1>6 DEF BreakStream, PathTypeOK
  <2>2. UNCHANGED <<placements, epoch, versionCounter, held, appliedAt, dropped, sent, jobs, call>>
    BY <1>6 DEF BreakStream, storeVars
  <2> QED
    BY Zenon, <2>1, <2>2 DEF PathTypeOK
<1>5. CASE UNCHANGED pathVars
  BY Zenon, <1>5 DEF pathVars, storeVars, PathTypeOK
<1> QED
  BY <1>1, <1>2, <1>3, <1>4, <1>5, <1>6, ArriveType, JobType DEF PathNext, Put, Delete

\* The model's state keeps its type.
THEOREM PathTypeCorrect == PathSpec => []PathTypeOK
BY TypeInit, TypeStep, PTL DEF PathSpec

-------------------------------------------------------------------------------
(* The invariant *)

\* Sets of nodes are finite, and larger sets count more.
LEMMA NodeSets ==
  ASSUME NEW T \in SUBSET Node
  PROVE  /\ IsFiniteSet(T) /\ Cardinality(T) \in Nat
         /\ \A S \in SUBSET T : Cardinality(S) <= Cardinality(T)
<1>1. IsFiniteSet(T)
  BY NodeAssumption, FS_Subset
<1> QED
  BY <1>1, FS_Subset, FS_CardinalityType

LEMMA CountedType ==
  ASSUME PathTypeOK, NEW c \in Call PROVE Counted(c) \in SUBSET Node
BY DEF Counted, Failed, PathTypeOK

\* What n applied is accounted for when it applies another entry, of a
\* command d or not.
LEMMA ApplyAccounts ==
  ASSUME PathTypeOK, NEW n \in Node, NEW entry \in Entry,
         NEW applied \in [Call -> SUBSET Node], Apply(n, entry, applied),
         NEW d \in Call, Accounted(d), call'[d].version = call[d].version,
         \A m \in applied[d] : \/ m \in appliedAt[d]
                               \/ m = n /\ entry.version = call[d].version
  PROVE  Accounted(d)'
<1>1. /\ held[n] \in Entry /\ call[d].version \in Nat
      /\ appliedAt[d] \in SUBSET Node /\ applied[d] \in SUBSET Node
      /\ held \in [Node -> Entry]
  BY DEF PathTypeOK
<1>2. appliedAt' = applied
  BY DEF Apply
<1> SUFFICES ASSUME NEW m \in applied[d]
             PROVE  \/ held'[m].version >= call[d].version /\ held'[m].by # "drop"
                    \/ <<d, m>> \in dropped'
  BY <1>2 DEF Accounted
<1>3. m \in Node /\ dropped \subseteq dropped'
  BY <1>1 DEF Apply
<1>4. CASE m # n
  <2>1. held'[m] = held[m] /\ m \in appliedAt[d]
    BY <1>1, <1>3, <1>4 DEF Apply
  <2> QED
    BY <1>3, <2>1 DEF Accounted
<1>5. CASE m = n
  <2> DEFINE newest == IF entry.version < held[n].version THEN held[n] ELSE entry
  <2>1. held'[n] = newest
    BY <1>1 DEF Apply
  <2>2. CASE newest.by = "drop"
    <3>1. <<d, n>> \in At(n, applied)
      BY <1>5 DEF At
    <3>2. dropped' = dropped \cup At(n, applied)
      BY <2>2 DEF Apply
    <3> QED
      BY <1>5, <3>1, <3>2
  <2>3. CASE newest.by # "drop"
    <3>1. /\ entry.version \in Nat /\ held[n].version \in Nat
          /\ newest.version >= entry.version /\ newest.version >= held[n].version
      BY <1>1 DEF Entry
    <3>2. CASE entry.version = call[d].version
      BY <1>5, <2>1, <2>3, <3>1, <3>2
    <3>3. CASE n \in appliedAt[d]
      <4>1. held[n].version >= call[d].version \/ <<d, n>> \in dropped
        BY <3>3 DEF Accounted
      <4>2. held[n].version >= call[d].version => newest.version >= call[d].version
        BY <1>1, <3>1 DEF Entry
      <4> QED
        BY <1>3, <1>5, <2>1, <2>3, <4>1, <4>2
    <3> QED
      BY <1>5, <3>2, <3>3
  <2> QED
    BY <2>2, <2>3
<1> QED
  BY <1>4, <1>5

LEMMA EraseAccounts ==
  ASSUME PathTypeOK, NEW j \in Job, DropErase(j), NEW d \in Call, Accounted(d)
  PROVE  Accounted(d)'
<1>1. /\ UNCHANGED <<appliedAt, call>>
      /\ held' = [held EXCEPT ![j.node] = NoEntry]
      /\ dropped' = dropped \cup At(j.node, appliedAt)
      /\ appliedAt[d] \in SUBSET Node /\ held \in [Node -> Entry]
  BY DEF DropErase, PathTypeOK
<1> SUFFICES ASSUME NEW m \in appliedAt[d]
             PROVE  \/ held'[m].version >= call[d].version /\ held'[m].by # "drop"
                    \/ <<d, m>> \in dropped'
  BY <1>1 DEF Accounted
<1>2. CASE m = j.node
  BY <1>1, <1>2 DEF At
<1>3. CASE m # j.node
  <2>1. held'[m] = held[m]
    BY <1>1, <1>3
  <2> QED
    BY <1>1, <2>1 DEF Accounted
<1> QED
  BY <1>2, <1>3

\* Stores and commands that stay as they are.
LEMMA StillAccounted ==
  ASSUME NEW d \in Call, Accounted(d), UNCHANGED storeVars,
         call'[d].version = call[d].version
  PROVE  Accounted(d)'
BY DEF Accounted, storeVars

\* A call keeps its part of the invariant when its record stays and nothing
\* but its own tasks arrive.
LEMMA Kept ==
  ASSUME PathTypeOK, PathTypeOK', NEW c \in Call, CallInv(c),
         call'[c] = call[c],
         appliedAt[c] \subseteq appliedAt'[c],
         call[c].pc \in {"idle", "rejected", "local"} =>
            appliedAt'[c] = appliedAt[c] /\ \A n \in Node : <<c, n>> \in sent' => <<c, n>> \in sent,
         Accounted(c)',
         broken \subseteq broken',
         \A e \in 1 .. Len(placements) : placements'[e] = placements[e]
  PROVE  CallInv(c)'
<1>1. /\ call[c] \in CallRecord
      /\ appliedAt'[c] \in SUBSET Node
  BY DEF PathTypeOK, CallRecord
<1>2. Untouched(c)'
  BY DEF CallInv, Untouched
<1>4. Asked(c)' = Asked(c)
  <2>1. call[c].resolved \in 0 .. Len(placements) /\ Len(placements) \in Nat
    BY <1>1 DEF CallRecord, PathTypeOK
  <2>2. call[c].resolved # 0 =>
          placements'[call[c].resolved] = placements[call[c].resolved]
    BY <2>1
  <2> QED
    BY <2>2 DEF Asked
<1>5. Counted(c) \subseteq Counted(c)'
  BY <1>4 DEF Counted, Failed
<1>6. /\ Cardinality(Counted(c)) <= Cardinality(Counted(c)')
      /\ Cardinality(Counted(c)) \in Nat /\ Cardinality(Counted(c)') \in Nat
  <2>1. Counted(c) \in SUBSET Node /\ Counted(c)' \in SUBSET Node
    BY SMTT(30), CountedType, <1>1 DEF Counted, Failed
  <2> QED
    BY <1>5, <2>1, NodeSets
<1>7. AcksReal(c)'
  BY SMTT(30), <1>1, <1>4, <1>6 DEF CallInv, AcksReal, CallRecord
<1>8. OwnerChecked(c)'
  <2>1. call[c].checked \in 0 .. Len(placements) /\ Len(placements) \in Nat
    BY <1>1 DEF CallRecord, PathTypeOK
  <2>2. call[c].checked # 0 =>
          placements'[call[c].checked] = placements[call[c].checked]
    BY <2>1
  <2> QED
    BY SMTT(30), <2>2 DEF CallInv, OwnerChecked
<1> QED
  BY <1>2, <1>7, <1>8 DEF CallInv

\* A call that gave up has nothing to keep but the version of its tasks.
LEMMA ErrorKeeps ==
  ASSUME PathTypeOK, PathTypeOK', NEW c \in Call, CallInv(c), ReturnError(c),
         UNCHANGED storeVars
  PROVE  CallInv(c)'
<1>1. /\ call'[c].pc = "error"
      /\ call'[c].version = call[c].version
      /\ call'[c].checked = 0
  BY DEF PathTypeOK, ReturnError, NewCall
<1>2. Accounted(c)'
  BY <1>1, StillAccounted DEF CallInv
<1> QED
  BY <1>1, <1>2 DEF CallInv, Untouched, AcksReal, Replicating, OwnerChecked

LEMMA StartKeeps ==
  ASSUME PathTypeOK, PathTypeOK', NEW c \in Call, NEW n \in Node, CallInv(c),
         NEW op \in {"put", "delete"}, Start(c, n, op)
  PROVE  CallInv(c)'
<1>1. appliedAt[c] = {} /\ \A m \in Node : <<c, m>> \notin sent
  BY Zenon DEF Start, CallInv, Untouched
<1>2. UNCHANGED <<placements, sent, appliedAt>>
  BY Zenon DEF Start, storeVars
<1>3. Untouched(c)' /\ Accounted(c)'
  BY <1>1, <1>2 DEF Untouched, Accounted
<1>4. /\ call'[c].pc \in {"local", "rejected"}
      /\ call'[c].resolved = 0
      /\ call'[c].remaining = {}
      /\ call'[c].checked # 0 =>
           call'[c].checked = epoch[n] /\ CheckOwnership(n) /\ call'[c].node = n
  <2>1. CASE CheckOwnership(n) /\ \E v \in versionCounter[n] + 1 .. MaxVersion :
               call' = [call EXCEPT ![c] = [NewCall(n, "local", op) EXCEPT
                                              !.version = v, !.checked = epoch[n]]]
    BY <2>1 DEF NewCall, PathTypeOK
  <2>2. CASE call' = [call EXCEPT ![c] = NewCall(n, "rejected", op)]
    <3>1. call'[c] = NewCall(n, "rejected", op) /\ "rejected" \in PC
      BY <2>2 DEF PathTypeOK, PC
    <3> QED
      BY <3>1, NewCallType
  <2> QED
    BY Zenon, <2>1, <2>2 DEF Start
<1>5. AcksReal(c)'
  BY <1>4 DEF AcksReal, Replicating
<1>6. OwnerChecked(c)'
  BY <1>2, <1>4 DEF OwnerChecked, CheckOwnership
<1> QED
  BY <1>3, <1>5, <1>6 DEF CallInv

LEMMA LocalWriteKeeps ==
  ASSUME PathTypeOK, PathTypeOK', NEW c \in Call, CallInv(c), LocalWrite(c)
  PROVE  CallInv(c)'
<1>1. CASE sent' = sent \cup {<<c, call[c].node>>} /\ ReturnError(c) /\ UNCHANGED storeVars
  BY <1>1, ErrorKeeps
<1>2. CASE ApplyCall(c, call[c].node) /\ SetPC(c, "quorum") /\ UNCHANGED sent
  <2> DEFINE entry == [version |-> call[c].version, by |-> call[c].op]
             applied == [appliedAt EXCEPT ![c] = @ \cup {call[c].node}]
  <2>1. /\ call[c].node \in Node
        /\ entry \in Entry /\ applied \in [Call -> SUBSET Node]
        /\ appliedAt[c] = {} /\ applied[c] = {call[c].node}
        /\ Apply(call[c].node, entry, applied)
    BY Zenon, <1>2, ApplyCallType DEF PathTypeOK, LocalWrite, CallInv, Untouched, ApplyCall
  <2>2. appliedAt'[c] = {call[c].node}
    BY <2>1 DEF Apply
  <2>3. /\ call'[c].pc = "quorum"
        /\ call'[c].node = call[c].node
        /\ call'[c].version = call[c].version
        /\ call'[c].checked = call[c].checked
        /\ call'[c].resolved = 0 /\ call'[c].remaining = {}
    BY <1>2 DEF SetPC, PathTypeOK, LocalWrite, CallInv, AcksReal
  <2>4. Accounted(c)'
    <3>1. \A m \in applied[c] : m = call[c].node /\ entry.version = call[c].version
      BY <2>1
    <3>2. Accounted(c)
      BY DEF CallInv
    <3> HIDE DEF entry, applied
    <3> QED
      BY <2>1, <2>3, <3>1, <3>2, ApplyAccounts
  <2>5. Untouched(c)'
    BY <2>3 DEF Untouched
  <2>6. AcksReal(c)'
    BY <2>2, <2>3 DEF AcksReal, Replicating
  <2>7. OwnerChecked(c)'
    BY <2>3 DEF OwnerChecked, LocalWrite, CallInv
  <2> QED
    BY <2>4, <2>5, <2>6, <2>7 DEF CallInv
<1> QED
  BY <1>1, <1>2 DEF LocalWrite

LEMMA QuorumKeeps ==
  ASSUME PathTypeOK, PathTypeOK', NEW c \in Call, CallInv(c), Quorum(c)
  PROVE  CallInv(c)'
<1>1. PICK members \in MemberCounts :
        call' = [call EXCEPT ![c].viewed = members,
                             ![c].required = Required(members),
                             ![c].acks = 1,
                             ![c].pc = IF 1 >= Required(members) THEN "ok" ELSE "resolve"]
  BY Zenon DEF Quorum
<1>2. members \in Nat /\ Required(members) \in Nat
  BY MemberAssumption, RequiredType
<1>3. /\ call'[c].viewed = members
      /\ call'[c].required = Required(members)
      /\ call'[c].acks = 1
      /\ call'[c].pc = IF 1 >= Required(members) THEN "ok" ELSE "resolve"
      /\ call'[c].node = call[c].node
      /\ call'[c].version = call[c].version
      /\ call'[c].checked = call[c].checked
      /\ call'[c].resolved = call[c].resolved
      /\ call'[c].remaining = call[c].remaining
  BY <1>1 DEF PathTypeOK
<1>4. /\ call[c].node \in appliedAt[c]
      /\ call[c].resolved = 0 /\ call[c].remaining = {}
      /\ UNCHANGED <<placements, storeVars, sent>>
  BY DEF Quorum, CallInv, AcksReal
<1>5. Counted(c)' = {call[c].node}
  BY <1>3, <1>4 DEF Counted, Asked, storeVars
<1>6. Cardinality(Counted(c)') = 1
  BY Zenon, <1>5, FS_Singleton
<1>7. AcksReal(c)'
  <2>1. appliedAt' = appliedAt
    BY <1>4 DEF storeVars
  <2>2. call'[c].node \in appliedAt'[c]
    BY <1>3, <1>4, <2>1
  <2>3. call'[c].pc \in {"ok", "resolve"} /\ (call'[c].pc = "ok" => call'[c].acks >= call'[c].required)
    BY <1>3
  <2>4. /\ call'[c].remaining = {} /\ call'[c].resolved = 0
        /\ call'[c].acks <= Cardinality(Counted(c)')
        /\ call'[c].viewed \in MemberCounts
        /\ call'[c].required = Required(call'[c].viewed)
    BY <1>3, <1>4, <1>6
  <2> QED
    BY <2>2, <2>3, <2>4 DEF AcksReal, Replicating
<1>8. Accounted(c)'
  BY <1>3, <1>4, StillAccounted DEF CallInv
<1> QED
  BY <1>3, <1>4, <1>7, <1>8 DEF CallInv, Untouched, OwnerChecked

LEMMA ResolveKeeps ==
  ASSUME PathTypeOK, PathTypeOK', NEW c \in Call, CallInv(c), Resolve(c)
  PROVE  CallInv(c)'
<1>1. /\ call[c].node \in appliedAt[c]
      /\ call[c].node \in Node
      /\ call[c].resolved = 0 /\ call[c].remaining = {}
      /\ call[c].pc \in {"resolve", "refreshed"}
      /\ UNCHANGED <<placements, broken, storeVars>>
      /\ UNCHANGED appliedAt
  BY SMTT(30) DEF Resolve, CallInv, AcksReal, Replicating, PathTypeOK, storeVars
<1>2. CASE ReturnError(c)
  BY <1>1, <1>2, ErrorKeeps
<1>3. CASE SetPC(c, "refreshed")
  <2>1. /\ call'[c].pc = "refreshed"
        /\ call'[c].remaining = call[c].remaining
        /\ call'[c].resolved = call[c].resolved
        /\ call'[c].node = call[c].node
        /\ call'[c].version = call[c].version
        /\ call'[c].checked = call[c].checked
        /\ call'[c].viewed = call[c].viewed
        /\ call'[c].required = call[c].required
        /\ call'[c].acks = call[c].acks
    BY <1>3 DEF SetPC, PathTypeOK
  <2>2. Asked(c)' = Asked(c) /\ Counted(c)' = Counted(c)
    BY SMTT(30), <1>1, <2>1 DEF Asked, Counted, Failed
  <2>3. AcksReal(c)'
    BY Zenon, <1>1, <2>1, <2>2 DEF CallInv, AcksReal, Replicating
  <2>4. Accounted(c)'
    BY SMTT(30), <1>1, <2>1, StillAccounted DEF CallInv
  <2> QED
    BY <1>1, <2>1, <2>3, <2>4 DEF CallInv, Untouched, OwnerChecked
<1>4. CASE /\ Targets(call[c].node) # {}
           /\ call' = [call EXCEPT ![c].pc = "wait",
                                   ![c].remaining = Targets(call[c].node),
                                   ![c].resolved = epoch[call[c].node]]
  <2>1. /\ call'[c].pc = "wait"
        /\ call'[c].remaining = Targets(call[c].node)
        /\ call'[c].resolved = epoch[call[c].node]
        /\ call'[c].node = call[c].node
        /\ call'[c].version = call[c].version
        /\ call'[c].checked = call[c].checked
        /\ call'[c].viewed = call[c].viewed
        /\ call'[c].required = call[c].required
        /\ call'[c].acks = call[c].acks
        /\ call[c].acks \in Nat
    BY <1>4 DEF PathTypeOK
  <2>2. /\ epoch[call[c].node] # 0
        /\ Targets(call[c].node) = placements[epoch[call[c].node]].replicas \ {call[c].node}
    BY SMTT(30), <1>4 DEF Targets
  <2>3. call'[c].remaining \subseteq Asked(c)' \ {call'[c].node}
    BY <1>1, <2>1, <2>2 DEF Asked
  <2>4. Counted(c) = {call[c].node}
    BY <1>1 DEF Counted, Asked
  <2>5. Counted(c)' \in SUBSET Node /\ {call[c].node} \subseteq Counted(c)'
    BY Zenon, <1>1, <2>1, <2>2 DEF Counted, Failed, Asked, PathTypeOK
  <2>6. call'[c].acks <= Cardinality(Counted(c)')
    <3>1. call[c].acks <= Cardinality(Counted(c))
      BY <1>1 DEF CallInv, AcksReal, Replicating
    <3>2. Cardinality(Counted(c)) <= Cardinality(Counted(c)')
          /\ Cardinality(Counted(c)) \in Nat /\ Cardinality(Counted(c)') \in Nat
      BY SMTT(30), <1>1, <2>4, <2>5, NodeSets
    <3> QED
      BY <2>1, <3>1, <3>2
  <2>7. AcksReal(c)'
    BY SMTT(30), <1>1, <2>1, <2>3, <2>6 DEF CallInv, AcksReal, Replicating
  <2>8. Accounted(c)'
    BY <1>1, <2>1, StillAccounted DEF CallInv
  <2> QED
    BY <1>1, <2>1, <2>7, <2>8 DEF CallInv, Untouched, OwnerChecked
<1> QED
  BY <1>2, <1>3, <1>4 DEF Resolve, SubmitTasks

LEMMA TakeKeeps ==
  ASSUME PathTypeOK, PathTypeOK', NEW c \in Call, NEW n \in Node, CallInv(c),
         TakeOk(c, n) \/ TakeError(c, n)
  PROVE  CallInv(c)'
<1>1. PICK acks \in Nat : /\ Take(c, n, acks)
                          /\ acks # call[c].acks =>
                               acks = call[c].acks + 1 /\ n \in appliedAt[c] \cup Failed(c)
  <2>1. call[c] \in CallRecord
    BY DEF PathTypeOK, CallRecord
  <2>2. call[c].acks \in Nat
    BY <2>1 DEF CallRecord
  <2>3. call[c].acks + 1 \in Nat
    BY <2>2
  <2>4. CASE TakeOk(c, n)
    <3>1. n \in appliedAt[c] \cup Failed(c) /\ Take(c, n, call[c].acks + 1)
      BY <2>4 DEF TakeOk, Misattributed, Failed
    <3> WITNESS call[c].acks + 1 \in Nat
    <3> QED
      BY <3>1
  <2>5. CASE TakeError(c, n)
    <3>1. Take(c, n, call[c].acks)
      BY <2>5 DEF TakeError
    <3> WITNESS call[c].acks \in Nat
    <3> QED
      BY <3>1
  <2> QED
    BY <2>4, <2>5
<1>2. /\ call[c].pc = "wait"
      /\ n \in call[c].remaining
      /\ call[c].acks \in Nat
      /\ call[c].required \in Nat
      /\ UNCHANGED <<placements, storeVars, sent, broken>>
      /\ UNCHANGED appliedAt
  BY Zenon, <1>1 DEF Take, PathTypeOK, storeVars
<1>3. CASE ReturnError(c)
  BY SMTT(30), <1>2, <1>3, ErrorKeeps
<1>4. ASSUME call'[c].pc \in {"wait", "ok"},
             call'[c].pc = "ok" => acks >= call[c].required,
             call'[c].acks = acks,
             call'[c].remaining \subseteq call[c].remaining \ {n},
             call'[c].resolved = call[c].resolved,
             call'[c].node = call[c].node,
             call'[c].version = call[c].version,
             call'[c].checked = call[c].checked,
             call'[c].viewed = call[c].viewed,
             call'[c].required = call[c].required
      PROVE  CallInv(c)'
  <2>1. Asked(c)' = Asked(c)
    BY SMTT(30), <1>2, <1>4 DEF Asked
  <2>2. n \in Asked(c) /\ call[c].remaining \subseteq Asked(c) \ {call[c].node}
    BY SMTT(30), <1>2 DEF CallInv, AcksReal, Replicating
  <2>3. /\ Counted(c) \in SUBSET Node /\ Counted(c)' \in SUBSET Node
        /\ Counted(c) \subseteq Counted(c)'
        /\ n \notin Counted(c)
        /\ n \in appliedAt[c] \cup Failed(c) => n \in Counted(c)'
    <3>1. Failed(c)' = Failed(c)
      BY Zenon, <1>2, <1>4 DEF Failed
    <3>2. /\ appliedAt'[c] = appliedAt[c] /\ appliedAt[c] \in SUBSET Node
          /\ Failed(c) \in SUBSET Node
      BY <1>2 DEF PathTypeOK, Failed
    <3>3. /\ Counted(c) = ((appliedAt[c] \cup Failed(c)) \cap Asked(c)) \ call[c].remaining
          /\ Counted(c)' = ((appliedAt[c] \cup Failed(c)) \cap Asked(c)) \ call'[c].remaining
      BY Zenon, <2>1, <3>1, <3>2 DEF Counted
    <3>4. n \notin call'[c].remaining /\ call'[c].remaining \subseteq call[c].remaining
      BY <1>4
    <3> QED
      BY <1>2, <2>2, <3>2, <3>3, <3>4
  <2>4. /\ Cardinality(Counted(c)) \in Nat /\ Cardinality(Counted(c)') \in Nat
        /\ Cardinality(Counted(c)) <= Cardinality(Counted(c)')
        /\ IsFiniteSet(Counted(c))
    BY Zenon, <2>3, NodeSets
  <2>5. n \in appliedAt[c] \cup Failed(c) => Cardinality(Counted(c)) + 1 <= Cardinality(Counted(c)')
    <3>1. Cardinality(Counted(c) \cup {n}) = Cardinality(Counted(c)) + 1
      BY Zenon, <2>3, <2>4, FS_AddElement
    <3>2. n \in appliedAt[c] \cup Failed(c) => Counted(c) \cup {n} \subseteq Counted(c)'
      BY <2>3
    <3> QED
      BY Zenon, <2>3, <3>1, <3>2, NodeSets
  <2>6. acks <= Cardinality(Counted(c)')
    <3>1. call[c].acks <= Cardinality(Counted(c))
      BY SMTT(30), <1>2 DEF CallInv, AcksReal, Replicating
    <3>2. CASE acks = call[c].acks
      BY SMTT(30), <1>2, <2>4, <3>1, <3>2
    <3>3. CASE acks = call[c].acks + 1 /\ n \in appliedAt[c] \cup Failed(c)
      BY SMTT(30), <1>2, <2>4, <2>5, <3>1, <3>3
    <3> QED
      BY SMTT(30), <1>1, <3>2, <3>3
  <2>7. AcksReal(c)'
    <3>1. /\ call[c].node \in appliedAt[c]
          /\ call[c].viewed \in MemberCounts
          /\ call[c].required = Required(call[c].viewed)
      BY Zenon, <1>2 DEF CallInv, AcksReal, Replicating
    <3>2. call'[c].node \in appliedAt'[c]
      BY Zenon, <1>2, <1>4, <3>1
    <3>3. call'[c].remaining \subseteq Asked(c)' \ {call'[c].node}
      BY <1>4, <2>1, <2>2
    <3>4. /\ call'[c].acks <= Cardinality(Counted(c)')
          /\ call'[c].viewed \in MemberCounts
          /\ call'[c].required = Required(call'[c].viewed)
      BY Zenon, <1>4, <2>6, <3>1
    <3>5. /\ call'[c].pc \notin {"local", "quorum", "resolve", "refreshed"}
          /\ call'[c].pc = "ok" => call'[c].acks >= call'[c].required
      BY Zenon, <1>4
    <3> QED
      BY Zenon, <3>2, <3>3, <3>4, <3>5 DEF AcksReal
  <2>8. Accounted(c)'
    BY Zenon, <1>2, <1>4, StillAccounted DEF CallInv
  <2> QED
    <3>1. Untouched(c)'
      BY Zenon, <1>4 DEF Untouched
    <3>2. OwnerChecked(c)'
      BY Zenon, <1>2, <1>4 DEF CallInv, OwnerChecked
    <3> QED
      BY Zenon, <2>7, <2>8, <3>1, <3>2 DEF CallInv
<1>5. CASE /\ acks >= call[c].required
           /\ call' = [call EXCEPT ![c].acks = acks, ![c].remaining = {}, ![c].pc = "ok"]
  <2>1. /\ call'[c].pc = "ok"
        /\ call'[c].acks = acks
        /\ call'[c].remaining = {}
        /\ call'[c].resolved = call[c].resolved
        /\ call'[c].node = call[c].node
        /\ call'[c].version = call[c].version
        /\ call'[c].checked = call[c].checked
        /\ call'[c].viewed = call[c].viewed
        /\ call'[c].required = call[c].required
    BY <1>5 DEF PathTypeOK
  <2> QED
    BY Zenon, <1>4, <1>5, <2>1
<1>6. CASE call' = [call EXCEPT ![c].acks = acks, ![c].remaining = call[c].remaining \ {n}]
  <2>1. /\ call'[c].pc = "wait"
        /\ call'[c].acks = acks
        /\ call'[c].remaining = call[c].remaining \ {n}
        /\ call'[c].resolved = call[c].resolved
        /\ call'[c].node = call[c].node
        /\ call'[c].version = call[c].version
        /\ call'[c].checked = call[c].checked
        /\ call'[c].viewed = call[c].viewed
        /\ call'[c].required = call[c].required
    BY SMTT(30), <1>2, <1>6 DEF PathTypeOK
  <2> QED
    BY <1>4, <2>1
<1> QED
  BY <1>1, <1>3, <1>5, <1>6 DEF Take

LEMMA InvInit == PathInit => PathInv
<1> SUFFICES ASSUME PathInit, NEW c \in Call PROVE CallInv(c)
  BY TypeInit DEF PathInv
<1>1. /\ call[c].pc = "idle" /\ call[c].checked = 0
      /\ appliedAt[c] = {} /\ sent = {}
  BY DEF PathInit, NewCall
<1> QED
  BY <1>1 DEF CallInv, Untouched, Accounted, AcksReal, Replicating, OwnerChecked

LEMMA InvStep == PathInv /\ [PathNext]_pathVars => PathInv'
<1> SUFFICES ASSUME PathInv, [PathNext]_pathVars, NEW d \in Call PROVE CallInv(d)'
  BY TypeStep DEF PathInv
<1>1. /\ PathTypeOK /\ PathTypeOK' /\ CallInv(d) /\ Accounted(d)
      /\ appliedAt[d] \subseteq appliedAt[d]
  BY TypeStep DEF PathInv, CallInv
<1>2. ASSUME UNCHANGED storeVars, UNCHANGED <<sent, call>>, broken \subseteq broken',
             \A e \in 1 .. Len(placements) : placements'[e] = placements[e]
      PROVE  CallInv(d)'
  <2>1. Accounted(d)' /\ appliedAt' = appliedAt
    BY <1>1, <1>2, StillAccounted DEF storeVars
  <2> QED
    BY <1>1, <1>2, <2>1, Kept
<1>3. ASSUME NEW p \in Placements, Commit(p) PROVE CallInv(d)'
  BY <1>1, <1>2, <1>3, CommitKeeps DEF Commit
<1>4. ASSUME NEW n \in Node, NEW e \in 1 .. Len(placements), Install(n, e) PROVE CallInv(d)'
  BY <1>2, <1>4 DEF Install
<1>5. ASSUME NEW c \in Call, NEW n \in Node, NEW op \in {"put", "delete"}, Start(c, n, op)
      PROVE  CallInv(d)'
  <2>1. CASE c = d
    BY <1>1, <1>5, <2>1, StartKeeps
  <2>2. CASE c # d
    <3>1. call'[d] = call[d] /\ UNCHANGED <<placements, storeVars, sent, broken>>
      BY Zenon, <1>1, <1>5, <2>2 DEF Start, PathTypeOK
    <3>2. Accounted(d)' /\ appliedAt' = appliedAt
      BY <1>1, <3>1, StillAccounted DEF storeVars
    <3> QED
      BY <1>1, <3>1, <3>2, Kept
  <2> QED
    BY <2>1, <2>2
<1>6. ASSUME NEW c \in Call, NEW n \in Node, ApplyCall(c, n),
             call'[d].version = call[d].version
      PROVE  /\ Accounted(d)'
             /\ appliedAt[d] \subseteq appliedAt'[d]
             /\ c # d => appliedAt'[d] = appliedAt[d]
  <2> DEFINE entry == [version |-> call[c].version, by |-> call[c].op]
             applied == [appliedAt EXCEPT ![c] = @ \cup {n}]
  <2>1. /\ entry \in Entry /\ applied \in [Call -> SUBSET Node]
        /\ Apply(n, entry, applied) /\ entry.version = call[c].version
        /\ appliedAt' = applied
    BY <1>1, <1>6, ApplyCallType DEF ApplyCall, Apply
  <2>2. /\ c # d => applied[d] = appliedAt[d]
        /\ c = d => applied[d] = appliedAt[d] \cup {n}
    BY Zenon, <1>1 DEF PathTypeOK
  <2>3. \A m \in applied[d] : m \in appliedAt[d] \/ (m = n /\ entry.version = call[d].version)
    BY SMTT(30), <2>1, <2>2
  <2>4. Accounted(d)'
    <3> HIDE DEF entry, applied
    <3> QED
      BY Zenon, <1>1, <1>6, <2>1, <2>3, ApplyAccounts
  <2> QED
    BY <2>1, <2>2, <2>4
<1>7. ASSUME NEW c \in Call, NEW n \in Node, Arrive(c, n) PROVE CallInv(d)'
  <2>1. /\ UNCHANGED <<placements, broken, call>>
        /\ sent' \subseteq sent
        /\ <<c, n>> \in sent
        /\ ApplyCall(c, n)
    BY <1>7 DEF Arrive
  <2>2. /\ Accounted(d)'
        /\ appliedAt[d] \subseteq appliedAt'[d]
        /\ c # d => appliedAt'[d] = appliedAt[d]
    BY <1>6, <2>1
  <2>3. call[d].pc \in {"idle", "rejected", "local"} => c # d
    BY <1>1, <2>1 DEF CallInv, Untouched
  <2> QED
    BY <1>1, <2>1, <2>2, <2>3, Kept
<1>8. ASSUME NEW c \in Call, CallStep(c) PROVE CallInv(d)'
  <2>1. CASE c = d
    <3>1. CASE Timeout(d)
      BY <1>1, <3>1, ErrorKeeps DEF Timeout
    <3> QED
      BY <1>1, <1>8, <2>1, <3>1, LocalWriteKeeps, QuorumKeeps, ResolveKeeps, TakeKeeps
         DEF CallStep, HandlerStep
  <2>2. CASE c # d
    <3>1. /\ call'[d] = call[d]
          /\ \A n \in Node : <<d, n>> \in sent' => <<d, n>> \in sent
          /\ UNCHANGED storeVars \/ ApplyCall(c, call[c].node)
      BY <1>1, <1>8, <2>2, CallEffect
    <3>2. UNCHANGED <<placements, broken>>
      BY <1>1, <1>8, CallType
    <3>3. Accounted(d)' /\ appliedAt'[d] = appliedAt[d]
      <4>1. CASE UNCHANGED storeVars
        BY <1>1, <3>1, <4>1, StillAccounted DEF storeVars
      <4>2. CASE ApplyCall(c, call[c].node)
        <5>1. call[c].node \in Node
          BY <1>1 DEF PathTypeOK
        <5> QED
          BY <1>6, <2>2, <3>1, <4>2, <5>1
      <4> QED
        BY <3>1, <4>1, <4>2
    <3> QED
      BY <1>1, <3>1, <3>2, <3>3, Kept
  <2> QED
    BY SMTT(30), <2>1, <2>2
<1>9. ASSUME NEW j \in jobs, JobStep(j) PROVE CallInv(d)'
  <2>1. /\ j \in Job /\ j.node \in Node /\ j.entry \in Entry
        /\ UNCHANGED <<placements, epoch, sent, broken, call>>
        /\ UNCHANGED storeVars \/ Apply(j.node, j.entry, appliedAt) \/ DropErase(j)
    BY <1>1, <1>9, JobEffect DEF Job
  <2>2. Accounted(d)' /\ appliedAt' = appliedAt
    <3>1. CASE UNCHANGED storeVars
      BY SMTT(30), <1>1, <2>1, <3>1, StillAccounted DEF storeVars
    <3>2. CASE Apply(j.node, j.entry, appliedAt)
      <4>1. appliedAt \in [Call -> SUBSET Node]
        BY <1>1 DEF PathTypeOK
      <4>2. appliedAt' = appliedAt
        BY <3>2 DEF Apply
      <4> QED
        BY <1>1, <2>1, <3>2, <4>1, <4>2, ApplyAccounts
    <3>3. CASE DropErase(j)
      BY Zenon, <1>1, <2>1, <3>3, EraseAccounts DEF DropErase
    <3> QED
      BY SMTT(30), <2>1, <3>1, <3>2, <3>3
  <2> QED
    BY <1>1, <2>1, <2>2, Kept
<1>10. ASSUME NEW m \in Node, NEW n \in Node, BreakStream(m, n) PROVE CallInv(d)'
  BY <1>2, <1>10 DEF BreakStream
<1>11. CASE UNCHANGED pathVars
  BY <1>2, <1>11 DEF pathVars
<1> QED
  BY <1>3, <1>4, <1>5, <1>7, <1>8, <1>9, <1>10, <1>11 DEF PathNext, Put, Delete

LEMMA InvCorrect == PathSpec => []PathInv
BY InvInit, InvStep, PTL DEF PathSpec

-------------------------------------------------------------------------------
(* Acknowledged writes *)

\* What an acknowledged call counted is on stores, or counted in vain, and
\* is enough.
LEMMA AckedCounted ==
  ASSUME PathInv, NEW c \in Call, call[c].pc = "ok"
  PROVE  /\ Counted(c) \subseteq Holders(call[c].version) \cup InVain(c)
         /\ Counted(c) \in SUBSET Node
         /\ call[c].required <= Cardinality(Counted(c))
         /\ call[c].required = Required(call[c].viewed)
<1>1. PathTypeOK /\ CallInv(c)
  BY DEF PathInv
<1>2. Counted(c) \in SUBSET Node /\ Cardinality(Counted(c)) \in Nat
  BY <1>1, CountedType, NodeSets
<1>3. Counted(c) \subseteq Holders(call[c].version) \cup InVain(c)
  BY <1>1, <1>2 DEF CallInv, Accounted, Counted, Failed, Holders, InVain
<1>4. /\ call[c].acks \in Nat /\ call[c].required \in Nat
      /\ call[c].acks >= call[c].required
      /\ call[c].acks <= Cardinality(Counted(c))
      /\ call[c].required = Required(call[c].viewed)
  BY <1>1 DEF PathTypeOK, CallInv, AcksReal, Replicating
<1> QED
  BY <1>2, <1>3, <1>4

\* A call of ReplicateToAll that returns nil has its write, or a newer one, on
\* a majority of the nodes it could have hoped for; the ones that are missing
\* dropped it, or are behind a failed stream.
THEOREM QuorumCorrect == PathSpec => []AckedOnQuorum
<1>1. PathInv => AckedOnQuorum
  <2> SUFFICES ASSUME PathInv, NEW c \in Call, call[c].pc = "ok"
               PROVE  2 * Cardinality(Holders(call[c].version) \cup InVain(c))
                        > EffectiveRF(call[c].viewed)
    BY DEF AckedOnQuorum
  <2> DEFINE H == Holders(call[c].version) \cup InVain(c)
  <2>1. /\ Counted(c) \subseteq H
        /\ Counted(c) \in SUBSET Node
        /\ call[c].required <= Cardinality(Counted(c))
        /\ call[c].required = Required(call[c].viewed)
    BY AckedCounted
  <2>2. H \in SUBSET Node
    BY DEF Holders, InVain
  <2>3. /\ Cardinality(Counted(c)) <= Cardinality(H)
        /\ Cardinality(Counted(c)) \in Nat
        /\ Cardinality(H) \in Nat
    BY SMTT(30), <2>1, <2>2, NodeSets
  <2>4. EffectiveRF(call[c].viewed) \in Nat
    BY PlacementAssumption DEF PathInv, PathTypeOK, EffectiveRF
  <2>5. Cardinality(H) >= EffectiveRF(call[c].viewed) \div 2 + 1
    BY <2>1, <2>3, <2>4 DEF Required
  <2> HIDE DEF H
  <2>6. 2 * Cardinality(H) > EffectiveRF(call[c].viewed)
    BY <2>3, <2>4, <2>5
  <2> QED
    BY <2>6 DEF H
<1> QED
  BY <1>1, InvCorrect, PTL

\* A placement names at most ReplicationFactor nodes.
LEMMA GroupSize ==
  ASSUME PathTypeOK, NEW e \in 1 .. Len(placements)
  PROVE  /\ Group(e) \in SUBSET Node
         /\ IsFiniteSet(Group(e))
         /\ Cardinality(Group(e)) \in Nat
         /\ Cardinality(Group(e)) <= ReplicationFactor
<1>1. placements[e] \in Placements
  BY DEF PathTypeOK
<1>2. /\ placements[e].owner \in Node
      /\ placements[e].replicas \in SUBSET Node
      /\ placements[e].owner \notin placements[e].replicas
      /\ Cardinality(placements[e].replicas) < ReplicationFactor
      /\ ReplicationFactor \in Nat
  BY <1>1, PlacementAssumption DEF Placement
<1>3. IsFiniteSet(placements[e].replicas) /\ Cardinality(placements[e].replicas) \in Nat
  BY <1>2, NodeSets
<1>4. Group(e) = placements[e].replicas \cup {placements[e].owner}
  BY DEF Group
<1>5. /\ IsFiniteSet(Group(e))
      /\ Cardinality(Group(e)) = Cardinality(placements[e].replicas) + 1
  <2> DEFINE R == placements[e].replicas
             o == placements[e].owner
  <2>1. /\ IsFiniteSet(R \cup {o})
        /\ Cardinality(R \cup {o}) = IF o \in R THEN Cardinality(R) ELSE Cardinality(R) + 1
    <3> HIDE DEF R, o
    <3>1. IsFiniteSet(R)
      BY <1>3 DEF R
    <3> QED
      BY <3>1, FS_AddElement
  <2> QED
    BY <1>2, <1>4, <2>1
<1> QED
  BY <1>2, <1>3, <1>4, <1>5

\* With all members in view and one placement from the ownership check to the
\* choice of targets, an acknowledged write is on a majority of the nodes that
\* the placement names, up to drops and failed streams.
THEOREM MajorityCorrect == PathSpec => []AckedOnMajority
<1>1. PathInv => AckedOnMajority
  <2> SUFFICES ASSUME PathInv, NEW c \in Call,
                      call[c].pc = "ok", call[c].checked # 0,
                      call[c].resolved \in {0, call[c].checked},
                      call[c].viewed >= ReplicationFactor,
                      NEW Q \in SUBSET Group(call[c].checked),
                      2 * Cardinality(Q) > ReplicationFactor
               PROVE  Q \cap (Holders(call[c].version) \cup InVain(c)) # {}
    BY DEF AckedOnMajority, OnMajority
  <2> DEFINE G == Group(call[c].checked)
  <2>1. /\ PathTypeOK /\ CallInv(c)
        /\ call[c].checked \in 1 .. Len(placements)
        /\ call[c].viewed \in Nat
    BY SMTT(30) DEF PathInv, PathTypeOK
  <2>2. /\ G \in SUBSET Node /\ IsFiniteSet(G)
        /\ Cardinality(G) \in Nat /\ Cardinality(G) <= ReplicationFactor
    BY <2>1, GroupSize
  <2>3. /\ Counted(c) \subseteq Holders(call[c].version) \cup InVain(c)
        /\ Counted(c) \in SUBSET Node
        /\ call[c].required <= Cardinality(Counted(c))
    BY AckedCounted
  <2>4. Counted(c) \subseteq G
    BY Zenon, <2>1 DEF CallInv, OwnerChecked, Counted, Asked, Group
  <2>5. call[c].required = ReplicationFactor \div 2 + 1
    <3>1. call[c].required = Required(call[c].viewed)
      BY AckedCounted
    <3>2. EffectiveRF(call[c].viewed) = ReplicationFactor
      BY SMTT(30), <2>1, PlacementAssumption DEF EffectiveRF
    <3> QED
      BY Zenon, <3>1, <3>2 DEF Required
  <2>6. Cardinality(Q) \in Nat /\ Cardinality(Counted(c)) \in Nat
    BY SMTT(30), <2>2, <2>3, NodeSets
  <2>7. Cardinality(Counted(c)) + Cardinality(Q) > Cardinality(G)
    BY SMTT(30), <2>2, <2>3, <2>5, <2>6, PlacementAssumption
  <2>8. Counted(c) \cap Q # {}
    BY <2>2, <2>4, <2>7, FS_MajoritiesIntersect
  <2> QED
    BY <2>3, <2>8
<1> QED
  BY <1>1, InvCorrect, PTL
===============================================================================
