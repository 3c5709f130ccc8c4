-------------------------- MODULE ChainRuntimeProofs --------------------------
(***************************************************************************)
(* Proofs about the process around one synchronizer: what it keeps of the    *)
(* store's guarantees, what holds only because it is alone, and how it        *)
(* reports and stops.                                                       *)
(***************************************************************************)
EXTENDS ChainRuntime, ChainSyncProofs, SequenceTheorems

-----------------------------------------------------------------------------
(* The runtime's steps are the synchronizer's *)

\* There is one synchronizer.
LEMMA ServerIsTheOwner == Server \in Owners /\ \A p \in Owners : p = Server
  BY RuntimeConstants

\* A step of the process is one of its synchronizer, or of nobody.
LEMMA RuntimeSteps ==
  ASSUME [RuntimeNext]_runtimeVars
  PROVE  Steps
  <1> USE ServerIsTheOwner
  <1>1. CASE PassStep
    <2>1. BeginPass => SyncStep(Server)
      BY DEF BeginPass, SyncStep
    <2>2. Batch \in SUBSET TrackableOps
      BY DEF Batch
    <2>3. SyncPass => TrackStep(Server)
      BY <2>2 DEF SyncPass, TrackStep
    <2> QED BY <1>1, <2>1, <2>3 DEF PassStep, SyncVault, TrackOperations, TrackStep, Steps, Next
  <1>2. CASE PassLags \/ PassFails \/ Crash
    BY <1>2 DEF PassLags, PassFails, Crash, Abort, Fail, Steps
  <1>3. CASE TimerFires \/ SyncNow \/ StopServer \/ UNCHANGED runtimeVars
    BY <1>3 DEF TimerFires, SyncNow, StopServer, runtimeVars, Steps
  <1>4. CASE Advance \/ Jump \/ \E o \in Ops : Submit(o) \/ Decide(o)
    BY <1>4 DEF Steps, Next
  <1> QED BY <1>1, <1>2, <1>3, <1>4 DEF RuntimeNext

\* So what is proved of synchronizers is true of the server's.
LEMMA RuntimeFullInv == RuntimeSpec => []FullInv
  <1>1. RuntimeInit => FullInv
    BY InitIInv
    DEF RuntimeInit, Init, StoreInit, FullInv, EvidenceInv, EvidenceOK, BindingInv, Idle, Absent, At
  <1>2. FullInv /\ [RuntimeNext]_runtimeVars => FullInv'
    BY RuntimeSteps, NextFullInv
  <1> QED BY <1>1, <1>2, PTL DEF RuntimeSpec

\* The server's store keeps what the store keeps under any synchronizers:
\* one canonical path, honest health, events and receipts that stand.
THEOREM ServerKeepsTheStore ==
  RuntimeSpec => [](/\ CanonicalPath /\ HealthyIsComplete
                    /\ EventsOnCanonicalBlocks /\ ReceiptsOnCanonicalBlocks)
  BY RuntimeFullInv, PTL DEF FullInv, IInv, OperationsInv

-----------------------------------------------------------------------------
(* Alone on the database *)

\* The receipt's block and the event a reconciliation was begun with are
\* still the operation's.
ServerOK ==
    LET tracked == proc[Server].tracked
    IN  /\ At(Server, "receipt") /\ tracked.read.state \in Included => ops[tracked.op] = tracked.read
        /\ At(Server, "reconcile") =>
              /\ ops[tracked.op] = tracked.read
              /\ tracked.read.block = tracked.block
              /\ tracked.found => \E row \in EventsOf(OpTx[tracked.op]) : row.block = tracked.block

\* A reconciled operation has its event in the store, on its block.
EventsProve ==
    \A o \in Ops : ops[o].reconciled =>
        ops[o].canonical /\ \E row \in EventsOf(OpTx[o]) : row.block = ops[o].block

\* Two canonical blocks that include one transaction are the same block.
LEMMA OneCanonicalInclusion ==
  ASSUME IInv, NEW o \in Ops,
         NEW a \in Blocks, rows[a] = "canonical", Includes(a, OpTx[o]),
         NEW b \in Blocks, rows[b] = "canonical", Includes(b, OpTx[o])
  PROVE  a = b
  <1>1. checkpoint \in Blocks /\ a \in ChainTo[checkpoint] /\ b \in ChainTo[checkpoint]
    BY DEF IInv, CanonicalPath, Canonical, TypeOK, StoreTypeOK
  <1> QED BY <1>1, TransactionsRunOnce

\* While the server awaits the answers about an operation, the operation is
\* changed by nobody else, unless it is not yet included.
LEMMA OthersKeepIncluded ==
  ASSUME TypeOK, Steps, proc'[Server] = proc[Server], proc[Server].pc \in {"receipt", "reconcile"}
  PROVE  /\ events' = events
         /\ \A o \in Ops : ops[o].state \in Included => ops'[o] = ops[o]
  <1>0. ops \in [Ops -> Operations] /\ proc \in [Owners -> Passes] /\ proc[Server] \in Passes
    BY ServerIsTheOwner DEF TypeOK, StoreTypeOK
  <1>1. ~SyncStep(Server)
    BY DEF SyncStep, Begin, Claim, CheckTip, Search, Recover, FetchBlock, RecordBlock, Project,
           ProjectionFails, Finish, At
  <1>2. ~Fail(Server)
    BY <1>0, ServerIsTheOwner DEF Fail, Stop, Idle
  <1>3. ~TrackStep(Server)
    <2>1. ~Untracked(Server)
      BY <1>0, ServerIsTheOwner DEF Untracked, Passes
    <2>2. ~Receipt(Server)
      BY <1>0, <2>1, ServerIsTheOwner DEF Receipt, LeftAsItIs, Track, At, Passes
    <2> QED BY <1>2, <2>1, <2>2
        DEF TrackStep, TrackBatch, SelectBatch, TrackOperation, ReceiptFails, LeftAsItIs, Reconcile,
            Conclude, EndOfPass, At
  <1>4. CASE Advance \/ Jump \/ UNCHANGED vars
    BY <1>4 DEF Advance, Jump, vars, storeVars
  <1>5. ASSUME NEW q \in Ops, Submit(q) \/ Decide(q), NEW o \in Ops
        PROVE  events' = events /\ (ops[o].state \in Included => ops'[o] = ops[o])
    <2>1. ASSUME NEW state \in {"REPLACED", "DROPPED"}, RecordOutcome(q, state),
                 ops[o].state \in Included
          PROVE  ops'[o] = ops[o]
      <3>1. o # q
        BY <2>1 DEF RecordOutcome, CanBecome, AllowedFrom, Included
      <3> QED BY <1>0, <2>1, <3>1 DEF RecordOutcome
    <2>2. RecordSubmission(q) /\ ops[o].state \in Included => ops'[o] = ops[o]
      BY <1>0 DEF RecordSubmission, Included
    <2> QED BY <1>5, <2>1, <2>2 DEF Submit, Decide, RecordSubmission, RecordOutcome
  <1> QED BY <1>1, <1>2, <1>3, <1>4, <1>5, ServerIsTheOwner DEF Steps, Next, Abort

\* A receipt is awaited for an operation as it was just read.
LEMMA ReceiptBegins ==
  ASSUME TypeOK, Steps, At(Server, "receipt")', proc'[Server] # proc[Server]
  PROVE  \E o \in Ops : proc'[Server].tracked = [op |-> o, read |-> ops[o]] /\ ops' = ops
  <1>0. proc \in [Owners -> Passes] /\ proc[Server] \in Passes /\ Server \in Owners
    BY ServerIsTheOwner DEF TypeOK
  <1>1. ~SyncStep(Server) /\ ~Fail(Server)
    BY <1>0, SyncLabels DEF At
  <1>2. ~Untracked(Server) /\ ~\E batch : SelectBatch(Server, batch)
    BY <1>0 DEF Untracked, SelectBatch, Passes, At
  <1>3. ~Receipt(Server)
    BY <1>0, <1>2 DEF Receipt, LeftAsItIs, Track, Passes, At
  <1>4. TrackOperation(Server)
    BY <1>1, <1>2, <1>3, ServerIsTheOwner
    DEF Steps, Next, Abort, Advance, Jump, Submit, Decide, vars, TrackStep, TrackBatch,
        ReceiptFails, LeftAsItIs, Reconcile, Conclude, EndOfPass
  <1>5. PICK o \in proc[Server].todo :
          \/ Track(Server, "receipt", [op |-> o, read |-> ops[o]])
          \/ proc' = [proc EXCEPT ![Server].todo = @ \ {o}]
    BY <1>4 DEF TrackOperation
  <1>6. Track(Server, "receipt", [op |-> o, read |-> ops[o]])
    BY <1>0, <1>4, <1>5 DEF TrackOperation, Passes, At
  <1> QED BY <1>0, <1>4, <1>6 DEF TrackOperation, Track, Passes, storeVars

\* The evidence in the server's hands stays that of the operation.
LEMMA ServerStep ==
  ASSUME FullInv, ServerOK, Steps
  PROVE  ServerOK'
  <1>0. /\ IInv /\ TypeOK /\ PassInv /\ Server \in Owners
        /\ ops \in [Ops -> Operations] /\ rows \in [Blocks -> {"absent", "canonical", "displaced"}]
    BY ServerIsTheOwner DEF FullInv, IInv, TypeOK, StoreTypeOK
  <1>1. CASE proc'[Server] = proc[Server]
    <2>1. At(Server, "receipt") => proc[Server].tracked.op \in Ops
      BY <1>0 DEF PassInv, PassOK, AwaitingReceipt
    <2>2. At(Server, "reconcile") =>
            proc[Server].tracked.op \in Ops /\ proc[Server].tracked.read.state \in Included
      BY <1>0 DEF PassInv, PassOK, AwaitingState, Included
    <2>3. At(Server, "receipt") \/ At(Server, "reconcile") =>
            events' = events /\ \A o \in Ops : ops[o].state \in Included => ops'[o] = ops[o]
      BY <1>0, <1>1, OthersKeepIncluded DEF At
    <2> QED BY <1>1, <2>1, <2>2, <2>3 DEF ServerOK, At, EventsOf
  <1>2. CASE proc'[Server] # proc[Server] /\ At(Server, "receipt")'
    <2>1. PICK o \in Ops : proc'[Server].tracked = [op |-> o, read |-> ops[o]] /\ ops' = ops
      BY <1>0, <1>2, ReceiptBegins
    <2> QED BY <1>2, <2>1 DEF ServerOK, At
  <1>3. CASE proc'[Server] # proc[Server] /\ At(Server, "reconcile")'
    <2> DEFINE o == proc[Server].tracked.op
               read == proc[Server].tracked.read
               tx == OpTx[o]
    <2>1. /\ Receipt(Server) /\ At(Server, "receipt")
          /\ o \in Ops /\ read \in Operations
      <3>1. Receipt(Server)
        BY <1>0, <1>3, ReconciliationsBegin
      <3> QED BY <1>0, <3>1 DEF Receipt, PassInv, PassOK, AwaitingReceipt
    <2>2. ASSUME NEW b \in UsableReceipt(o),
                 LET op == AfterReceipt(read, tx, b)
                 IN  /\ \/ SaveOperationAtCheckpoint(o, op, read, proc[Server].head) /\ AwaitsReceipt(read)
                        \/ ~AwaitsReceipt(read) /\ UNCHANGED storeVars
                     /\ AwaitsReconciliation(op, tx, b)
                     /\ Track(Server, "reconcile",
                              [op |-> o, read |-> op, block |-> b, found |-> EvidenceFound(o)])
          PROVE  ServerOK'
      <3> DEFINE op == AfterReceipt(read, tx, b)
      <3>1. b \in Blocks /\ Includes(b, tx) /\ rows[b] = "canonical"
        BY <1>0, ChainHeights DEF UsableReceipt, ReceiptBlock, TypeOK
      <3>2. /\ proc'[Server].pc = "reconcile" /\ proc'[Server].tracked.op = o
            /\ proc'[Server].tracked.read = op /\ proc'[Server].tracked.block = b
            /\ proc'[Server].tracked.found = EvidenceFound(o)
        BY <1>0, <2>2 DEF Track, TypeOK, Passes
      <3>3. events' = events
        BY <2>2 DEF SaveOperationAtCheckpoint, storeVars
      <3>4. op.block = b /\ ops'[o] = op
        <4>1. CASE AwaitsReceipt(read)
          BY <1>0, <2>1, <2>2, <4>1 DEF AfterReceipt, WithReceipt, Operations, SaveOperationAtCheckpoint
        <4>2. CASE ~AwaitsReceipt(read)
          <5>1. op = read /\ ops' = ops
            BY <2>2, <4>2 DEF AfterReceipt, storeVars
          <5>2. read.state \in Included
            BY <2>2, <5>1 DEF AwaitsReconciliation, Included
          <5>3. ops[o] = read
            BY <2>1, <5>2 DEF ServerOK
          <5>4. read.block \in Blocks /\ rows[read.block] = "canonical" /\ Includes(read.block, tx)
            BY <1>0, <2>1, <5>2, <5>3 DEF IInv, OperationsInv, ReceiptsOnCanonicalBlocks
          <5>5. read.block = b
            BY <1>0, <2>1, <3>1, <5>4, OneCanonicalInclusion
          <5> QED BY <5>1, <5>3, <5>5
        <4> QED BY <4>1, <4>2
      <3>5. EvidenceFound(o) => \E row \in EventsOf(tx) : row.block = b
        <4>1. ASSUME EvidenceFound(o)
              PROVE  EventsOf(tx) # {}
          BY <4>1, FS_EmptySet DEF EvidenceFound
        <4>2. ASSUME NEW row \in EventsOf(tx)
              PROVE  row.block = b
          <5>1. /\ row.block \in Blocks /\ row.log \in Logs[row.block] /\ row.log.tx = tx
                /\ rows[row.block] = "canonical"
            BY <1>0 DEF EventsOf, IInv, EventsOnCanonicalBlocks, TypeOK, StoreTypeOK
          <5>2. Includes(row.block, tx)
            BY <5>1 DEF Includes
          <5> QED BY <1>0, <2>1, <3>1, <5>1, <5>2, OneCanonicalInclusion
        <4> QED BY <4>1, <4>2
      <3> HIDE DEF op, o
      <3> QED BY <3>2, <3>3, <3>4, <3>5 DEF ServerOK, At, EventsOf
    <2>3. ~Untracked(Server)
      BY <1>0, <1>3 DEF Untracked, TypeOK, Passes, At
    <2> QED BY <2>1, <2>2, <2>3 DEF Receipt, LeftAsItIs
  <1> QED BY <1>1, <1>2, <1>3 DEF ServerOK

\* The event that proved an operation stays as long as it is reconciled.
LEMMA EventsProveStep ==
  ASSUME FullInv, ServerOK, EventsProve, Steps
  PROVE  EventsProve'
  <1>0. /\ IInv /\ TypeOK /\ PassInv /\ Effect
        /\ ops \in [Ops -> Operations]
        /\ \A row \in events : row \in [log : Logs[row.block], block : Blocks, canonical : BOOLEAN]
    BY StepEffect DEF FullInv, IInv, TypeOK, StoreTypeOK
  <1> DEFINE Proved(o) == ops[o].reconciled =>
                            ops[o].canonical /\ \E row \in EventsOf(OpTx[o]) : row.block = ops[o].block
  <1> SUFFICES ASSUME NEW o \in Ops PROVE Proved(o)'
    BY DEF EventsProve
  <1>1. CASE events' = events /\ (ops'[o] = ops[o] \/ ~ops'[o].reconciled)
    BY <1>1 DEF EventsProve, EventsOf
  <1>2. ASSUME NEW p \in Owners, Records(p)
        PROVE  Proved(o)'
    <2> DEFINE logs == LogsAnswered(proc[p].hand)
    <2>1. /\ ~EventConflict(logs) /\ ops' = ops
          /\ events' = EventsWith(logs, proc[p].hand)
      BY <1>2 DEF Records, RecordCanonicalBlock
    <2> HIDE DEF logs
    <2>2. \A row \in EventsOf(OpTx[o]) : row \in events'
      BY <2>1 DEF EventsOf, EventsWith, EventConflict
    <2> QED BY <2>1, <2>2 DEF EventsProve, EventsOf
  <1>3. ASSUME NEW number \in Int, NEW p \in Owners, RollbackFromBlock(p, number)
        PROVE  Proved(o)'
    <2>1. /\ events' = {[row EXCEPT !.canonical = Stands(row, number)] : row \in events}
          /\ ops'[o] = IF DisplacedBy(ops[o], number) THEN Displaced(ops[o], "REORGED") ELSE ops[o]
      BY <1>3 DEF RollbackFromBlock
    <2>2. CASE DisplacedBy(ops[o], number)
      BY <1>0, <2>1, <2>2 DEF Displaced, Operations
    <2>3. ASSUME ~DisplacedBy(ops[o], number), ops[o].reconciled
          PROVE  Proved(o)'
      <3>1. ops[o].canonical /\ ops[o].state \in Included /\ ops[o].block \in Blocks
        BY <1>0, <2>3 DEF EventsProve, IInv, OperationsInv, ReceiptsOnCanonicalBlocks
      <3>2. Height[ops[o].block] < number
        BY <2>3, <3>1, ChainIsAForest DEF DisplacedBy
      <3>3. PICK row \in EventsOf(OpTx[o]) : row.block = ops[o].block
        BY <2>3 DEF EventsProve
      <3> DEFINE kept == [row EXCEPT !.canonical = Stands(row, number)]
      <3>4. Stands(row, number) /\ row \in events
        BY <3>2, <3>3 DEF Stands, EventsOf
      <3>5. /\ kept \in events'
            /\ kept.canonical /\ kept.log = row.log /\ kept.block = row.block
        BY <1>0, <2>1, <3>4
      <3> HIDE DEF kept
      <3> QED BY <2>1, <2>3, <3>1, <3>3, <3>5 DEF EventsOf
    <2> QED BY <2>1, <2>2, <2>3
  <1>4. ASSUME NEW q \in Ops, NEW next \in Operations, NEW expected, Saved(q, next, expected)
        PROVE  /\ events' = events
               /\ o # q => ops'[o] = ops[o]
               /\ ops'[q] = next
    BY <1>0, <1>4 DEF Saved, SaveOperationAtCheckpoint
  <1>5. ASSUME NEW p \in Owners, SavesReceipt(p)
        PROVE  Proved(o)'
    <2>1. PICK q \in Ops, b \in Blocks, state \in {"REVERTED", "MINED"} :
            Saved(q, WithReceipt(ops[q], state, b), ops[q])
      BY <1>0, <1>5, ReceiptSaved
    <2>2. ~WithReceipt(ops[q], state, b).reconciled
      BY <1>0 DEF WithReceipt, Operations
    <2> QED BY <1>1, <1>4, <2>1, <2>2 DEF Saved
  <1>6. ASSUME NEW p \in Owners, SavesSuccess(p)
        PROVE  Proved(o)'
    <2>1. PICK q, confirmations :
           /\ q \in Ops
           /\ q = proc[p].tracked.op /\ proc[p].tracked.found
           /\ Saved(q, Reconciled(ops[q], confirmations), ops[q])
      BY <1>0, <1>6, SuccessSaved
    <2> DEFINE next == Reconciled(ops[q], confirmations)
    <2>2. /\ next \in Operations /\ next.block = ops[q].block
          /\ next.state \in Included
      BY <1>0, <2>1 DEF Saved, Reconciled, Confirmed, Confirming, Operations, Included
    <2>3. /\ ops[q].block = proc[p].tracked.block
          /\ \E row \in EventsOf(OpTx[q]) : row.block = ops[q].block
      BY <1>6, <2>1, ServerIsTheOwner DEF SavesSuccess, ServerOK
    <2>4. ops'[q].canonical
      <3>1. OperationsInv'
        BY <1>0, OperationsStep DEF IInv
      <3> QED BY <1>4, <2>1, <2>2, <3>1 DEF OperationsInv, ReceiptsOnCanonicalBlocks
    <2> HIDE DEF next
    <2>5. CASE o = q
      <3>1. events' = events /\ ops'[o] = next
        BY <1>4, <2>1, <2>2, <2>5 DEF next
      <3> QED BY <2>2, <2>3, <2>4, <2>5, <3>1 DEF EventsOf
    <2>6. CASE o # q
      BY <1>1, <1>4, <2>1, <2>2, <2>6 DEF next
    <2> QED BY <2>5, <2>6
  <1>7. ASSUME NEW p \in Owners, SavesFailure(p)
        PROVE  Proved(o)'
    <2>1. PICK q \in Ops : Saved(q, ReconciliationFailed(ops[q]), ops[q])
      BY <1>0, <1>7, FailureSaved
    <2>2. ~ReconciliationFailed(ops[q]).reconciled
      BY <1>0 DEF ReconciliationFailed, Operations
    <2> QED BY <1>1, <1>4, <2>1, <2>2 DEF Saved
  <1>8. ASSUME NEW q \in Ops, Reports(q)
        PROVE  Proved(o)'
    <2>1. \/ ops'[o] = ops[o] \/ ops'[o] = Submitted
          \/ \E state : ops'[o] = Displaced(ops[o], state)
      BY <1>0, <1>8 DEF Reports, RecordSubmission, RecordOutcome
    <2>2. events' = events
      BY <1>8 DEF Reports, RecordSubmission, RecordOutcome
    <2> QED BY <1>0, <1>1, <2>1, <2>2 DEF Displaced, Operations, Submitted, Absent
  <1>9. UNCHANGED storeVars => UNCHANGED <<events, ops>>
    BY DEF storeVars
  <1>10. ASSUME NEW p \in Owners, Claims(p) \/ Marks(p) \/ Completes(p) \/ Releases(p) \/ Commits(p)
         PROVE  UNCHANGED <<events, ops>>
    BY <1>10 DEF Claims, ClaimSync, Marks, MarkSyncUnhealthy, Completes, MarkSyncHealthy,
                 Releases, ReleaseSyncIncomplete, Commits, CommitProjections
  <1> QED BY <1>0, <1>1, <1>2, <1>3, <1>5, <1>6, <1>7, <1>8, <1>9, <1>10 DEF Effect, Writes, RollsBack

\* The inductive invariant of a server alone on its database.
ServerInv == FullInv /\ ServerOK /\ EventsProve

\* Both always hold.
LEMMA RuntimeServerInv == RuntimeSpec => []ServerInv
  <1>1. RuntimeInit => ServerInv
    BY InitIInv, ServerIsTheOwner
    DEF RuntimeInit, Init, StoreInit, ServerInv, FullInv, EvidenceInv, EvidenceOK, BindingInv,
        ServerOK, EventsProve, Idle, Absent, At
  <1>2. ServerInv /\ [RuntimeNext]_runtimeVars => ServerInv'
    BY RuntimeSteps, NextFullInv, ServerStep, EventsProveStep DEF ServerInv
  <1> QED BY <1>1, <1>2, PTL DEF RuntimeSpec

\* Alone on its database, the server reconciles only what the store proves.
THEOREM ServerReconcilesWhatIsProved == RuntimeSpec => []ReconciledIsProved
  <1>1. ServerInv => ReconciledIsProved
    BY DEF ServerInv, FullInv, BindingInv, EventsProve, ReconciledIsProved
  <1> QED BY <1>1, RuntimeServerInv, PTL

\* What ConfirmedAtDepth says without its exception.
ServerConfirms ==
    [][\A o \in Ops : ops[o].state # "CONFIRMED" /\ ops'[o].state = "CONFIRMED" =>
          Readable' /\ Depth(o)' >= SoftReadyDepth]_runtimeVars

\* Alone on its database, the server confirms an operation only at the depth
\* the policy asks for, on the block of its receipt.
THEOREM ServerConfirmsAtDepth == RuntimeSpec => ServerConfirms
  <1> DEFINE Deep == \A o \in Ops : ops[o].state # "CONFIRMED" /\ ops'[o].state = "CONFIRMED" =>
                       Readable' /\ Depth(o)' >= SoftReadyDepth
  <1>1. ASSUME ServerInv, [RuntimeNext]_runtimeVars
        PROVE  Deep
    <2> SUFFICES ASSUME NEW o \in Ops, ops[o].state # "CONFIRMED", ops'[o].state = "CONFIRMED"
                 PROVE  Readable' /\ Depth(o)' >= SoftReadyDepth
      OBVIOUS
    <2>1. IInv /\ Effect /\ ServerOK
      BY <1>1, RuntimeSteps, StepEffect DEF ServerInv, FullInv, IInv
    <2>2. PICK p \in Owners, b \in Blocks :
           /\ At(p, "reconcile") /\ proc[p].tracked.op = o /\ proc[p].tracked.block = b
           /\ proc[p].tracked.read = ops[o]
           /\ Readable' /\ UNCHANGED <<rows, checkpoint>>
           /\ ops'[o].block = ops[o].block
           /\ Height[checkpoint] - Height[b] + 1 >= SoftReadyDepth
      BY <2>1, ConfirmedWhenReadable
    <2>3. ops[o].block = b
      BY <2>1, <2>2, ServerIsTheOwner DEF ServerOK
    <2> QED BY <2>2, <2>3 DEF Depth
  <1>2. ServerInv /\ [RuntimeNext]_runtimeVars => [Deep]_runtimeVars
    BY <1>1
  <1> QED BY <1>2, RuntimeServerInv, PTL DEF RuntimeSpec, ServerConfirms

-----------------------------------------------------------------------------
(* The queue, the timer and the stop *)

\* A pass that runs has its place in the queue, and a stopped server has no
\* timer.
StopInv ==
    /\ queue \in Seq({"startup", "timer", "caller"})
    /\ ~At(Server, "idle") => queue # <<>>
    /\ timer => ~closed

\* The end of a pass gives up its place, and sets no timer after a stop.
LEMMA EndsInv ==
  ASSUME StopInv, queue # <<>>, NEW outcome, Ends(outcome), At(Server, "idle")'
  PROVE  StopInv'
  <1>1. queue' \in Seq({"startup", "timer", "caller"})
    BY HeadTailProperties DEF StopInv, Ends
  <1>2. timer' => ~closed'
    BY DEF StopInv, Ends, SetsAgain
  <1> QED BY <1>1, <1>2 DEF StopInv

\* A pass that goes on keeps its place.
LEMMA GoesOnInv ==
  ASSUME StopInv, GoesOn, ~At(Server, "idle") \/ proc' = proc
  PROVE  StopInv'
  BY DEF StopInv, GoesOn, lifecycle, At

\* Every step of the process keeps this.
LEMMA StopStep ==
  ASSUME TypeOK, StopInv, [RuntimeNext]_runtimeVars
  PROVE  StopInv'
  <1>0. proc \in [Owners -> Passes] /\ proc[Server] \in Passes /\ Server \in Owners
    BY ServerIsTheOwner DEF TypeOK
  <1>1. Stop(Server) => At(Server, "idle")'
    BY <1>0 DEF Stop, Idle, At
  <1>2. CASE BeginPass
    BY <1>2 DEF BeginPass, Begin, StopInv, lifecycle, At
  <1>3. CASE SyncVault
    BY <1>3, EndsInv, GoesOnInv DEF SyncVault, StopInv
  <1>4. CASE SyncPass
    BY <1>4 DEF SyncPass, SelectBatch, StopInv, lifecycle, At
  <1>5. CASE TrackOperations
    <2>1. ~At(Server, "idle")
      BY <1>5 DEF TrackOperations, TrackBatch, TrackOperation, Receipt, ReceiptFails, Reconcile, EndOfPass, At
    <2>2. EndOfPass(Server) => At(Server, "idle")'
      BY <1>1 DEF EndOfPass, Fail
    <2> QED BY <1>5, <2>1, <2>2, EndsInv, GoesOnInv DEF TrackOperations, StopInv
  <1>6. CASE PassLags
    <2>1. ~At(Server, "idle")
      BY <1>6 DEF PassLags, At
    <2> QED BY <1>1, <1>6, <2>1, EndsInv DEF PassLags, StopInv
  <1>7. CASE PassFails
    BY <1>1, <1>7, EndsInv DEF PassFails, Abort, Fail, StopInv
  <1>8. CASE Crash
    <2>1. queue' = <<"startup">> /\ timer' = FALSE
      BY <1>8 DEF Crash, StartedWith
    <2>2. queue' \in Seq({"startup", "timer", "caller"}) /\ queue' # <<>>
      BY <2>1
    <2> QED BY <2>1, <2>2 DEF StopInv
  <1>9. CASE TimerFires
    <2>1. /\ queue' = Append(queue, "timer") /\ timer' = FALSE
          /\ proc' = proc
      BY <1>9 DEF TimerFires, StopInv, vars
    <2>2. queue' \in Seq({"startup", "timer", "caller"}) /\ queue' # <<>>
      BY <2>1, AppendProperties DEF StopInv
    <2> QED BY <2>1, <2>2 DEF StopInv
  <1>10. CASE SyncNow
    <2>1. queue' = Append(queue, "caller") /\ UNCHANGED <<timer, closed>>
      BY <1>10 DEF SyncNow
    <2>2. queue' \in Seq({"startup", "timer", "caller"}) /\ queue' # <<>>
      BY <2>1, AppendProperties DEF StopInv
    <2> QED BY <2>1, <2>2 DEF StopInv
  <1>11. CASE StopServer
    BY <1>11 DEF StopServer, StopInv, At, vars
  <1>12. CASE (Advance \/ Jump \/ \E o \in Ops : Submit(o) \/ Decide(o)) /\ GoesOn
    BY <1>12, GoesOnInv DEF Advance, Jump, Submit, Decide
  <1>13. CASE UNCHANGED runtimeVars
    BY <1>13 DEF runtimeVars, vars, lifecycle, StopInv, At
  <1> QED BY <1>2, <1>3, <1>4, <1>5, <1>6, <1>7, <1>8, <1>9, <1>10, <1>11, <1>12, <1>13
      DEF RuntimeNext, PassStep

\* Once stop has waited for the queue nothing runs, nor will a timer fire.
THEOREM StoppedForGood == RuntimeSpec => []StopIsFinal
  <1>1. RuntimeInit => StopInv
    BY ServerIsTheOwner DEF RuntimeInit, Init, StartedWith, StopInv, At, Idle
  <1>2. FullInv /\ StopInv /\ [RuntimeNext]_runtimeVars => StopInv'
    BY StopStep DEF FullInv, IInv
  <1>3. StopInv => StopIsFinal
    BY DEF StopInv, StopIsFinal
  <1> QED BY <1>1, <1>2, <1>3, RuntimeFullInv, PTL DEF RuntimeSpec

-----------------------------------------------------------------------------
(* What the server reports *)

\* A pass reaches the operations, and the Pass contract's head, only once the
\* vault's rows are healthy, and nothing but the next pass disturbs them.
ReportInv ==
    /\ proc[Server].pc \in {"batch", "track", "receipt", "reconcile"} => Healthy
    /\ passCaughtUp => Healthy /\ proc[Server].pc \in {"idle", "track", "receipt", "reconcile"}

\* Every step of the process keeps what it reports true.
LEMMA ReportStep ==
  ASSUME TypeOK, ReportInv, [RuntimeNext]_runtimeVars
  PROVE  ReportInv'
  <1>0. proc \in [Owners -> Passes] /\ proc[Server] \in Passes /\ Server \in Owners
    BY ServerIsTheOwner DEF TypeOK
  <1>1. Stop(Server) => proc'[Server].pc = "idle"
    BY <1>0 DEF Stop, Idle
  <1>2. UNCHANGED storeVars => Healthy' = Healthy
    BY DEF storeVars, Healthy
  <1>3. CASE BeginPass
    <2>1. proc'[Server].pc = "claim"
      BY <1>0, <1>3 DEF BeginPass, Begin, Passes
    <2> QED BY <1>3, <2>1 DEF BeginPass, ReportInv
  <1>4. CASE SyncVault
    <2>1. passCaughtUp' = passCaughtUp
      BY <1>4 DEF SyncVault, GoesOn, runtime, Ends
    <2>2. ~passCaughtUp
      BY <1>4 DEF SyncVault, SyncStep, Begin, Claim, CheckTip, Search, Recover, FetchBlock, RecordBlock,
                  Project, ProjectionFails, Finish, At, ReportInv
    <2>3. ASSUME proc'[Server].pc \in {"batch", "track", "receipt", "reconcile"}
          PROVE  Healthy'
      <3>1. proc'[Server].pc = "batch"
        BY <1>0, <1>4, <2>3, SyncLabels DEF SyncVault, TypeOK
      <3>2. ASSUME NEW label \in {"tip", "recover", "fetch", "logs", "project"}, NEW b,
                   Await(Server, label) \/ AwaitWith(Server, label, b)
            PROVE  FALSE
        BY <1>0, <3>1, <3>2 DEF Await, AwaitWith, Passes
      <3>3. \A number : ~SearchBelow(Server, number)
        BY <1>0, <1>1, <3>1 DEF SearchBelow, Passes
      <3>4. ~Begin(Server)
        BY <1>4 DEF SyncVault, Begin
      <3>5. MarkSyncHealthy(Server, proc[Server].goal)
        BY <1>1, <1>4, <3>1, <3>2, <3>3, <3>4
        DEF SyncVault, SyncStep, Fail, Claim, CheckTip, Search, Recover, FetchBlock, RecordBlock, Project,
            ProjectionFails, Finish
      <3> QED BY <3>5 DEF MarkSyncHealthy, Healthy
    <2> QED BY <2>1, <2>2, <2>3 DEF ReportInv
  <1>5. CASE SyncPass
    <2>1. proc'[Server].pc = "track" /\ Healthy
      BY <1>0, <1>5 DEF SyncPass, SelectBatch, Passes, At, ReportInv
    <2> QED BY <1>2, <1>5, <2>1 DEF SyncPass, SelectBatch, ReportInv
  <1>6. CASE TrackOperations
    <2>1. Healthy /\ Healthy' = Healthy
      BY <1>2, <1>6
      DEF TrackOperations, TrackBatch, TrackOperation, Receipt, ReceiptFails, Reconcile, EndOfPass, At,
          ReportInv, LeftAsItIs, Conclude, Fail, SaveOperationAtCheckpoint, health, Healthy
    <2>2. passCaughtUp' = passCaughtUp
      BY <1>6 DEF TrackOperations, GoesOn, runtime, Ends
    <2>3. proc'[Server].pc \in {"idle", "track", "receipt", "reconcile"}
      <3>1. Untracked(Server) => proc'[Server].pc = "track"
        BY <1>0 DEF Untracked, Passes
      <3>2. \A label \in {"receipt", "reconcile"} : \A tracked :
              Track(Server, label, tracked) => proc'[Server].pc = label
        BY <1>0 DEF Track, Passes
      <3>3. TrackOperation(Server) => proc'[Server].pc \in {"track", "receipt"}
        BY <1>0, <3>2 DEF TrackOperation, At, Passes
      <3>4. Receipt(Server) => proc'[Server].pc \in {"track", "reconcile"}
        BY <3>1, <3>2 DEF Receipt, LeftAsItIs
      <3> QED BY <1>1, <1>6, <3>1, <3>3, <3>4
          DEF TrackOperations, TrackBatch, ReceiptFails, Reconcile, EndOfPass, LeftAsItIs, Conclude, Fail
    <2> QED BY <2>1, <2>2, <2>3 DEF ReportInv
  <1>7. CASE PassLags \/ PassFails
    <2>1. proc'[Server].pc = "idle" /\ UNCHANGED storeVars /\ passCaughtUp' = passCaughtUp
      BY <1>1, <1>7 DEF PassLags, PassFails, Abort, Fail, Ends
    <2> QED BY <1>2, <2>1 DEF ReportInv
  <1>8. CASE Crash
    <2>1. proc'[Server].pc = "idle" /\ passCaughtUp' = FALSE
      BY <1>1, <1>8 DEF Crash, StartedWith
    <2> QED BY <2>1 DEF ReportInv
  <1>9. CASE TimerFires \/ SyncNow \/ StopServer \/ UNCHANGED runtimeVars
    BY <1>2, <1>9 DEF TimerFires, SyncNow, StopServer, runtimeVars, runtime, vars, ReportInv
  <1>10. CASE (Advance \/ Jump \/ \E o \in Ops : Submit(o) \/ Decide(o)) /\ GoesOn
    <2>1. proc' = proc /\ passCaughtUp' = passCaughtUp /\ Healthy' = Healthy
      BY <1>2, <1>10 DEF Advance, Jump, Submit, Decide, GoesOn, runtime, RecordSubmission, RecordOutcome,
                         health, Healthy
    <2> QED BY <2>1 DEF ReportInv
  <1> QED BY <1>3, <1>4, <1>5, <1>6, <1>7, <1>8, <1>9, <1>10 DEF RuntimeNext, PassStep

\* The server is ready only while its projection can be read, whatever pass
\* failed, was cut short or died before.
THEOREM ReadyMeansReadable == RuntimeSpec => []CaughtUpIsReadable
  <1>1. RuntimeInit => ReportInv
    BY ServerIsTheOwner DEF RuntimeInit, Init, StartedWith, ReportInv, Idle
  <1>2. FullInv /\ ReportInv /\ [RuntimeNext]_runtimeVars => ReportInv'
    BY ReportStep DEF FullInv, IInv
  <1>3. ReportInv => CaughtUpIsReadable
    BY DEF ReportInv, CaughtUpIsReadable, CaughtUp, Readable
  <1> QED BY <1>1, <1>2, <1>3, RuntimeFullInv, PTL DEF RuntimeSpec
=============================================================================
