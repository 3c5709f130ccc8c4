------------------------------ MODULE ChainSync ------------------------------
(***************************************************************************)
(* Synchronizers (apps/server/src/chain-sync.ts, driven by                   *)
(* m3-chain-runtime.ts) that share one chain database and read a chain that  *)
(* moves under them.  A step is the code between two awaits: it takes the    *)
(* answer of one RPC call, as the chain stands then, and runs the store      *)
(* transactions that follow it.  Of several transactions in one step only    *)
(* the owner of the lease writes, so nobody else can write in between.      *)
(*                                                                         *)
(* A synchronizer numbers its tokens freshly; one synchronization runs at a  *)
(* time in each, so the synchronizer itself stands for its current token.   *)
(***************************************************************************)
EXTENDS ChainStore

CONSTANTS
    Origin,            \* the block the chain starts from: its first head
    MaxBlocksPerSync,
    ReorgSearchLimit,
    SoftReadyDepth,
    MaxEvidenceBlocks, \* the longest ancestry operationEvidence walks
    MaxJumps,          \* bound: head moves other than an extension
    MaxFaults,         \* bound: failed RPC calls and crashed processes
    MaxDisturbances    \* bound: both together

ASSUME PolicyIsPositive ==
    /\ Origin \in Blocks
    /\ MaxBlocksPerSync \in Nat \ {0}
    /\ ReorgSearchLimit \in Nat \ {0}
    /\ SoftReadyDepth \in Nat \ {0}
    /\ MaxEvidenceBlocks \in Nat
    /\ MaxJumps \in Nat
    /\ MaxFaults \in Nat
    /\ MaxDisturbances \in Nat

VARIABLES
    remote,  \* the head of the chain as the RPC endpoint now sees it
    jumps, faults,
    proc     \* where each synchronizer is in its pass

chainVars == <<remote, jumps, faults>>
vars == <<storeVars, chainVars, proc>>

NotTracking == [op |-> "none"]

\* pc names the answer the synchronizer awaits, head is the head it read when
\* it began and goal the number it synchronizes to, hand the block in its
\* hands (its local tip, the one to record), candidate the number its ancestor
\* search looks at, todo the operations still to track and tracked the one in
\* work, as it was read.
Idle ==
    [pc |-> "idle", head |-> NoBlock, goal |-> 0, hand |-> NoBlock, candidate |-> 0,
     todo |-> {}, tracked |-> NotTracking]

\* An operation whose receipt is awaited, and one whose reconciliation is,
\* with the receipt's block and whether its event was found.
AwaitingReceipt == [op : Ops, read : Operations]
AwaitingState == [op : Ops, read : Operations, block : Blocks, found : BOOLEAN]

Passes ==
    [pc : {"idle", "claim", "tip", "search", "recover", "fetch", "logs", "project",
           "batch", "track", "receipt", "reconcile"},
     head : Blocks \cup {NoBlock}, goal : Nat,
     hand : Blocks \cup {NoBlock}, candidate : Nat,
     todo : SUBSET Ops, tracked : {NotTracking} \cup AwaitingReceipt \cup AwaitingState]

TypeOK ==
    /\ StoreTypeOK
    /\ remote \in Blocks
    /\ jumps \in 0..MaxJumps
    /\ faults \in 0..MaxFaults
    /\ proc \in [Owners -> Passes]

-----------------------------------------------------------------------------
(* The chain, and what an RPC call answers *)

\* The chain that ends in a block.
ChainTo[b \in Blocks] ==
    {b} \cup (IF Parent[b] = NoBlock THEN {} ELSE ChainTo[Parent[b]])

RemoteAt(number) == {b \in ChainTo[remote] : Height[b] = number}
OnRemote(b) == b \in ChainTo[remote]

Includes(b, tx) == tx \in Reverts[b] \/ \E log \in Logs[b] : log.tx = tx
ReceiptBlock(tx) == {b \in ChainTo[remote] : Includes(b, tx)}

\* A transaction runs once on a chain: its sender's nonce is used up.
ASSUME TransactionsRunOnce ==
    \A head \in Blocks : \A a, b \in ChainTo[head] : \A o \in Ops :
        Includes(a, OpTx[o]) /\ Includes(b, OpTx[o]) => a = b

\* The chain grows, or the endpoint that answers next is on another head:
\* a reorganization, or an endpoint that lags.
Advance ==
    /\ \E b \in Blocks : Parent[b] = remote /\ remote' = b
    /\ UNCHANGED <<storeVars, jumps, faults, proc>>

Jump ==
    /\ jumps < MaxJumps /\ jumps + faults < MaxDisturbances
    /\ jumps' = jumps + 1
    /\ \E b \in Blocks \ {remote} : Parent[b] # remote /\ remote' = b
    /\ UNCHANGED <<storeVars, faults, proc>>

-----------------------------------------------------------------------------
(* Control of one synchronizer *)

At(p, label) == proc[p].pc = label
Stop(p) == proc' = [proc EXCEPT ![p] = Idle]

\* The pass fails: an error is thrown and the store stays as it is, its lease
\* included.
Fail(p) == Stop(p) /\ UNCHANGED storeVars

Await(p, label) == proc' = [proc EXCEPT ![p].pc = label]
AwaitWith(p, label, b) == proc' = [proc EXCEPT ![p].pc = label, ![p].hand = b]

Fault ==
    /\ faults < MaxFaults /\ jumps + faults < MaxDisturbances
    /\ faults' = faults + 1
    /\ UNCHANGED <<remote, jumps>>

\* Any RPC call may fail and the process may die: nothing more is written.
\* The calls whose failure is handled are in ProjectionFails, ReceiptFails and
\* Reconcile.
Abort(p) == ~At(p, "idle") /\ Fail(p) /\ Fault

-----------------------------------------------------------------------------
(* One pass: syncToHead and syncTo *)

BoundedHead(latest) ==
    IF NextNumber <= Height[latest] /\ NextNumber + MaxBlocksPerSync - 1 < Height[latest]
    THEN NextNumber + MaxBlocksPerSync - 1
    ELSE Height[latest]

Begin(p) ==
    /\ At(p, "idle")
    /\ proc' = [proc EXCEPT ![p].pc = "claim", ![p].head = remote, ![p].goal = BoundedHead(remote)]
    /\ UNCHANGED <<storeVars, chainVars>>

\* The target of a pass is the head it read, whatever it can reach of it.
Target(p) == Height[proc[p].head]

\* After the claim the synchronizer reads its local tip.
Claim(p) ==
    /\ At(p, "claim")
    /\ \/ /\ RemoteAt(proc[p].goal) # {}
          /\ ClaimSync(p, Target(p))
          /\ AwaitWith(p, IF checkpoint = NoBlock THEN "fetch" ELSE "tip", checkpoint)
       \/ (RemoteAt(proc[p].goal) = {} \/ ~TargetNotBehind(Target(p))) /\ Fail(p)
    /\ UNCHANGED chainVars

\* The search for a common ancestor goes on at the number below, unless it
\* has reached the limit or the deployment block.
WithinLimit(p, number) == number >= 0 /\ Height[proc[p].hand] - number <= ReorgSearchLimit

SearchBelow(p, number) ==
    \/ /\ WithinLimit(p, number)
       /\ proc' = [proc EXCEPT ![p].pc = "search", ![p].candidate = number]
       /\ UNCHANGED storeVars
    \/ /\ ~WithinLimit(p, number)
       /\ \/ MarkSyncUnhealthy(p, IF number >= 0 THEN "CHAIN_REORG_DEPTH_EXCEEDED"
                                  ELSE "CHAIN_REORG_NO_COMMON_ANCESTOR")
          \/ ~Owned(p) /\ UNCHANGED storeVars
       /\ Stop(p)

CheckTip(p) ==
    LET tip == proc[p].hand
    IN  /\ At(p, "tip")
        /\ \/ RemoteAt(Height[tip]) = {} /\ Fail(p)
           \/ OnRemote(tip) /\ Await(p, "recover") /\ UNCHANGED storeVars
           \/ RemoteAt(Height[tip]) \ {tip} # {} /\ SearchBelow(p, Height[tip] - 1)
        /\ UNCHANGED chainVars

AncestorFound(number) == CanonicalAt(number) \cap RemoteAt(number) # {}

Search(p) ==
    LET number == proc[p].candidate
    IN  /\ At(p, "search")
        /\ \/ RemoteAt(number) = {} /\ Fail(p)
           \/ AncestorFound(number) /\ RollbackFromBlock(p, number + 1) /\ Await(p, "recover")
           \/ AncestorFound(number) /\ ~Owned(p) /\ Fail(p)
           \/ RemoteAt(number) # {} /\ ~AncestorFound(number) /\ SearchBelow(p, number - 1)
        /\ UNCHANGED chainVars

\* A checkpoint left without its projection gets one, from the contract's
\* state at that very block.
ProjectionNeverMissing == FALSE
ProjectionMissing == checkpoint # NoBlock /\ projected # checkpoint

Recover(p) ==
    /\ At(p, "recover")
    /\ \/ ~ProjectionMissing /\ AwaitWith(p, "fetch", NoBlock) /\ UNCHANGED storeVars
       \/ /\ ProjectionMissing /\ OnRemote(checkpoint)
          /\ CommitProjections(p, checkpoint) /\ AwaitWith(p, "fetch", NoBlock)
       \/ ProjectionMissing /\ ~(OnRemote(checkpoint) /\ Owned(p)) /\ Fail(p)
    /\ UNCHANGED chainVars

\* The end of the pass.  Only a pass that reached the head it began with
\* makes the projection readable, and may then track operations.
ReachedHead(p) == proc[p].goal = Target(p)
CanComplete(p) == Owned(p) /\ syncError = "CHAIN_SYNC_INCOMPLETE" /\ Completed(proc[p].goal)

Finish(p) ==
    /\ At(p, "fetch")
    /\ NextNumber > proc[p].goal
    /\ \/ ~ReachedHead(p) /\ ReleaseSyncIncomplete(p, Target(p)) /\ Stop(p)
       \/ ~ReachedHead(p) /\ ~Owned(p) /\ Fail(p)
       \/ /\ ReachedHead(p)
          /\ MarkSyncHealthy(p, proc[p].goal)
          /\ Await(p, "batch")
       \/ ReachedHead(p) /\ ~CanComplete(p) /\ Fail(p)
    /\ UNCHANGED chainVars

\* The next block by number.  The number in the loop is the checkpoint's plus
\* one for as long as the synchronizer owns the lease; once it does not, no
\* write of its own succeeds.
InRange(p) == proc[p].goal - NextNumber + 1 <= MaxBlocksPerSync
ParentMatches(b) == checkpoint # NoBlock => Parent[b] = checkpoint

FetchBlock(p) ==
    /\ At(p, "fetch")
    /\ NextNumber <= proc[p].goal
    /\ \/ /\ InRange(p)
          /\ \E b \in RemoteAt(NextNumber) : ParentMatches(b) /\ AwaitWith(p, "logs", b)
          /\ UNCHANGED storeVars
       \/ /\ ~InRange(p) \/ \A b \in RemoteAt(NextNumber) : ~ParentMatches(b)
          /\ Fail(p)
    /\ UNCHANGED chainVars

\* The logs are asked for by number: another block at that number answers
\* with its own, which are refused, and an endpoint without any log at that
\* number answers with none.
LogsAnswered(block) == UNION {Logs[b] : b \in RemoteAt(Height[block])}
LogsMatch(block) == OnRemote(block) \/ LogsAnswered(block) = {}

Recordable(p, block) ==
    /\ LogsMatch(block)
    /\ Owned(p)
    /\ ExtendsCheckpoint(block)
    /\ ~EventConflict(LogsAnswered(block))

RecordBlock(p) ==
    LET block == proc[p].hand
    IN  /\ At(p, "logs")
        /\ \/ /\ LogsMatch(block)
              /\ RecordCanonicalBlock(p, block, LogsAnswered(block), Target(p))
              /\ Await(p, "project")
           \/ ~Recordable(p, block) /\ Fail(p)
        /\ UNCHANGED chainVars

\* The projection is the contract's state read by the block's hash.
Project(p) ==
    /\ At(p, "project")
    /\ OnRemote(proc[p].hand)
    /\ CommitProjections(p, proc[p].hand)
    /\ AwaitWith(p, "fetch", NoBlock)
    /\ UNCHANGED chainVars

\* Otherwise the block just recorded is taken back, by its owner only.
ProjectionFails(p) ==
    /\ At(p, "project")
    /\ \/ ~(OnRemote(proc[p].hand) /\ Owned(p)) /\ UNCHANGED chainVars
       \/ Fault
    /\ \/ RollbackFromBlock(p, Height[proc[p].hand])
       \/ ~Owned(p) /\ UNCHANGED storeVars
    /\ Stop(p)

-----------------------------------------------------------------------------
(* Tracking the operations of a completed pass: trackOperation *)

\* Whoever drives the synchronizer chooses among the trackable operations.
TrackableOps == {o \in Ops : ops[o].state \in Trackable}
SelectBatch(p, batch) ==
    /\ At(p, "batch")
    /\ proc' = [proc EXCEPT ![p].pc = "track", ![p].todo = batch]
    /\ UNCHANGED <<storeVars, chainVars>>

\* The pass goes on with the next operation.
Untracked(p) ==
    proc' = [proc EXCEPT ![p].pc = "track", ![p].todo = @ \ {proc[p].tracked.op},
                         ![p].tracked = NotTracking]
LeftAsItIs(p) == Untracked(p) /\ UNCHANGED storeVars

Track(p, label, tracked) == proc' = [proc EXCEPT ![p].pc = label, ![p].tracked = tracked]

EndOfPass(p) ==
    /\ At(p, "track")
    /\ proc[p].todo = {}
    /\ Fail(p)
    /\ UNCHANGED chainVars

\* The completed pass must still be the store's state.
PassIsCurrent(p) == checkpoint = proc[p].head /\ Healthy

TrackOperation(p) ==
    /\ At(p, "track")
    /\ \E o \in proc[p].todo :
        \/ PassIsCurrent(p) /\ Track(p, "receipt", [op |-> o, read |-> ops[o]])
        \/ ~PassIsCurrent(p) /\ proc' = [proc EXCEPT ![p].todo = @ \ {o}]
    /\ UNCHANGED <<storeVars, chainVars>>

\* A receipt that is missing, of another sender, or of a block the store does
\* not hold canonical changes nothing.
ReceiptOnAnyBlock(o) == {b \in ReceiptBlock(OpTx[o]) : OpClaim[o] # "foreign owner"}
UsableReceipt(o) ==
    {b \in ReceiptBlock(OpTx[o]) : OpClaim[o] # "foreign owner" /\ rows[b] = "canonical"}

\* The conditions under which the code asks transitionOperation for a
\* transition are within its table.
AwaitsReceipt(op) == op.state \in {"SUBMITTED", "REORGED"}
AfterReceipt(op, tx, b) ==
    IF AwaitsReceipt(op)
    THEN WithReceipt(op, IF tx \in Reverts[b] THEN "REVERTED" ELSE "MINED", b)
    ELSE op

AwaitsAlsoConfirmed(op, tx, b) ==
    /\ tx \notin Reverts[b]
    /\ op.state \in {"MINED", "CONFIRMING", "CONFIRMED", "RECONCILIATION_FAILED"}
AwaitsReconciliation(op, tx, b) ==
    tx \notin Reverts[b] /\ op.state \in {"MINED", "CONFIRMING", "RECONCILIATION_FAILED"}

\* Exactly one event of the transaction, and it is the submitted call's.
AnyEventFound(o) == Cardinality(EventsOf(OpTx[o])) = 1
EvidenceFound(o) == Cardinality(EventsOf(OpTx[o])) = 1 /\ OpClaim[o] = "genuine"

Receipt(p) ==
    LET o == proc[p].tracked.op
        read == proc[p].tracked.read
    IN  /\ At(p, "receipt")
        /\ \/ UsableReceipt(o) = {} /\ LeftAsItIs(p)
           \/ UsableReceipt(o) # {} /\ AwaitsReceipt(read)
              /\ ~StillCurrent(o, read, proc[p].head) /\ LeftAsItIs(p)
           \/ \E b \in UsableReceipt(o) :
                LET op == AfterReceipt(read, OpTx[o], b)
                IN  /\ \/ SaveOperationAtCheckpoint(o, op, read, proc[p].head) /\ AwaitsReceipt(read)
                       \/ ~AwaitsReceipt(read) /\ UNCHANGED storeVars
                    /\ \/ /\ AwaitsReconciliation(op, OpTx[o], b)
                          /\ Track(p, "reconcile",
                                   [op |-> o, read |-> op, block |-> b, found |-> EvidenceFound(o)])
                       \/ ~AwaitsReconciliation(op, OpTx[o], b) /\ Untracked(p)
        /\ UNCHANGED chainVars

\* A failed call fails the tracking of this operation only.
ReceiptFails(p) == At(p, "receipt") /\ LeftAsItIs(p) /\ Fault

\* The operation with matching evidence and the confirmations of this pass.
Confirmations(p) == Target(p) - Height[proc[p].tracked.block] + 1
Reconciled(op, confirmations) ==
    IF confirmations >= SoftReadyDepth
    THEN Confirmed(op, confirmations) ELSE Confirming(op, confirmations)

\* Saves a conclusion, or drops it when what it rests on has changed.
Conclude(p, next) ==
    LET tracked == proc[p].tracked
        block == proc[p].head
    IN  /\ Untracked(p)
        /\ \/ SaveOperationAtCheckpoint(tracked.op, next, tracked.read, block)
           \/ /\ ~(StillCurrent(tracked.op, tracked.read, block) /\ BindingFree(tracked.op, next))
              /\ UNCHANGED storeVars

\* The contract's state at the block decides; a call that fails counts as a
\* mismatch.
Matches(p) == proc[p].tracked.found /\ OnRemote(proc[p].tracked.block)

Reconcile(p) ==
    LET op == proc[p].tracked.read
    IN  /\ At(p, "reconcile")
        /\ \/ /\ Matches(p) /\ UNCHANGED chainVars
              /\ \/ CountAcceptable(op, Confirmations(p)) /\ Conclude(p, Reconciled(op, Confirmations(p)))
                 \/ ~CountAcceptable(op, Confirmations(p)) /\ LeftAsItIs(p)
           \/ /\ (~Matches(p) /\ UNCHANGED chainVars) \/ Fault
              /\ \/ op.state # "RECONCILIATION_FAILED" /\ Conclude(p, ReconciliationFailed(op))
                 \/ op.state = "RECONCILIATION_FAILED" /\ LeftAsItIs(p)

-----------------------------------------------------------------------------
(* The browsers and the backend operator *)

Submit(o) == RecordSubmission(o) /\ UNCHANGED <<chainVars, proc>>

Decide(o) ==
    /\ \E state \in {"REPLACED", "DROPPED"} : RecordOutcome(o, state)
    /\ UNCHANGED <<chainVars, proc>>

-----------------------------------------------------------------------------
(* The specification *)

Init ==
    /\ StoreInit
    /\ remote = Origin
    /\ jumps = 0
    /\ faults = 0
    /\ proc = [p \in Owners |-> Idle]

SyncStep(p) ==
    \/ Begin(p) \/ Claim(p) \/ CheckTip(p) \/ Search(p) \/ Recover(p)
    \/ FetchBlock(p) \/ RecordBlock(p) \/ Project(p) \/ ProjectionFails(p) \/ Finish(p)

TrackBatch(p) ==
    \/ TrackOperation(p) \/ Receipt(p) \/ ReceiptFails(p) \/ Reconcile(p) \/ EndOfPass(p)

TrackStep(p) == TrackBatch(p) \/ \E batch \in SUBSET TrackableOps : SelectBatch(p, batch)

Next ==
    \/ Advance
    \/ Jump
    \/ \E p \in Owners : SyncStep(p) \/ TrackStep(p) \/ Abort(p)
    \/ \E o \in Ops : Submit(o) \/ Decide(o)

Spec == Init /\ [][Next]_vars

-----------------------------------------------------------------------------
(* Properties of the store under its synchronizers *)

\* The blocks held canonical are one chain, from a deployment block to the
\* checkpoint, whatever reorganization, failure or takeover cut a pass short.
CanonicalPath ==
    /\ checkpoint = NoBlock => Canonical = {}
    /\ checkpoint # NoBlock => Canonical = ChainTo[checkpoint]

\* A row that reads healthy is complete: nobody holds the lease, no target is
\* outstanding and the projection is that of the checkpoint.  A row that does
\* not read healthy keeps a target exactly when it is incomplete.
HealthyIsComplete ==
    checkpoint # NoBlock =>
        /\ syncError = "none" => lease = NoLease /\ projected = checkpoint
        /\ syncTarget # NoTarget <=> syncError = "CHAIN_SYNC_INCOMPLETE"

\* Every canonical event row is of a canonical block, once per transaction
\* and log index.
EventsOnCanonicalBlocks ==
    \A row \in events :
        /\ row.canonical => rows[row.block] = "canonical"
        /\ \A other \in events : SameEvent(row, other.log) => row = other

\* An operation's receipt is shown as canonical only while the block that
\* includes its transaction is canonical in the store.
ReceiptsOnCanonicalBlocks ==
    \A o \in Ops :
        /\ ops[o].canonical <=> ops[o].state \in Included
        /\ ops[o].canonical => rows[ops[o].block] = "canonical" /\ Includes(ops[o].block, OpTx[o])

\* A reconciled operation has its event in the store, on the block of its
\* receipt, was reported by the transaction's own sender, and no other
\* operation is bound to the same transaction.
ReconciledIsProved ==
    \A o \in Ops : ops[o].reconciled =>
        /\ OpClaim[o] = "genuine"
        /\ \E row \in EventsOf(OpTx[o]) : row.block = ops[o].block
        /\ \A q \in Ops \ {o} : SameTransaction(o, q) => ~ops[q].reconciled

\* operationEvidence walks the canonical rows from the operation's block to
\* the checkpoint, and gives up on an ancestry too long to walk.
Depth(o) == Height[checkpoint] - Height[ops[o].block] + 1
EvidencePath(o) == {b \in Canonical : Height[b] \in Height[ops[o].block]..Height[checkpoint]}

CanonicalAncestry(o) ==
    /\ Depth(o) \in 1..MaxEvidenceBlocks
    /\ Cardinality(EvidencePath(o)) = Depth(o)
    /\ {ops[o].block, checkpoint} \subseteq EvidencePath(o)
    /\ \A b \in EvidencePath(o) \ {ops[o].block} : Parent[b] \in EvidencePath(o)

\* operationEvidence's productReady
ProductReady(o) ==
    /\ ops[o].state = "CONFIRMED"
    /\ ops[o].canonical
    /\ ops[o].reconciled
    /\ Readable
    /\ CanonicalAncestry(o)

\* A confirmed operation is ready as soon as the projection can be read, its
\* ancestry permitting: the walk never finds it on another fork.
ConfirmedIsReady ==
    \A o \in Ops :
        ops[o].state = "CONFIRMED" /\ Readable /\ Depth(o) <= MaxEvidenceBlocks => ProductReady(o)

\* A required target is given up only by reaching it, or by recording a
\* reorganization fault.
TargetsAreKept ==
    [][RequiredTarget' < RequiredTarget =>
          \/ Readable' /\ Height[checkpoint'] >= RequiredTarget
          \/ syncError' \in Faults]_vars

\* Blocks, events and projections are written by the owner of the lease and
\* by nobody it superseded.
OnlyTheOwnerWrites ==
    [][<<rows, events, checkpoint, projected>>' # <<rows, events, checkpoint, projected>> =>
          \E p \in Owners : lease.owner = p /\ lease'.owner = p /\ proc'[p] # proc[p]]_vars

\* A confirmed operation stays as it is until its block is displaced, and is
\* taken back in the same step.
ConfirmationStandsWithItsBlock ==
    [][\A o \in Ops : ops[o].state = "CONFIRMED" =>
          \/ ops'[o] = ops[o] /\ rows'[ops[o].block] = "canonical"
          \/ ops'[o].state = "REORGED" /\ rows'[ops[o].block] = "displaced"]_vars

\* An operation is confirmed only in a readable store that holds SoftReadyDepth
\* canonical blocks from its receipt on, not when a pass overtaken by another
\* one believed so.  The exception needs two synchronizers and a chain that
\* leaves a fork and comes back: operations are compared by value, so one that
\* was displaced and mined again on its block passes for unchanged, and the
\* confirmations may be those of a lower block it was on in between.
ConfirmedAtDepth ==
    [][\A o \in Ops : ops[o].state # "CONFIRMED" /\ ops'[o].state = "CONFIRMED" =>
          /\ Readable'
          /\ \/ Depth(o)' >= SoftReadyDepth
             \/ \E b \in Blocks :
                   /\ rows[b] = "displaced" /\ Includes(b, OpTx[o])
                   /\ Height[b] < Height[ops'[o].block]]_vars

-----------------------------------------------------------------------------
(* What the documentation says and the code does not keep *)

\* docs/M3-CHAIN-ADAPTER.md: the canonical events are those a replay from the
\* deployment block would reconstruct.  Logs that were answered by another
\* endpoint than the block are missing from a block indexed for good.
EventsComplete ==
    Readable => \A b \in Canonical : \A log \in Logs[b] :
        [log |-> log, block |-> b, canonical |-> TRUE] \in events

\* docs/M3-CHAIN-ADAPTER.md: an unrecoverable reorganization persists its fault
\* and requires manual recovery.  The next automatic pass replaces it.
FaultPersists == [][(syncError \in Faults) => syncError' = syncError]_vars

\* docs/M3-CHAIN-ADAPTER.md: CONFIRMED means, among others, the configured
\* soft-readiness depth.  A pass that began on a lagging head and then met a
\* reorganization makes a shorter chain readable, on which an operation below
\* the fork is ready without that depth.
ReadyIsDeepEnough == \A o \in Ops : ProductReady(o) => Depth(o) >= SoftReadyDepth
=============================================================================
