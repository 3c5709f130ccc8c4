----------------------------- MODULE ChainStore -----------------------------
(***************************************************************************)
(* The chain database of one contract (apps/server/src/chain-store.ts): one  *)
(* operator per SQLite transaction.  Each is a conjunction of what the       *)
(* transaction requires and what it writes; where the code throws, the       *)
(* transaction rolls back and the operator is false.                        *)
(*                                                                         *)
(* The chain is a finite forest of blocks that anybody may present: what     *)
(* the store knows of it is only what is recorded here.                      *)
(***************************************************************************)
EXTENDS OperationLifecycle, FiniteSets

CONSTANTS
    Blocks,     \* the blocks of every fork, from the deployment block up
    Parent,     \* Parent[b], NoBlock for a deployment block
    Height,     \* Height[b] is b's number minus the deployment block's
    Logs,       \* Logs[b]: the contract's events in b, as [tx, index, payload]
    Reverts,    \* Reverts[b]: the transactions b includes as reverted
    Owners,     \* the synchronizers that may hold the lease
    NoOwner,
    Ops,        \* the operations browsers report
    OpTx,       \* the transaction each of them names
    OpClaim     \* whose transaction and calldata it claims to be

NoTarget == -1

ASSUME ChainIsAForest ==
    /\ NoBlock \notin Blocks
    /\ Height \in [Blocks -> Nat]
    /\ Parent \in [Blocks -> Blocks \cup {NoBlock}]
    /\ \A b \in Blocks :
         IF Parent[b] = NoBlock THEN Height[b] = 0 ELSE Height[b] = Height[Parent[b]] + 1
\* A log is told from the others of its block by transaction and index.
ASSUME LogsHavePositions ==
    \A b \in Blocks : \A log, other \in Logs[b] :
        log.tx = other.tx /\ log.index = other.index => log = other
ASSUME OwnersAreTokens == NoOwner \notin Owners
ASSUME OpsAreReported ==
    \A o \in Ops : OpClaim[o] \in {"genuine", "foreign owner", "foreign calldata"}

VARIABLES
    rows,        \* chain_blocks: "absent", "canonical" or "displaced"
    events,      \* chain_events: records [log, block, canonical]
    checkpoint,  \* the indexed block of chain_checkpoints, NoBlock without a row
    projected,   \* the projected block of that row, and of the projection rows
    syncError,   \* its sync_error, "none" when sync_healthy = 1
    syncTarget,  \* its sync_target_block_number
    lease,       \* chain_sync_leases: [owner, target]
    ops          \* chain_transactions

storeVars == <<rows, events, checkpoint, projected, syncError, syncTarget, lease, ops>>
health == <<syncError, syncTarget, lease>>

Faults == {"CHAIN_REORG_DEPTH_EXCEEDED", "CHAIN_REORG_NO_COMMON_ANCESTOR"}
NoLease == [owner |-> NoOwner, target |-> NoTarget]
Targets == {NoTarget} \cup {Height[b] : b \in Blocks}
Operations ==
    [state : States, block : Blocks \cup {NoBlock}, confirmations : Nat,
     canonical : BOOLEAN, reconciled : BOOLEAN]

StoreTypeOK ==
    /\ rows \in [Blocks -> {"absent", "canonical", "displaced"}]
    /\ \A row \in events :
          row \in [log : Logs[row.block], block : Blocks, canonical : BOOLEAN]
    /\ checkpoint \in Blocks \cup {NoBlock}
    /\ projected \in Blocks \cup {NoBlock}
    /\ syncError \in {"none", "CHAIN_SYNC_INCOMPLETE"} \cup Faults
    /\ syncTarget \in Targets
    /\ lease \in [owner : Owners \cup {NoOwner}, target : Targets]
    /\ ops \in [Ops -> Operations]

StoreInit ==
    /\ rows = [b \in Blocks |-> "absent"]
    /\ events = {}
    /\ checkpoint = NoBlock
    /\ projected = NoBlock
    /\ syncError = "none"
    /\ syncTarget = NoTarget
    /\ lease = NoLease
    /\ ops = [o \in Ops |-> Absent]

-----------------------------------------------------------------------------
(* Reads *)

Canonical == {b \in Blocks : rows[b] = "canonical"}
CanonicalAt(number) == {b \in Canonical : Height[b] = number}
NextNumber == IF checkpoint = NoBlock THEN 0 ELSE Height[checkpoint] + 1
EventsOf(tx) == {row \in events : row.canonical /\ row.log.tx = tx}
Greater(m, n) == IF m > n THEN m ELSE n

\* #assertSyncOwner: the caller's token, NoOwner for none, is the lease's.
AnyOwner(token) == TRUE
Owned(token) == lease.owner = token

\* syncHealth: no lease, and no row yet or a healthy one.
Healthy == lease = NoLease /\ syncError = "none"

\* projection serves the projection rows only in this state.
Readable == Healthy /\ checkpoint # NoBlock /\ projected = checkpoint

\* The target no synchronization may go below.
RequiredTarget == Greater(lease.target, syncTarget)

-----------------------------------------------------------------------------
(* Synchronization transactions *)

TargetNotBehind(target) == target >= RequiredTarget

ClaimSync(token, target) ==
    /\ TargetNotBehind(target)
    /\ lease' = [owner |-> token, target |-> Greater(target, RequiredTarget)]
    /\ \/ /\ checkpoint = NoBlock
          /\ UNCHANGED <<syncError, syncTarget>>
       \/ /\ checkpoint # NoBlock
          /\ syncError' = "CHAIN_SYNC_INCOMPLETE"
          /\ syncTarget' = Greater(target, RequiredTarget)
    /\ UNCHANGED <<rows, events, checkpoint, projected, ops>>

\* Only the two reorganization faults are ever marked this way.
MarkSyncUnhealthy(token, fault) ==
    /\ Owned(token)
    /\ checkpoint # NoBlock
    /\ syncError' = fault
    /\ syncTarget' = NoTarget
    /\ lease' = NoLease
    /\ UNCHANGED <<rows, events, checkpoint, projected, ops>>

\* What a synchronization must have reached to make the projection readable.
Completed(completed) ==
    /\ Height[checkpoint] >= completed
    /\ projected = checkpoint
    /\ syncTarget <= completed

MarkSyncHealthy(token, completed) ==
    /\ Owned(token)
    /\ checkpoint # NoBlock
    /\ syncError = "CHAIN_SYNC_INCOMPLETE"
    /\ Completed(completed)
    /\ syncError' = "none"
    /\ syncTarget' = NoTarget
    /\ lease' = NoLease
    /\ UNCHANGED <<rows, events, checkpoint, projected, ops>>

TargetClearedOnRelease(target) == NoTarget
TargetOnRelease(target) == Greater(syncTarget, target)

ReleaseSyncIncomplete(token, target) ==
    /\ Owned(token)
    /\ checkpoint # NoBlock
    /\ syncError' = "CHAIN_SYNC_INCOMPLETE"
    /\ syncTarget' = TargetOnRelease(target)
    /\ lease' = NoLease
    /\ UNCHANGED <<rows, events, checkpoint, projected, ops>>

\* A block extends the checkpoint, by number and by parent hash.  (A block
\* recorded twice would have to be identical; no caller records one twice.)
ExtendsCheckpoint(block) ==
    /\ CanonicalAt(Height[block]) = {}
    /\ checkpoint # NoBlock => Height[block] = Height[checkpoint] + 1 /\ Parent[block] = checkpoint

SameEvent(row, log) == row.log.tx = log.tx /\ row.log.index = log.index

\* An event already stored may only come back when it was displaced and its
\* payload is unchanged.
EventConflict(logs) ==
    \E row \in events, log \in logs :
        SameEvent(row, log) /\ (row.canonical \/ row.log.payload # log.payload)

EventsWith(logs, block) ==
    {row \in events : \A log \in logs : ~SameEvent(row, log)}
    \cup {[log |-> log, block |-> block, canonical |-> TRUE] : log \in logs}

\* A new row would read healthy: recording makes it incomplete at once.
RecordedErrorKept == syncError
RecordedError == "CHAIN_SYNC_INCOMPLETE"

RecordCanonicalBlock(token, block, logs, target) ==
    /\ target >= Height[block]
    /\ Owned(token)
    /\ ExtendsCheckpoint(block)
    /\ ~EventConflict(logs)
    /\ rows' = [rows EXCEPT ![block] = "canonical"]
    /\ events' = EventsWith(logs, block)
    /\ checkpoint' = block
    /\ syncError' = RecordedError
    /\ syncTarget' = Greater(syncTarget, target)
    /\ UNCHANGED <<projected, lease, ops>>

CommitProjections(token, block) ==
    /\ Owned(token)
    /\ rows[block] = "canonical"
    /\ checkpoint = block
    /\ projected' = block
    /\ UNCHANGED <<rows, events, checkpoint, syncError, syncTarget, lease, ops>>

\* The operations a rollback displaces: those whose receipt it removes.
DisplacedExceptConfirmed(op, number) ==
    op.state \in Included \ {"CONFIRMED"} /\ Height[op.block] >= number
DisplacedBy(op, number) == op.state \in Included /\ Height[op.block] >= number

DisplacesAbove(b, number) == rows[b] = "canonical" /\ Height[b] > number
Displaces(b, number) == rows[b] = "canonical" /\ Height[b] >= number

StandsAnyway(row, number) == row.canonical
Stands(row, number) == row.canonical /\ Height[row.block] < number

ProjectedAfterRollback == NoBlock

\* Without any canonical block left the checkpoint row goes, and with it the
\* health and target it holds; the lease stays.
RollbackFromBlock(token, number) ==
    /\ Owned(token)
    /\ rows' = [b \in Blocks |-> IF Displaces(b, number) THEN "displaced" ELSE rows[b]]
    /\ events' = {[row EXCEPT !.canonical = Stands(row, number)] : row \in events}
    /\ ops' = [o \in Ops |-> IF DisplacedBy(ops[o], number)
                              THEN Displaced(ops[o], "REORGED") ELSE ops[o]]
    /\ \/ /\ \A b \in Canonical : Height[b] >= number
          /\ checkpoint' = NoBlock
          /\ projected' = NoBlock
          /\ syncError' = "none"
          /\ syncTarget' = NoTarget
       \/ \E b \in Canonical :
             /\ Height[b] < number
             /\ \A c \in Canonical : Height[c] < number => Height[c] <= Height[b]
             /\ checkpoint' = b
             /\ projected' = ProjectedAfterRollback
             /\ UNCHANGED <<syncError, syncTarget>>
    /\ UNCHANGED lease

-----------------------------------------------------------------------------
(* Operations *)

SameTransaction(o, q) == OpTx[o] = OpTx[q]

\* recordSubmission: a known operation is answered from its row; a new one
\* must not name a transaction that another one already proved to be its own,
\* nor repeat another one's report.
RecordSubmission(o) ==
    /\ ops[o].state = "ABSENT"
    /\ \A q \in Ops \ {o} : SameTransaction(o, q) /\ ops[q].state # "ABSENT" =>
          ~ops[q].reconciled /\ OpClaim[q] # OpClaim[o]
    /\ ops' = [ops EXCEPT ![o] = Submitted]
    /\ UNCHANGED <<rows, events, checkpoint, projected, health>>

\* recordReplacement and recordDropped save the backend's decision.
RecordOutcome(o, state) ==
    /\ state \in {"REPLACED", "DROPPED"}
    /\ CanBecome(ops[o], state)
    /\ ops' = [ops EXCEPT ![o] = Displaced(@, state)]
    /\ UNCHANGED <<rows, events, checkpoint, projected, health>>

\* The unique index over reconciled transactions.
BindingFree(o, next) ==
    next.reconciled => \A q \in Ops \ {o} : SameTransaction(o, q) => ~ops[q].reconciled

\* saveOperationAtCheckpoint: nothing changed since the caller read the
\* operation and the checkpoint it works from.
UnchangedExceptCheckpoint(o, expected, block) == ops[o] = expected
StillCurrent(o, expected, block) ==
    /\ Owned(NoOwner)
    /\ checkpoint = block
    /\ projected = checkpoint
    /\ syncError = "none"
    /\ syncTarget = NoTarget
    /\ ops[o] = expected

SaveOperationAtCheckpoint(o, next, expected, block) ==
    /\ StillCurrent(o, expected, block)
    /\ BindingFree(o, next)
    /\ ops' = [ops EXCEPT ![o] = next]
    /\ UNCHANGED <<rows, events, checkpoint, projected, health>>
=============================================================================
