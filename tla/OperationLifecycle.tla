------------------------- MODULE OperationLifecycle -------------------------
(***************************************************************************)
(* The closed lifecycle of a chain operation: the transition table and      *)
(* transitionOperation of packages/chain-adapter/src/lifecycle.ts, as pure   *)
(* operators on the evidence an operation carries.  Identity (chain, owner,  *)
(* target, calldata), times and error codes are left out.                   *)
(***************************************************************************)
EXTENDS Integers

CONSTANT NoBlock

AllowedFrom ==
    [AWAITING_SIGNATURE    |-> {"SUBMITTED", "REJECTED"},
     SUBMITTED             |-> {"MINED", "REVERTED", "REPLACED", "DROPPED"},
     MINED                 |-> {"CONFIRMING", "RECONCILIATION_FAILED", "REORGED"},
     CONFIRMING            |-> {"CONFIRMING", "CONFIRMED", "RECONCILIATION_FAILED", "REORGED"},
     CONFIRMED             |-> {"REORGED"},
     REJECTED              |-> {},
     REVERTED              |-> {"REORGED"},
     REPLACED              |-> {},
     DROPPED               |-> {},
     REORGED               |-> {"MINED", "REVERTED", "REPLACED", "DROPPED"},
     RECONCILIATION_FAILED |-> {"CONFIRMING", "REORGED"}]

\* ABSENT is the operation the store has no row of.
States == DOMAIN AllowedFrom \cup {"ABSENT"}

\* The states whose evidence includes a receipt on a canonical block.
Included == {"MINED", "CONFIRMING", "CONFIRMED", "REVERTED", "RECONCILIATION_FAILED"}

\* The states the synchronizer goes on tracking (trackableOperationIds).
Trackable == {"SUBMITTED", "MINED", "CONFIRMING", "REORGED", "RECONCILIATION_FAILED"}

Absent ==
    [state |-> "ABSENT", block |-> NoBlock, confirmations |-> 0,
     canonical |-> FALSE, reconciled |-> FALSE]

\* createOperation, followed at once by the transition to SUBMITTED
Submitted == [Absent EXCEPT !.state = "SUBMITTED"]

CanBecome(op, state) == op.state \in DOMAIN AllowedFrom /\ state \in AllowedFrom[op.state]

\* A new receipt restarts the confirmations and drops the reconciliation.
WithReceipt(op, state, block) ==
    [op EXCEPT !.state = state, !.block = block, !.confirmations = 0,
               !.canonical = TRUE, !.reconciled = FALSE]

\* Confirmations never go down while the operation stays on its block.
CountAcceptable(op, confirmations) == confirmations >= op.confirmations

Confirming(op, confirmations) ==
    [op EXCEPT !.state = "CONFIRMING", !.confirmations = confirmations, !.reconciled = TRUE]

Confirmed(op, confirmations) ==
    [op EXCEPT !.state = "CONFIRMED", !.confirmations = confirmations,
               !.reconciled = TRUE, !.canonical = TRUE]

\* REORGED, REPLACED and DROPPED: the last receipt's block stays as history.
Displaced(op, state) ==
    [op EXCEPT !.state = state, !.canonical = FALSE, !.reconciled = FALSE]

ReconciliationFailed(op) ==
    [op EXCEPT !.state = "RECONCILIATION_FAILED", !.reconciled = FALSE]
=============================================================================
