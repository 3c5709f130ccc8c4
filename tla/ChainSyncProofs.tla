--------------------------- MODULE ChainSyncProofs ---------------------------
(***************************************************************************)
(* Proofs about any number of synchronizers on one chain database, any       *)
(* forest of blocks, and any bounds: the store's safety invariants, and what  *)
(* no step of theirs may do.                                                *)
(*                                                                         *)
(* Every step is first reduced to its effect on the store (Effect), then each *)
(* conjunct of the invariant is followed through the effects that touch it.  *)
(***************************************************************************)
EXTENDS ChainSync, TLAPS, FiniteSetTheorems, FunctionTheorems

-----------------------------------------------------------------------------
(* Chains of blocks *)

\* A set of numbers has a least one.
LEMMA LeastNumber ==
  ASSUME NEW T, T \subseteq Nat, T # {}
  PROVE  \E n \in T : \A m \in T : n <= m
  <1> DEFINE R == {ss \in Nat \X Nat : ss[1] < ss[2]}
  <1>1. IsWellFoundedOn(R, Nat)
    BY NatLessThanWellFounded, Zenon DEF OpToRel
  <1> HIDE DEF R
  <1>2. PICK n \in T : \A m \in T : ~(<<m, n>> \in R)
    BY <1>1, WFMin
  <1>3. \A m \in T : ~(m < n)
    BY <1>2 DEF R
  <1> QED BY <1>3

\* A set of blocks closed under parents.
Below(S) == \A b \in S : Parent[b] # NoBlock => Parent[b] \in S

\* ChainTo is what its definition says: the least set closed under parents is one
\* that satisfies it.
LEMMA ChainUnfolds ==
  ASSUME NEW b \in Blocks
  PROVE  ChainTo[b] = {b} \cup (IF Parent[b] = NoBlock THEN {} ELSE ChainTo[Parent[b]])
  <1> DEFINE C == [c \in Blocks |->
                     {a \in Blocks : \A S \in SUBSET Blocks : c \in S /\ Below(S) => a \in S}]
             U(F) == [c \in Blocks |->
                     {c} \cup (IF Parent[c] = NoBlock THEN {} ELSE F[Parent[c]])]
  <1>1. ASSUME NEW c \in Blocks
        PROVE  C[c] = {c} \cup (IF Parent[c] = NoBlock THEN {} ELSE C[Parent[c]])
    <2> DEFINE D == {c} \cup (IF Parent[c] = NoBlock THEN {} ELSE C[Parent[c]])
    <2>1. D \subseteq C[c]
      BY ChainIsAForest DEF Below
    <2>2. D \in SUBSET Blocks /\ c \in D
      BY ChainIsAForest
    <2>3. Below(D)
      BY ChainIsAForest DEF Below
    <2>4. C[c] \subseteq D
      BY <2>2, <2>3
    <2> QED BY <2>1, <2>4
  <1>2. C = U(C)
    BY <1>1
  <1>3. ChainTo = CHOOSE F : F = U(F)
    BY DEF ChainTo
  <1>4. ChainTo = U(ChainTo)
    BY <1>2, <1>3
  <1> QED BY <1>4

\* One step down a chain.
LEMMA ChainStepDown ==
  ASSUME NEW b \in Blocks
  PROVE  /\ b \in ChainTo[b]
         /\ Parent[b] = NoBlock => Height[b] = 0 /\ ChainTo[b] = {b}
         /\ Parent[b] # NoBlock =>
              /\ Parent[b] \in Blocks
              /\ Height[b] = Height[Parent[b]] + 1
              /\ ChainTo[b] = {b} \cup ChainTo[Parent[b]]
  BY ChainIsAForest, ChainUnfolds

\* Below its end a chain is lower.
LEMMA ChainHeights ==
  ASSUME NEW b \in Blocks
  PROVE  \A a \in ChainTo[b] : a \in Blocks /\ (a = b \/ Height[a] < Height[b])
  <1> DEFINE Bad(c) == \E a \in ChainTo[c] : ~(a \in Blocks /\ (a = c \/ Height[a] < Height[c]))
             T == {n \in Nat : \E c \in Blocks : Height[c] = n /\ Bad(c)}
  <1>1. ASSUME T # {} PROVE FALSE
    <2>1. PICK n \in T : \A m \in T : n <= m
      BY <1>1, LeastNumber
    <2>2. PICK c \in Blocks : Height[c] = n /\ Bad(c)
      BY <2>1
    <2>3. Parent[c] # NoBlock
      BY <2>2, ChainStepDown
    <2>4. ~Bad(Parent[c])
      BY <2>1, <2>2, <2>3, ChainStepDown, ChainIsAForest
    <2>5. ~Bad(c)
      BY <2>3, <2>4, ChainStepDown, ChainIsAForest
    <2> QED BY <2>2, <2>5
  <1>2. Height[b] \in Nat
    BY ChainIsAForest
  <1> QED BY <1>1, <1>2

\* A block cuts a chain it is on at its own height.
LEMMA ChainBelow ==
  ASSUME NEW b \in Blocks, NEW a \in ChainTo[b]
  PROVE  ChainTo[a] = {c \in ChainTo[b] : Height[c] <= Height[a]}
  <1> DEFINE Bad(c) == \E x \in ChainTo[c] : ChainTo[x] # {y \in ChainTo[c] : Height[y] <= Height[x]}
             T == {n \in Nat : \E c \in Blocks : Height[c] = n /\ Bad(c)}
  <1>1. ASSUME T # {} PROVE FALSE
    <2>1. PICK n \in T : \A m \in T : n <= m
      BY <1>1, LeastNumber
    <2>2. PICK c \in Blocks : Height[c] = n /\ Bad(c)
      BY <2>1
    <2>3. PICK x \in ChainTo[c] : ChainTo[x] # {y \in ChainTo[c] : Height[y] <= Height[x]}
      BY <2>2
    <2>4. x # c
      BY <2>3, ChainHeights, ChainIsAForest
    <2>5. /\ Parent[c] # NoBlock
          /\ x \in ChainTo[Parent[c]]
      BY <2>3, <2>4, ChainStepDown
    <2>6. ~Bad(Parent[c])
      BY <2>1, <2>2, <2>5, ChainStepDown, ChainIsAForest
    <2>7. ChainTo[x] = {y \in ChainTo[Parent[c]] : Height[y] <= Height[x]}
      BY <2>5, <2>6
    <2>8. Height[x] \in Nat /\ Height[c] \in Nat /\ Height[x] < Height[c]
      BY <2>3, <2>4, ChainHeights, ChainIsAForest
    <2> HIDE DEF T, Bad
    <2>9. {y \in ChainTo[c] : Height[y] <= Height[x]} = {y \in ChainTo[Parent[c]] : Height[y] <= Height[x]}
      BY <2>5, <2>8, ChainStepDown
    <2> QED BY <2>3, <2>7, <2>9
  <1>2. Height[b] \in Nat
    BY ChainIsAForest
  <1>3. ~Bad(b)
    BY <1>1, <1>2
  <1> QED BY <1>3

\* A chain has at most one block at a height.
LEMMA OneBlockPerHeight ==
  ASSUME NEW b \in Blocks, NEW x \in ChainTo[b], NEW y \in ChainTo[b], Height[x] = Height[y]
  PROVE  x = y
  <1>1. x \in Blocks /\ y \in Blocks /\ Height[x] \in Nat
    BY ChainHeights, ChainIsAForest
  <1>2. y \in ChainTo[x]
    BY <1>1, ChainBelow
  <1> QED BY <1>1, <1>2, ChainHeights, ChainIsAForest

\* A chain has a block at every height up to its end's.
LEMMA ABlockAtEveryHeight ==
  ASSUME NEW b \in Blocks, NEW n \in Nat, n <= Height[b]
  PROVE  \E a \in ChainTo[b] : Height[a] = n
  <1> DEFINE T == {k \in Nat : k <= Height[b] /\ \A a \in ChainTo[b] : Height[a] # Height[b] - k}
  <1>0. Height[b] \in Nat /\ b \in ChainTo[b]
    BY ChainIsAForest, ChainStepDown
  <1>1. ASSUME T # {} PROVE FALSE
    <2>1. PICK k \in T : \A m \in T : k <= m
      BY <1>1, LeastNumber
    <2>2. k # 0
      BY <1>0, <2>1
    <2>3. k - 1 \in Nat /\ k - 1 \notin T
      BY <2>1, <2>2
    <2>4. PICK a \in ChainTo[b] : Height[a] = Height[b] - (k - 1)
      BY <1>0, <2>1, <2>3
    <2>5. a \in Blocks /\ Height[a] > 0
      BY <1>0, <2>1, <2>4, ChainHeights
    <2>6. /\ Parent[a] \in Blocks
          /\ Parent[a] \in ChainTo[a]
          /\ Height[Parent[a]] \in Nat
          /\ Height[a] = Height[Parent[a]] + 1
      BY <2>5, ChainStepDown, ChainIsAForest
    <2>7. Parent[a] \in ChainTo[b]
      BY <2>6, ChainBelow
    <2> QED BY <1>0, <2>1, <2>4, <2>6, <2>7
  <1>2. Height[b] - n \in Nat /\ Height[b] - n <= Height[b] /\ Height[b] - (Height[b] - n) = n
    BY <1>0
  <1> QED BY <1>1, <1>2

-----------------------------------------------------------------------------
(* The invariant *)

\* The awaits of a pass in which it may hold the lease.
Working == {"tip", "search", "recover", "fetch", "logs", "project"}

\* What a synchronizer keeps across its awaits.  As long as it owns the lease,
\* the lease and the checkpoint are as it left them.
PassOK(p) ==
    /\ ~At(p, "idle") => proc[p].head \in Blocks
    /\ proc[p].pc \in {"tip", "search", "logs", "project"} => proc[p].hand \in Blocks
    /\ Owned(p) /\ proc[p].pc \in Working => lease.target = Target(p) /\ syncTarget <= lease.target
    /\ Owned(p) /\ At(p, "logs") => Height[proc[p].hand] = NextNumber
    /\ At(p, "receipt") => proc[p].tracked \in AwaitingReceipt
    /\ At(p, "reconcile") =>
          /\ proc[p].tracked \in AwaitingState
          /\ proc[p].tracked.read.state \in {"MINED", "CONFIRMING", "RECONCILIATION_FAILED"}
PassInv == \A p \in Owners : PassOK(p)

\* No owner, no target.
LeaseInv == lease.owner = NoOwner => lease = NoLease

\* An included operation has a block, a confirmed one is reconciled.
OperationsInv ==
    /\ ReceiptsOnCanonicalBlocks
    /\ \A o \in Ops :
          /\ ops[o].canonical => ops[o].block \in Blocks
          /\ ops[o].state = "CONFIRMED" => ops[o].reconciled

\* The inductive invariant of the store and its passes.
IInv ==
    /\ TypeOK /\ PassInv /\ LeaseInv
    /\ CanonicalPath /\ HealthyIsComplete /\ EventsOnCanonicalBlocks /\ OperationsInv

-----------------------------------------------------------------------------
(* What a step does to the store *)

Claims(p) == proc[p].head \in Blocks /\ ClaimSync(p, Target(p)) /\ proc'[p] # proc[p]
Marks(p) == \E fault \in Faults : MarkSyncUnhealthy(p, fault)
Completes(p) == At(p, "fetch") /\ MarkSyncHealthy(p, Target(p))
Releases(p) == At(p, "fetch") /\ ReleaseSyncIncomplete(p, Target(p))

Records(p) ==
    /\ At(p, "logs")
    /\ LogsMatch(proc[p].hand)
    /\ RecordCanonicalBlock(p, proc[p].hand, LogsAnswered(proc[p].hand), Target(p))
Commits(p) == \E b \in Blocks : CommitProjections(p, b)
RollsBack(p) ==
    /\ proc[p].pc \in Working
    /\ \E number \in Int : RollbackFromBlock(p, number)
Writes(p) == proc'[p] # proc[p] /\ (Records(p) \/ Commits(p) \/ RollsBack(p))

SavesReceipt(p) ==
    LET o == proc[p].tracked.op
        read == proc[p].tracked.read
    IN  /\ At(p, "receipt")
        /\ AwaitsReceipt(read)
        /\ \E b \in UsableReceipt(o) :
              SaveOperationAtCheckpoint(o, AfterReceipt(read, OpTx[o], b), read, proc[p].head)
SavesSuccess(p) ==
    LET o == proc[p].tracked.op
        read == proc[p].tracked.read
    IN  /\ At(p, "reconcile")
        /\ Matches(p)
        /\ CountAcceptable(read, Confirmations(p))
        /\ SaveOperationAtCheckpoint(o, Reconciled(read, Confirmations(p)), read, proc[p].head)
SavesFailure(p) ==
    LET o == proc[p].tracked.op
        read == proc[p].tracked.read
    IN  /\ At(p, "reconcile")
        /\ SaveOperationAtCheckpoint(o, ReconciliationFailed(read), read, proc[p].head)

Reports(o) == RecordSubmission(o) \/ \E state \in {"REPLACED", "DROPPED"} : RecordOutcome(o, state)

Effect ==
    \/ UNCHANGED storeVars
    \/ \E p \in Owners : Claims(p) \/ Marks(p) \/ Completes(p) \/ Releases(p)
    \/ \E p \in Owners : Writes(p)
    \/ \E p \in Owners : SavesReceipt(p) \/ SavesSuccess(p) \/ SavesFailure(p)
    \/ \E o \in Ops : Reports(o)

\* A synchronization step has one of the effects.
LEMMA SyncEffect ==
  ASSUME TypeOK, PassInv, NEW p \in Owners, SyncStep(p)
  PROVE  Effect
  <1> USE DEF At
  <1>1. CASE Begin(p)
    BY <1>1 DEF Begin, Effect
  <1>2. CASE Claim(p)
    <2>1. proc[p].head \in Blocks
      BY <1>2 DEF Claim, PassInv, PassOK
    <2>2. CASE ClaimSync(p, Target(p)) /\ AwaitWith(p, IF checkpoint = NoBlock THEN "fetch" ELSE "tip", checkpoint)
      <3>1. proc'[p] # proc[p]
        BY <1>2, <2>2 DEF Claim, AwaitWith, TypeOK, Passes
      <3> QED BY <2>1, <2>2, <3>1 DEF Claims, Effect
    <2> QED BY <1>2, <2>2 DEF Claim, Fail, Effect
  <1>3. ASSUME NEW number, SearchBelow(p, number)
        PROVE  Effect
    BY <1>3 DEF SearchBelow, Marks, Faults, Effect
  <1>4. CASE CheckTip(p)
    BY <1>3, <1>4 DEF CheckTip, Fail, Effect
  <1>5. CASE Search(p)
    <2>1. proc[p].candidate \in Nat
      BY DEF TypeOK, Passes
    <2>2. CASE AncestorFound(proc[p].candidate)
               /\ RollbackFromBlock(p, proc[p].candidate + 1) /\ Await(p, "recover")
      <3>1. proc'[p] # proc[p]
        BY <1>5, <2>2 DEF Search, Await, TypeOK, Passes
      <3>2. proc[p].candidate + 1 \in Int /\ proc[p].pc \in Working
        BY <1>5, <2>1 DEF Search, Working
      <3> QED BY <2>2, <3>1, <3>2 DEF RollsBack, Writes, Effect
    <2> QED BY <1>3, <1>5, <2>2 DEF Search, Fail, Effect
  <1>6. CASE Recover(p)
    <2>1. CASE CommitProjections(p, checkpoint) /\ ProjectionMissing /\ AwaitWith(p, "fetch", NoBlock)
      <3>1. checkpoint \in Blocks
        BY <2>1 DEF ProjectionMissing, TypeOK, StoreTypeOK
      <3>2. proc'[p] # proc[p]
        BY <1>6, <2>1 DEF Recover, AwaitWith, TypeOK, Passes
      <3> QED BY <2>1, <3>1, <3>2 DEF Commits, Writes, Effect
    <2> QED BY <1>6, <2>1 DEF Recover, Fail, Effect
  <1>7. CASE FetchBlock(p)
    BY <1>7 DEF FetchBlock, Fail, Effect
  <1>8. CASE RecordBlock(p)
    <2>1. CASE Await(p, "project") /\ LogsMatch(proc[p].hand)
               /\ RecordCanonicalBlock(p, proc[p].hand, LogsAnswered(proc[p].hand), Target(p))
      <3>1. proc'[p] # proc[p]
        BY <1>8, <2>1 DEF RecordBlock, Await, TypeOK, Passes
      <3> QED BY <1>8, <2>1, <3>1 DEF RecordBlock, Records, Writes, Effect
    <2> QED BY <1>8, <2>1 DEF RecordBlock, Fail, Effect
  <1>9. CASE Project(p)
    <2>1. proc[p].hand \in Blocks
      BY <1>9 DEF Project, PassInv, PassOK
    <2>2. proc'[p] # proc[p]
      BY <1>9 DEF Project, AwaitWith, TypeOK, Passes
    <2> QED BY <1>9, <2>1, <2>2 DEF Project, Commits, Writes, Effect
  <1>10. CASE ProjectionFails(p)
    <2>1. Height[proc[p].hand] \in Int /\ proc[p].pc \in Working
      BY <1>10, ChainIsAForest DEF ProjectionFails, PassInv, PassOK, Working
    <2>2. proc'[p] # proc[p]
      BY <1>10 DEF ProjectionFails, Stop, Idle, TypeOK, Passes
    <2> QED BY <1>10, <2>1, <2>2 DEF ProjectionFails, RollsBack, Writes, Effect
  <1>11. CASE Finish(p)
    BY <1>11 DEF Finish, Fail, Releases, Completes, ReachedHead, Effect
  <1> QED BY <1>1, <1>2, <1>4, <1>5, <1>6, <1>7, <1>8, <1>9, <1>10, <1>11 DEF SyncStep

\* So has a step of the tracking of operations.
LEMMA TrackEffect ==
  ASSUME NEW p \in Owners, TrackStep(p)
  PROVE  Effect
  <1> USE DEF LeftAsItIs
  <1>1. CASE \E batch \in SUBSET TrackableOps : SelectBatch(p, batch)
    BY <1>1 DEF SelectBatch, Effect
  <1>2. CASE TrackOperation(p) \/ ReceiptFails(p) \/ EndOfPass(p)
    BY <1>2 DEF TrackOperation, ReceiptFails, EndOfPass, Fail, Effect
  <1>3. CASE Receipt(p)
    BY <1>3 DEF Receipt, SavesReceipt, Effect
  <1>4. CASE Reconcile(p)
    <2>1. CASE Conclude(p, ReconciliationFailed(proc[p].tracked.read))
      BY <1>4, <2>1 DEF Reconcile, Conclude, SavesFailure, Effect
    <2>2. CASE /\ Matches(p)
               /\ CountAcceptable(proc[p].tracked.read, Confirmations(p))
               /\ Conclude(p, Reconciled(proc[p].tracked.read, Confirmations(p)))
      BY <1>4, <2>2 DEF Reconcile, Conclude, SavesSuccess, Effect
    <2> QED BY <1>4, <2>1, <2>2 DEF Reconcile, Effect
  <1> QED BY <1>1, <1>2, <1>3, <1>4 DEF TrackStep, TrackBatch

\* The steps of the specification, and the death of a process between passes.
Steps == [Next]_vars \/ \E p \in Owners : Fail(p) /\ Fault

\* And so has every step.
LEMMA StepEffect ==
  ASSUME TypeOK, PassInv, Steps
  PROVE  Effect
  <1>1. CASE Advance \/ Jump \/ UNCHANGED vars
    BY <1>1 DEF Advance, Jump, vars, Effect
  <1>2. CASE \E p \in Owners : SyncStep(p) \/ TrackStep(p) \/ Abort(p)
    BY <1>2, SyncEffect, TrackEffect DEF Abort, Fail, Effect
  <1>3. CASE \E o \in Ops : Submit(o) \/ Decide(o)
    BY <1>3 DEF Submit, Decide, Reports, Effect
  <1>4. CASE \E p \in Owners : Fail(p) /\ Fault
    BY <1>4 DEF Fail, Effect
  <1> QED BY <1>1, <1>2, <1>3, <1>4 DEF Next, Steps

-----------------------------------------------------------------------------
(* Types of the store *)

\* The states of an operation.
LEMMA StatesListed ==
  States = {"AWAITING_SIGNATURE", "SUBMITTED", "MINED", "CONFIRMING", "CONFIRMED", "REJECTED",
            "REVERTED", "REPLACED", "DROPPED", "REORGED", "RECONCILIATION_FAILED", "ABSENT"}
  BY DEF States, AllowedFrom

\* Targets are the heights of blocks, and their greater one is one of them.
LEMMA TargetsAreIntegers ==
  /\ Targets \subseteq Int
  /\ NoTarget \in Targets
  /\ \A m, n \in Targets : Greater(m, n) \in Targets /\ Greater(m, n) >= m /\ Greater(m, n) >= n
  /\ \A b \in Blocks : Height[b] \in Targets /\ Height[b] \in Nat
  BY ChainIsAForest DEF Targets, NoTarget, Greater

\* Logs that match a block are its own.
LEMMA LogsOfTheBlock ==
  ASSUME remote \in Blocks, NEW block \in Blocks, LogsMatch(block)
  PROVE  LogsAnswered(block) \subseteq Logs[block]
  <1>1. CASE OnRemote(block)
    <2>1. RemoteAt(Height[block]) = {block}
      BY <1>1, OneBlockPerHeight DEF RemoteAt, OnRemote
    <2> QED BY <2>1 DEF LogsAnswered
  <1> QED BY <1>1 DEF LogsMatch

\* The operation that is saved, of the three kinds of saves.
Saved(o, next, expected) ==
    /\ o \in Ops
    /\ next \in Operations
    /\ \E block \in Blocks : SaveOperationAtCheckpoint(o, next, expected, block)

\* What is saved of a receipt.
LEMMA ReceiptSaved ==
  ASSUME TypeOK, PassInv, NEW p \in Owners, SavesReceipt(p)
  PROVE  \E o \in Ops, b \in Blocks :
           /\ AwaitsReceipt(ops[o])
           /\ Includes(b, OpTx[o]) /\ rows[b] = "canonical"
           /\ LET state == IF OpTx[o] \in Reverts[b] THEN "REVERTED" ELSE "MINED"
              IN  Saved(o, WithReceipt(ops[o], state, b), ops[o])
  <1> DEFINE o == proc[p].tracked.op
             read == proc[p].tracked.read
  <1>1. o \in Ops /\ read \in Operations /\ proc[p].head \in Blocks
    BY DEF SavesReceipt, PassInv, PassOK, AwaitingReceipt, At
  <1>2. PICK b \in UsableReceipt(o) :
          SaveOperationAtCheckpoint(o, AfterReceipt(read, OpTx[o], b), read, proc[p].head)
    BY DEF SavesReceipt
  <1>3. b \in Blocks /\ Includes(b, OpTx[o]) /\ rows[b] = "canonical"
    BY <1>2, ChainHeights DEF UsableReceipt, ReceiptBlock, TypeOK
  <1>4. ops[o] = read /\ AwaitsReceipt(read)
    BY <1>2 DEF SavesReceipt, SaveOperationAtCheckpoint, StillCurrent
  <1> DEFINE state == IF OpTx[o] \in Reverts[b] THEN "REVERTED" ELSE "MINED"
  <1>5. AfterReceipt(read, OpTx[o], b) = WithReceipt(ops[o], state, b)
    BY <1>4 DEF AfterReceipt
  <1>6. WithReceipt(ops[o], state, b) \in Operations
    BY <1>1, <1>3, <1>4, StatesListed DEF WithReceipt, Operations
  <1> QED BY <1>1, <1>2, <1>3, <1>4, <1>5, <1>6 DEF Saved

\* What is saved of a reconciliation that succeeds.
LEMMA SuccessSaved ==
  ASSUME TypeOK, PassInv, NEW p \in Owners, SavesSuccess(p)
  PROVE  \E o \in Ops, b \in Blocks, head \in Blocks : 
           LET confirmations == Height[head] - Height[b] + 1
           IN  /\ o = proc[p].tracked.op /\ b = proc[p].tracked.block
               /\ proc[p].tracked.found
               /\ ops[o].state \in {"MINED", "CONFIRMING", "RECONCILIATION_FAILED"}
               /\ StillCurrent(o, ops[o], head)
               /\ Saved(o, Reconciled(ops[o], confirmations), ops[o])
  <1> DEFINE o == proc[p].tracked.op
             read == proc[p].tracked.read
             b == proc[p].tracked.block
             head == proc[p].head
  <1>1. /\ o \in Ops /\ read \in Operations /\ b \in Blocks /\ head \in Blocks
        /\ read.state \in {"MINED", "CONFIRMING", "RECONCILIATION_FAILED"}
    BY DEF SavesSuccess, PassInv, PassOK, AwaitingState, At
  <1>2. /\ SaveOperationAtCheckpoint(o, Reconciled(read, Confirmations(p)), read, head)
        /\ CountAcceptable(read, Confirmations(p))
        /\ proc[p].tracked.found
    BY DEF SavesSuccess, Matches
  <1>3. ops[o] = read /\ StillCurrent(o, read, head)
    BY <1>2 DEF SaveOperationAtCheckpoint, StillCurrent
  <1>4. Confirmations(p) = Height[head] - Height[b] + 1
    BY DEF Confirmations, Target
  <1>5. Confirmations(p) \in Nat
    BY <1>1, <1>2, <1>4, ChainIsAForest DEF CountAcceptable, Operations
  <1>6. Reconciled(read, Confirmations(p)) \in Operations
    BY <1>1, <1>5, StatesListed DEF Reconciled, Confirmed, Confirming, Operations
  <1> QED BY <1>1, <1>2, <1>3, <1>4, <1>6 DEF Saved

\* What is saved of one that fails.
LEMMA FailureSaved ==
  ASSUME TypeOK, PassInv, NEW p \in Owners, SavesFailure(p)
  PROVE  \E o \in Ops :
           /\ ops[o].state \in {"MINED", "CONFIRMING", "RECONCILIATION_FAILED"}
           /\ Saved(o, ReconciliationFailed(ops[o]), ops[o])
  <1> DEFINE o == proc[p].tracked.op
             read == proc[p].tracked.read
  <1>1. /\ o \in Ops /\ read \in Operations /\ proc[p].head \in Blocks
        /\ read.state \in {"MINED", "CONFIRMING", "RECONCILIATION_FAILED"}
    BY DEF SavesFailure, PassInv, PassOK, AwaitingState, At
  <1>2. SaveOperationAtCheckpoint(o, ReconciliationFailed(read), read, proc[p].head)
    BY DEF SavesFailure
  <1>3. ops[o] = read
    BY <1>2 DEF SaveOperationAtCheckpoint, StillCurrent
  <1>4. ReconciliationFailed(read) \in Operations
    BY <1>1, StatesListed DEF ReconciliationFailed, Operations
  <1> QED BY <1>1, <1>2, <1>3, <1>4 DEF Saved

\* Every effect keeps the store's type.
LEMMA StoreTypes ==
  ASSUME TypeOK, PassInv, Effect
  PROVE  StoreTypeOK'
  <1>0. StoreTypeOK /\ remote \in Blocks /\ proc \in [Owners -> Passes]
    BY DEF TypeOK
  <1>1. CASE UNCHANGED storeVars
    BY <1>0, <1>1 DEF StoreTypeOK, storeVars
  <1>2. ASSUME NEW p \in Owners, Claims(p) \/ Marks(p) \/ Completes(p) \/ Releases(p)
        PROVE  StoreTypeOK'
    <2>1. CASE Claims(p)
      <3>1. Greater(Target(p), RequiredTarget) \in Targets
        BY <1>0, <2>1, TargetsAreIntegers DEF Claims, Target, RequiredTarget, StoreTypeOK
      <3> QED BY <1>0, <2>1, <3>1 DEF Claims, ClaimSync, StoreTypeOK
    <2>2. CASE Marks(p) \/ Completes(p)
      BY <1>0, <2>2, TargetsAreIntegers
      DEF Marks, MarkSyncUnhealthy, Completes, MarkSyncHealthy, NoLease, StoreTypeOK
    <2>3. CASE Releases(p)
      <3>1. proc[p].head \in Blocks
        BY <2>3 DEF Releases, PassInv, PassOK, At
      <3> QED BY <1>0, <2>3, <3>1, TargetsAreIntegers
          DEF Releases, ReleaseSyncIncomplete, TargetOnRelease, Target, NoLease, StoreTypeOK
    <2> QED BY <1>2, <2>1, <2>2, <2>3
  <1>3. ASSUME NEW p \in Owners, Records(p)
        PROVE  StoreTypeOK'
    <2> DEFINE block == proc[p].hand
               logs == LogsAnswered(block)
    <2>1. proc[p].head \in Blocks /\ block \in Blocks /\ logs \subseteq Logs[block]
      BY <1>0, <1>3, LogsOfTheBlock DEF Records, PassInv, PassOK, At
    <2>2. \A row \in events' : row \in [log : Logs[row.block], block : Blocks, canonical : BOOLEAN]
      <3> SUFFICES ASSUME NEW row \in events'
                   PROVE  row \in [log : Logs[row.block], block : Blocks, canonical : BOOLEAN]
        OBVIOUS
      <3>1. CASE row \in events
        BY <1>0, <3>1 DEF StoreTypeOK
      <3>2. ASSUME NEW log \in logs, row = [log |-> log, block |-> block, canonical |-> TRUE]
            PROVE  row \in [log : Logs[row.block], block : Blocks, canonical : BOOLEAN]
        <4>1. row.block = block /\ log \in Logs[block]
          BY <2>1, <3>2
        <4> QED BY <2>1, <3>2, <4>1
      <3> QED BY <1>3, <3>1, <3>2 DEF Records, RecordCanonicalBlock, EventsWith
    <2> QED BY <1>0, <1>3, <2>1, <2>2, TargetsAreIntegers
        DEF Records, RecordCanonicalBlock, RecordedError, Target, StoreTypeOK
  <1>4. ASSUME NEW p \in Owners, Commits(p)
        PROVE  StoreTypeOK'
    <2>1. /\ UNCHANGED <<rows, events, checkpoint, syncError, syncTarget, lease, ops>>
          /\ projected' = checkpoint
      BY <1>4 DEF Commits, CommitProjections
    <2> QED BY <1>0, <2>1 DEF StoreTypeOK
  <1>5. ASSUME NEW number \in Int, NEW p \in Owners, RollbackFromBlock(p, number)
        PROVE  StoreTypeOK'
    <2>1. rows' \in [Blocks -> {"absent", "canonical", "displaced"}]
      BY <1>0, <1>5 DEF RollbackFromBlock, StoreTypeOK
    <2>2. \A row \in events' : row \in [log : Logs[row.block], block : Blocks, canonical : BOOLEAN]
      <3> SUFFICES ASSUME NEW row \in events
                   PROVE  LET next == [row EXCEPT !.canonical = Stands(row, number)]
                          IN  next \in [log : Logs[next.block], block : Blocks, canonical : BOOLEAN]
        BY <1>5 DEF RollbackFromBlock
      <3> DEFINE next == [row EXCEPT !.canonical = Stands(row, number)]
      <3>1. row \in [log : Logs[row.block], block : Blocks, canonical : BOOLEAN]
        BY <1>0 DEF StoreTypeOK
      <3>2. Stands(row, number) \in BOOLEAN
        BY DEF Stands
      <3>3. next = [log |-> row.log, block |-> row.block, canonical |-> Stands(row, number)]
        BY <3>1
      <3> HIDE DEF next
      <3>4. next \in [log : Logs[next.block], block : Blocks, canonical : BOOLEAN]
        BY <3>1, <3>2, <3>3
      <3> QED BY <3>4 DEF next
    <2>3. ops' \in [Ops -> Operations]
      BY <1>0, <1>5, StatesListed DEF RollbackFromBlock, Displaced, StoreTypeOK, Operations
    <2> QED BY <1>0, <1>5, <2>1, <2>2, <2>3, TargetsAreIntegers
        DEF RollbackFromBlock, ProjectedAfterRollback, Canonical, StoreTypeOK
  <1>6. ASSUME NEW o, NEW next, NEW expected, Saved(o, next, expected)
        PROVE  StoreTypeOK'
    BY <1>0, <1>6 DEF Saved, SaveOperationAtCheckpoint, health, StoreTypeOK
  <1>7. ASSUME NEW o \in Ops, Reports(o)
        PROVE  StoreTypeOK'
    <2>1. Submitted \in Operations
      BY StatesListed DEF Submitted, Absent, Operations
    <2>2. \A state \in {"REPLACED", "DROPPED"} : Displaced(ops[o], state) \in Operations
      BY <1>0, StatesListed DEF Displaced, Operations, StoreTypeOK
    <2>3. ops' \in [Ops -> Operations]
      BY <1>0, <1>7, <2>1, <2>2 DEF Reports, RecordSubmission, RecordOutcome, StoreTypeOK
    <2> QED BY <1>0, <1>7, <2>3 DEF Reports, RecordSubmission, RecordOutcome, health, StoreTypeOK
  <1> QED BY <1>1, <1>2, <1>3, <1>4, <1>5, <1>6, <1>7, ReceiptSaved, SuccessSaved, FailureSaved
      DEF Effect, Writes, RollsBack

-----------------------------------------------------------------------------
(* What a step does to the passes *)

\* What the types say of one pass.
LEMMA PassTypes ==
  ASSUME TypeOK, NEW p \in Owners
  PROVE  /\ proc[p] \in Passes
         /\ StoreTypeOK /\ remote \in Blocks
         /\ \A b \in Blocks : Height[b] \in Nat
         /\ NextNumber \in Nat /\ syncTarget \in Int /\ lease.target \in Int
         /\ syncTarget >= NoTarget /\ lease.target >= NoTarget
  BY ChainIsAForest DEF TypeOK, StoreTypeOK, NextNumber, Targets, NoTarget

\* Only p moves, and its new state is a legal one.
PassMoves(p, next) ==
    /\ proc' = [proc EXCEPT ![p] = next]
    /\ next \in Passes
    /\ PassOK(p)'

\* The end of a pass forgets it.
LEMMA StopMoves ==
  ASSUME TypeOK, NEW p \in Owners, Stop(p)
  PROVE  PassMoves(p, Idle)
  <1>1. Idle \in Passes
    BY DEF Idle, Passes
  <1>2. proc'[p] = Idle
    BY DEF Stop, TypeOK
  <1>3. PassOK(p)'
    BY <1>2 DEF PassOK, Idle, At, Working
  <1> QED BY <1>1, <1>3 DEF PassMoves, Stop

\* A synchronization step moves one pass to a legal state.
LEMMA SyncMoves ==
  ASSUME TypeOK, PassInv, NEW p \in Owners, SyncStep(p)
  PROVE  \E next : PassMoves(p, next)
  <1> DEFINE pass == proc[p]
  <1>0. /\ pass \in Passes /\ StoreTypeOK /\ remote \in Blocks
        /\ \A b \in Blocks : Height[b] \in Nat
        /\ NextNumber \in Nat /\ syncTarget \in Int /\ lease.target \in Int
        /\ syncTarget >= NoTarget /\ lease.target >= NoTarget
        /\ proc \in [Owners -> Passes]
        /\ PassOK(p)
    BY PassTypes DEF TypeOK, PassInv
  <1>00. ASSUME Stop(p) PROVE \E next : PassMoves(p, next)
    BY <1>00, StopMoves
  <1> USE DEF At, PassMoves
  <1>1. CASE Begin(p)
    <2> DEFINE next == [pass EXCEPT !.pc = "claim", !.head = remote, !.goal = BoundedHead(remote)]
    <2>1. BoundedHead(remote) \in Nat
      BY <1>0, PolicyIsPositive DEF BoundedHead
    <2>2. next \in Passes /\ proc' = [proc EXCEPT ![p] = next]
      BY <1>0, <1>1, <2>1 DEF Begin, Passes
    <2>3. PassOK(p)'
      BY <1>0, <2>2 DEF PassOK, Working
    <2> QED BY <2>2, <2>3
  <1>2. CASE Claim(p)
    <2> DEFINE label == IF checkpoint = NoBlock THEN "fetch" ELSE "tip"
               next == [pass EXCEPT !.pc = label, !.hand = checkpoint]
    <2>1. CASE ClaimSync(p, Target(p)) /\ AwaitWith(p, label, checkpoint)
      <3>1. next \in Passes /\ proc' = [proc EXCEPT ![p] = next]
        BY <1>0, <2>1 DEF AwaitWith, Passes, StoreTypeOK
      <3>2. Target(p) \in Nat /\ Target(p)' = Target(p)
        BY <1>0, <1>2, <3>1 DEF Target, PassOK, Claim
      <3>3. lease'.target = Target(p) /\ syncTarget' <= Target(p)
        BY <1>0, <2>1, <3>2 DEF ClaimSync, TargetNotBehind, RequiredTarget, Greater
      <3>4. PassOK(p)'
        BY <1>0, <1>2, <3>1, <3>2, <3>3 DEF PassOK, Claim, StoreTypeOK
      <3> QED BY <3>1, <3>4
    <2> QED BY <1>00, <1>2, <2>1 DEF Claim, Fail
  <1>3. ASSUME NEW number \in Int, SearchBelow(p, number), pass.pc \in {"tip", "search"}
        PROVE  \E next : PassMoves(p, next)
    <2> DEFINE next == [pass EXCEPT !.pc = "search", !.candidate = number]
    <2>1. CASE WithinLimit(p, number) /\ proc' = [proc EXCEPT ![p].pc = "search", ![p].candidate = number]
               /\ UNCHANGED storeVars
      <3>0. number \in Nat
        BY <1>3, <2>1 DEF WithinLimit
      <3>1. next \in Passes /\ proc' = [proc EXCEPT ![p] = next]
        BY <1>0, <2>1, <3>0 DEF Passes
      <3>2. PassOK(p)'
        BY <1>0, <1>3, <2>1, <3>1 DEF PassOK, storeVars, Target, Working, Owned
      <3> QED BY <3>1, <3>2
    <2> QED BY <1>00, <1>3, <2>1 DEF SearchBelow
  <1>4. ASSUME NEW label \in {"recover", "fetch", "project"}, NEW b \in Blocks \cup {NoBlock},
               proc' = [proc EXCEPT ![p] = [pass EXCEPT !.pc = label, !.hand = b]],
               label = "project" => b \in Blocks,
               pass.pc \in Working,
               Owned(p)' => Owned(p) /\ lease' = lease /\ syncTarget' <= lease.target
        PROVE  \E next : PassMoves(p, next)
    <2> DEFINE next == [pass EXCEPT !.pc = label, !.hand = b]
    <2>1. next \in Passes /\ proc'[p] = next
      BY <1>0, <1>4 DEF Passes
    <2>2. PassOK(p)'
      BY <1>0, <1>4, <2>1 DEF PassOK, Target, Working
    <2> QED BY <1>4, <2>1, <2>2
  <1>5. CASE CheckTip(p)
    <2>1. CASE OnRemote(pass.hand) /\ Await(p, "recover") /\ UNCHANGED storeVars
      <3>1. proc' = [proc EXCEPT ![p] = [pass EXCEPT !.pc = "recover", !.hand = pass.hand]]
        BY <1>0, <2>1 DEF Await, Passes
      <3>2. Owned(p)' => Owned(p) /\ lease' = lease /\ syncTarget' <= lease.target
        BY <1>0, <1>5, <2>1 DEF PassOK, CheckTip, storeVars, Owned, Working
      <3> QED BY <1>0, <1>4, <1>5, <3>1, <3>2 DEF CheckTip, Passes, Working
    <2>2. Height[pass.hand] - 1 \in Int
      BY <1>0, <1>5 DEF CheckTip, PassOK
    <2> QED BY <1>00, <1>3, <1>5, <2>1, <2>2 DEF CheckTip, Fail
  <1>6. CASE Search(p)
    <2> DEFINE number == pass.candidate
    <2>1. CASE RollbackFromBlock(p, number + 1) /\ Await(p, "recover")
      <3>1. proc' = [proc EXCEPT ![p] = [pass EXCEPT !.pc = "recover", !.hand = pass.hand]]
        BY <1>0, <2>1 DEF Await, Passes
      <3>2. Owned(p)' => Owned(p) /\ lease' = lease /\ syncTarget' <= lease.target
        BY <1>0, <1>6, <2>1 DEF PassOK, Search, RollbackFromBlock, Owned, Working
      <3> QED BY <1>0, <1>4, <1>6, <3>1, <3>2 DEF Search, Passes, Working
    <2>2. number - 1 \in Int
      BY <1>0 DEF Passes
    <2> QED BY <1>00, <1>3, <1>6, <2>1, <2>2 DEF Search, Fail
  <1>7. CASE Recover(p)
    <2>1. CASE AwaitWith(p, "fetch", NoBlock) /\ (UNCHANGED storeVars \/ CommitProjections(p, checkpoint))
      <3>1. proc' = [proc EXCEPT ![p] = [pass EXCEPT !.pc = "fetch", !.hand = NoBlock]]
        BY <1>0, <2>1 DEF AwaitWith, Passes
      <3>2. Owned(p)' => Owned(p) /\ lease' = lease /\ syncTarget' <= lease.target
        BY <1>0, <1>7, <2>1 DEF PassOK, Recover, CommitProjections, storeVars, Owned, Working
      <3> QED BY <1>0, <1>4, <1>7, <3>1, <3>2 DEF Recover, Working
    <2> QED BY <1>00, <1>7, <2>1 DEF Recover, Fail
  <1>8. CASE FetchBlock(p)
    <2>1. ASSUME NEW b \in RemoteAt(NextNumber), AwaitWith(p, "logs", b), UNCHANGED storeVars
          PROVE  \E next : PassMoves(p, next)
      <3> DEFINE next == [pass EXCEPT !.pc = "logs", !.hand = b]
      <3>1. b \in Blocks /\ Height[b] = NextNumber
        BY <1>0, <2>1, ChainHeights DEF RemoteAt
      <3>2. next \in Passes /\ proc' = [proc EXCEPT ![p] = next]
        BY <1>0, <2>1, <3>1 DEF AwaitWith, Passes
      <3>3. PassOK(p)'
        BY <1>0, <1>8, <2>1, <3>1, <3>2
        DEF PassOK, FetchBlock, storeVars, Target, Working, Owned, NextNumber
      <3> QED BY <3>2, <3>3
    <2> QED BY <1>00, <1>8, <2>1 DEF FetchBlock, Fail
  <1>9. CASE RecordBlock(p)
    <2>1. CASE /\ RecordCanonicalBlock(p, pass.hand, LogsAnswered(pass.hand), Target(p))
               /\ Await(p, "project")
      <3>1. proc' = [proc EXCEPT ![p] = [pass EXCEPT !.pc = "project", !.hand = pass.hand]]
        BY <1>0, <2>1 DEF Await, Passes
      <3>2. Owned(p)' => Owned(p) /\ lease' = lease /\ syncTarget' <= lease.target
        BY <1>0, <1>9, <2>1 DEF PassOK, RecordBlock, RecordCanonicalBlock, Owned, Working, Greater
      <3>3. pass.hand \in Blocks
        BY <1>0, <1>9 DEF PassOK, RecordBlock
      <3> QED BY <1>0, <1>4, <1>9, <3>1, <3>2, <3>3 DEF RecordBlock, Working
    <2> QED BY <1>00, <1>9, <2>1 DEF RecordBlock, Fail
  <1>10. CASE Project(p)
    <2>1. proc' = [proc EXCEPT ![p] = [pass EXCEPT !.pc = "fetch", !.hand = NoBlock]]
      BY <1>0, <1>10 DEF Project, AwaitWith, Passes
    <2>2. Owned(p)' => Owned(p) /\ lease' = lease /\ syncTarget' <= lease.target
      BY <1>0, <1>10 DEF PassOK, Project, CommitProjections, Owned, Working
    <2> QED BY <1>0, <1>4, <1>10, <2>1, <2>2 DEF Project, Working
  <1>11. CASE ProjectionFails(p)
    BY <1>00, <1>11 DEF ProjectionFails
  <1>12. CASE Finish(p)
    <2>1. CASE Await(p, "batch")
      <3> DEFINE next == [pass EXCEPT !.pc = "batch"]
      <3>1. next \in Passes /\ proc' = [proc EXCEPT ![p] = next]
        BY <1>0, <2>1 DEF Await, Passes
      <3>2. PassOK(p)'
        BY <1>0, <1>12, <3>1 DEF PassOK, Finish, Working
      <3> QED BY <3>1, <3>2
    <2> QED BY <1>00, <1>12, <2>1 DEF Finish, Fail
  <1> QED BY <1>1, <1>2, <1>5, <1>6, <1>7, <1>8, <1>9, <1>10, <1>11, <1>12 DEF SyncStep

\* So does a step of the tracking.
LEMMA TrackMoves ==
  ASSUME TypeOK, PassInv, NEW p \in Owners, TrackStep(p)
  PROVE  \E next : PassMoves(p, next)
  <1> DEFINE pass == proc[p]
             o == pass.tracked.op
  <1>0. /\ pass \in Passes /\ StoreTypeOK /\ remote \in Blocks
        /\ proc \in [Owners -> Passes]
        /\ PassOK(p)
    BY PassTypes DEF TypeOK, PassInv
  <1>00. ASSUME Stop(p) PROVE \E next : PassMoves(p, next)
    BY <1>00, StopMoves
  <1> USE DEF At, PassMoves
  <1>1. ASSUME pass.head \in Blocks,
               NEW todo \in SUBSET Ops,
               proc' = [proc EXCEPT ![p] = [pass EXCEPT !.pc = "track", !.todo = todo, !.tracked = NotTracking]]
        PROVE  \E next : PassMoves(p, next)
    <2> DEFINE next == [pass EXCEPT !.pc = "track", !.todo = todo, !.tracked = NotTracking]
    <2>1. next \in Passes /\ proc'[p] = next
      BY <1>0, <1>1 DEF Passes
    <2>2. PassOK(p)'
      BY <1>1, <2>1 DEF PassOK, Working, Passes
    <2> QED BY <1>1, <2>1, <2>2
  <1>2. ASSUME Untracked(p), pass.pc \in {"receipt", "reconcile"}
        PROVE  \E next : PassMoves(p, next)
    <2>1. proc' = [proc EXCEPT ![p] = [pass EXCEPT !.pc = "track", !.todo = pass.todo \ {o},
                                                   !.tracked = NotTracking]]
      BY <1>0, <1>2 DEF Untracked, Passes
    <2>2. pass.todo \ {o} \in SUBSET Ops /\ pass.head \in Blocks
      BY <1>0, <1>2 DEF Passes, PassOK
    <2> QED BY <1>1, <2>1, <2>2
  <1>3. CASE \E batch \in SUBSET TrackableOps : SelectBatch(p, batch)
    <2>1. PICK batch \in SUBSET TrackableOps : SelectBatch(p, batch)
      BY <1>3
    <2> DEFINE next == [pass EXCEPT !.pc = "track", !.todo = batch]
    <2>2. next \in Passes /\ proc' = [proc EXCEPT ![p] = next]
      BY <1>0, <2>1 DEF SelectBatch, TrackableOps, Passes
    <2>3. PassOK(p)'
      BY <1>0, <2>1, <2>2 DEF PassOK, SelectBatch, Working
    <2> QED BY <2>2, <2>3
  <1>4. CASE EndOfPass(p)
    BY <1>00, <1>4 DEF EndOfPass, Fail
  <1>5. CASE TrackOperation(p)
    <2>1. PICK q \in pass.todo :
            \/ Track(p, "receipt", [op |-> q, read |-> ops[q]])
            \/ proc' = [proc EXCEPT ![p].todo = @ \ {q}]
      BY <1>5 DEF TrackOperation
    <2>2. q \in Ops /\ [op |-> q, read |-> ops[q]] \in AwaitingReceipt
      BY <1>0, <2>1 DEF Passes, StoreTypeOK, AwaitingReceipt
    <2>3. CASE Track(p, "receipt", [op |-> q, read |-> ops[q]])
      <3> DEFINE next == [pass EXCEPT !.pc = "receipt", !.tracked = [op |-> q, read |-> ops[q]]]
      <3>1. next \in Passes /\ proc' = [proc EXCEPT ![p] = next]
        BY <1>0, <2>2, <2>3 DEF Track, Passes
      <3>2. PassOK(p)'
        BY <1>0, <1>5, <2>2, <3>1 DEF PassOK, TrackOperation, Working
      <3> QED BY <3>1, <3>2
    <2>4. CASE proc' = [proc EXCEPT ![p].todo = @ \ {q}]
      <3> DEFINE next == [pass EXCEPT !.todo = pass.todo \ {q}]
      <3>1. next \in Passes /\ proc' = [proc EXCEPT ![p] = next]
        BY <1>0, <2>4 DEF Passes
      <3>2. PassOK(p)'
        BY <1>0, <1>5, <3>1 DEF PassOK, TrackOperation, Working
      <3> QED BY <3>1, <3>2
    <2> QED BY <2>1, <2>3, <2>4
  <1>6. CASE Receipt(p)
    <2>1. ASSUME NEW b \in UsableReceipt(o),
                 LET op == AfterReceipt(pass.tracked.read, OpTx[o], b)
                 IN  /\ AwaitsReconciliation(op, OpTx[o], b)
                     /\ Track(p, "reconcile", [op |-> o, read |-> op, block |-> b, found |-> EvidenceFound(o)])
          PROVE  \E next : PassMoves(p, next)
      <3> DEFINE op == AfterReceipt(pass.tracked.read, OpTx[o], b)
                 tracked == [op |-> o, read |-> op, block |-> b, found |-> EvidenceFound(o)]
                 next == [pass EXCEPT !.pc = "reconcile", !.tracked = tracked]
      <3>1. o \in Ops /\ pass.tracked.read \in Operations /\ pass.head \in Blocks
        BY <1>0, <1>6 DEF Receipt, PassOK, AwaitingReceipt
      <3>2. b \in Blocks
        BY <1>0, <2>1, ChainHeights DEF UsableReceipt, ReceiptBlock
      <3>3. op \in Operations
        BY <3>1, <3>2, StatesListed DEF AfterReceipt, WithReceipt, Operations
      <3>4. EvidenceFound(o) \in BOOLEAN
        BY DEF EvidenceFound
      <3>5. tracked \in AwaitingState
        BY <3>1, <3>2, <3>3, <3>4 DEF AwaitingState
      <3>6. op.state \in {"MINED", "CONFIRMING", "RECONCILIATION_FAILED"}
        BY <2>1 DEF AwaitsReconciliation
      <3> HIDE DEF tracked, op
      <3>7. next \in Passes
        BY <1>0, <3>5 DEF Passes
      <3>8. proc' = [proc EXCEPT ![p] = next]
        BY <1>0, <2>1 DEF Track, Passes, tracked, op
      <3>9. /\ proc'[p].pc = "reconcile" /\ proc'[p].tracked = tracked /\ proc'[p].head = pass.head
        BY <1>0, <3>7, <3>8 DEF Passes
      <3>10. tracked.read = op
        BY DEF tracked
      <3>11. PassOK(p)'
        BY <3>1, <3>5, <3>6, <3>9, <3>10 DEF PassOK, Working
      <3> QED BY <3>7, <3>8, <3>11
    <2>2. CASE Untracked(p)
      BY <1>2, <1>6, <2>2 DEF Receipt
    <2> QED BY <1>6, <2>1, <2>2 DEF Receipt, LeftAsItIs
  <1>7. CASE ReceiptFails(p)
    BY <1>2, <1>7 DEF ReceiptFails, LeftAsItIs
  <1>8. CASE Reconcile(p)
    BY <1>2, <1>8 DEF Reconcile, Conclude, LeftAsItIs
  <1> QED BY <1>3, <1>4, <1>5, <1>6, <1>7, <1>8 DEF TrackStep, TrackBatch

\* Whoever owns the lease after another's step owned it before, undisturbed.
LEMMA EffectOnOthers ==
  ASSUME TypeOK, PassInv, Effect, NEW q \in Owners, proc'[q] = proc[q], Owned(q)'
  PROVE  Owned(q) /\ UNCHANGED <<lease, syncTarget, checkpoint>>
  <1> USE OwnersAreTokens DEF Owned
  <1>1. CASE UNCHANGED storeVars
    BY <1>1 DEF storeVars
  <1>2. ASSUME NEW p \in Owners, Claims(p) \/ Marks(p) \/ Completes(p) \/ Releases(p)
        PROVE  FALSE
    BY <1>2 DEF Claims, ClaimSync, Marks, MarkSyncUnhealthy, Completes, MarkSyncHealthy,
                Releases, ReleaseSyncIncomplete, NoLease
  <1>3. ASSUME NEW p \in Owners, Writes(p)
        PROVE  FALSE
    BY <1>3 DEF Writes, Records, RecordCanonicalBlock, Commits, CommitProjections,
                RollsBack, RollbackFromBlock
  <1>4. ASSUME NEW p \in Owners, SavesReceipt(p) \/ SavesSuccess(p) \/ SavesFailure(p)
        PROVE  FALSE
    BY <1>4 DEF SavesReceipt, SavesSuccess, SavesFailure, SaveOperationAtCheckpoint, StillCurrent, health
  <1>5. CASE \E o \in Ops : Reports(o)
    BY <1>5 DEF Reports, RecordSubmission, RecordOutcome, health
  <1> QED BY <1>1, <1>2, <1>3, <1>4, <1>5 DEF Effect

\* Passes stay legal, the moved one and the others.
LEMMA PassKept ==
  ASSUME TypeOK, PassInv, Steps
  PROVE  proc' \in [Owners -> Passes] /\ PassInv'
  <1>0. proc \in [Owners -> Passes] /\ Effect
    BY StepEffect DEF TypeOK
  <1>1. ASSUME NEW q \in Owners, proc'[q] = proc[q]
        PROVE  PassOK(q)'
    <2>1. PassOK(q)
      BY DEF PassInv
    <2>2. Owned(q)' => Owned(q) /\ UNCHANGED <<lease, syncTarget, checkpoint>>
      BY <1>0, <1>1, EffectOnOthers
    <2> QED BY <1>1, <2>1, <2>2 DEF PassOK, At, Target, NextNumber
  <1>2. ASSUME NEW p \in Owners, NEW next, PassMoves(p, next)
        PROVE  proc' \in [Owners -> Passes] /\ PassInv'
    BY <1>0, <1>1, <1>2 DEF PassMoves, PassInv
  <1>3. CASE \E p \in Owners : SyncStep(p) \/ TrackStep(p) \/ Abort(p) \/ Fail(p)
    BY <1>2, <1>3, SyncMoves, TrackMoves, StopMoves DEF Abort, Fail
  <1>4. CASE UNCHANGED proc
    BY <1>0, <1>1, <1>4 DEF PassInv
  <1> QED BY <1>3, <1>4 DEF Steps, Next, Advance, Jump, Submit, Decide, vars

\* Types are kept.
LEMMA TypeStep ==
  ASSUME TypeOK, PassInv, Steps
  PROVE  TypeOK'
  <1>1. StoreTypeOK' /\ proc' \in [Owners -> Passes]
    BY StoreTypes, StepEffect, PassKept
  <1>2. Fault => faults' \in 0..MaxFaults /\ UNCHANGED <<remote, jumps>>
    BY PolicyIsPositive DEF Fault, TypeOK
  <1>3. remote' \in Blocks /\ jumps' \in 0..MaxJumps /\ faults' \in 0..MaxFaults
    <2>1. CASE Advance \/ Jump \/ UNCHANGED vars
      BY <2>1, PolicyIsPositive DEF Advance, Jump, vars, chainVars, TypeOK
    <2>2. CASE Fault \/ UNCHANGED chainVars
      BY <1>2, <2>2 DEF chainVars, TypeOK
    <2>3. ASSUME NEW p \in Owners, SyncStep(p)
          PROVE  Fault \/ UNCHANGED chainVars
      BY <2>3 DEF SyncStep, Begin, Claim, CheckTip, Search, Recover, FetchBlock, RecordBlock,
                  Project, ProjectionFails, Finish
    <2>4. ASSUME NEW p \in Owners, TrackStep(p)
          PROVE  Fault \/ UNCHANGED chainVars
      BY <2>4 DEF TrackStep, TrackBatch, SelectBatch, TrackOperation, Receipt, ReceiptFails,
                  Reconcile, EndOfPass
    <2> QED BY <2>1, <2>2, <2>3, <2>4 DEF Steps, Next, Abort, Submit, Decide
  <1> QED BY <1>1, <1>3 DEF TypeOK

-----------------------------------------------------------------------------
(* The invariant is kept *)

\* The blocks, events and projections, and the health around them.
indexVars == <<rows, events, checkpoint, projected>>

\* What an effect does to the index and its health, by kind.
LEMMA SavesKeepIndex ==
  ASSUME TypeOK, PassInv, Effect
  PROVE  \/ UNCHANGED <<indexVars, syncError, syncTarget, lease>>
         \/ /\ UNCHANGED <<indexVars, ops>>
            /\ \E p \in Owners : Claims(p) \/ Marks(p) \/ Completes(p) \/ Releases(p)
         \/ \E p \in Owners : Writes(p)
  <1>1. ASSUME NEW p \in Owners, Claims(p) \/ Marks(p) \/ Completes(p) \/ Releases(p)
        PROVE  UNCHANGED <<indexVars, ops>>
    BY <1>1 DEF Claims, ClaimSync, Marks, MarkSyncUnhealthy, Completes, MarkSyncHealthy,
                Releases, ReleaseSyncIncomplete, indexVars
  <1>2. ASSUME NEW p \in Owners, SavesReceipt(p) \/ SavesSuccess(p) \/ SavesFailure(p)
        PROVE  UNCHANGED <<indexVars, syncError, syncTarget, lease>>
    BY <1>2 DEF SavesReceipt, SavesSuccess, SavesFailure, SaveOperationAtCheckpoint, health, indexVars
  <1>3. ASSUME NEW o \in Ops, Reports(o)
        PROVE  UNCHANGED <<indexVars, syncError, syncTarget, lease>>
    BY <1>3 DEF Reports, RecordSubmission, RecordOutcome, health, indexVars
  <1>4. UNCHANGED storeVars => UNCHANGED <<indexVars, syncError, syncTarget, lease>>
    BY DEF storeVars, indexVars
  <1> QED BY <1>1, <1>2, <1>3, <1>4 DEF Effect

\* A lease is held by a synchronizer or is none.
LEMMA LeaseStep ==
  ASSUME TypeOK, PassInv, LeaseInv, Effect
  PROVE  LeaseInv'
  <1>1. ASSUME NEW p \in Owners, Claims(p) \/ Marks(p) \/ Completes(p) \/ Releases(p)
        PROVE  LeaseInv'
    BY <1>1, OwnersAreTokens DEF LeaseInv, Claims, ClaimSync, Marks, MarkSyncUnhealthy, Completes,
         MarkSyncHealthy, Releases, ReleaseSyncIncomplete
  <1>2. ASSUME NEW p \in Owners, Writes(p)
        PROVE  lease' = lease
    BY <1>2 DEF Writes, Records, RecordCanonicalBlock, Commits, CommitProjections, RollsBack, RollbackFromBlock
  <1> QED BY <1>1, <1>2, SavesKeepIndex DEF LeaseInv

\* What the three kinds of writes do to the canonical blocks.
LEMMA WritesToBlocks ==
  ASSUME TypeOK, PassInv, NEW p \in Owners, Writes(p)
  PROVE  /\ Owned(p) /\ UNCHANGED lease
         /\ \/ /\ Records(p)
               /\ proc[p].hand \in Blocks
               /\ Height[proc[p].hand] = NextNumber
               /\ Canonical' = Canonical \cup {proc[p].hand}
            \/ Commits(p) /\ Canonical' = Canonical
            \/ \E number \in Int :
                  /\ RollbackFromBlock(p, number)
                  /\ Canonical' = {b \in Canonical : Height[b] < number}
  <1>0. StoreTypeOK /\ \A b \in Blocks : Height[b] \in Nat
    BY ChainIsAForest DEF TypeOK
  <1>1. CASE Records(p)
    <2>1. proc[p].hand \in Blocks /\ Owned(p) /\ UNCHANGED lease
      BY <1>1 DEF Records, RecordCanonicalBlock, PassInv, PassOK, At
    <2>2. Height[proc[p].hand] = NextNumber
      BY <1>1, <2>1 DEF Records, PassInv, PassOK, At
    <2>3. Canonical' = Canonical \cup {proc[p].hand}
      BY <1>0, <1>1, <2>1 DEF Records, RecordCanonicalBlock, Canonical, StoreTypeOK
    <2> QED BY <1>1, <2>1, <2>2, <2>3
  <1>2. CASE Commits(p)
    BY <1>2 DEF Commits, CommitProjections, Canonical
  <1>3. ASSUME NEW number \in Int, RollbackFromBlock(p, number)
        PROVE  Owned(p) /\ UNCHANGED lease /\ Canonical' = {b \in Canonical : Height[b] < number}
    BY <1>0, <1>3 DEF RollbackFromBlock, Canonical, Displaces
  <1> QED BY <1>1, <1>2, <1>3 DEF Writes, RollsBack

\* Recording extends the path, a rollback cuts it.
LEMMA PathStep ==
  ASSUME TypeOK, PassInv, CanonicalPath, Effect
  PROVE  CanonicalPath'
  <1>0. StoreTypeOK /\ \A b \in Blocks : Height[b] \in Nat
    BY ChainIsAForest DEF TypeOK
  <1>1. CASE UNCHANGED indexVars
    BY <1>1 DEF indexVars, CanonicalPath, Canonical
  <1>2. ASSUME NEW p \in Owners, Writes(p)
        PROVE  CanonicalPath'
    <2>1. CASE Commits(p) /\ Canonical' = Canonical
      BY <2>1 DEF CanonicalPath, Commits, CommitProjections
    <2>2. ASSUME Records(p), proc[p].hand \in Blocks, Height[proc[p].hand] = NextNumber,
                 Canonical' = Canonical \cup {proc[p].hand}
          PROVE  CanonicalPath'
      <3> DEFINE block == proc[p].hand
      <3>1. /\ checkpoint' = block /\ block # NoBlock
            /\ checkpoint # NoBlock => Parent[block] = checkpoint
        BY <2>2, ChainIsAForest DEF Records, RecordCanonicalBlock, ExtendsCheckpoint
      <3>2. CASE checkpoint = NoBlock
        <4>1. Parent[block] = NoBlock
          BY <1>0, <2>2, <3>2, ChainStepDown DEF NextNumber
        <4> QED BY <2>2, <3>1, <3>2, <4>1, ChainStepDown DEF CanonicalPath
      <3>3. CASE checkpoint # NoBlock
        BY <2>2, <3>1, <3>3, ChainStepDown DEF CanonicalPath
      <3> QED BY <3>2, <3>3
    <2>3. ASSUME NEW number \in Int, RollbackFromBlock(p, number),
                 Canonical' = {b \in Canonical : Height[b] < number}
          PROVE  CanonicalPath'
      <3>1. CASE checkpoint' = NoBlock /\ \A b \in Canonical : Height[b] >= number
        BY <1>0, <2>3, <3>1 DEF CanonicalPath, Canonical
      <3>2. ASSUME NEW b \in Canonical, Height[b] < number, checkpoint' = b,
                   \A c \in Canonical : Height[c] < number => Height[c] <= Height[b]
            PROVE  CanonicalPath'
        <4>1. checkpoint \in Blocks /\ b \in ChainTo[checkpoint] /\ Canonical = ChainTo[checkpoint]
          BY <1>0, <3>2 DEF CanonicalPath, StoreTypeOK
        <4>2. ChainTo[b] = {c \in Canonical : Height[c] <= Height[b]}
          BY <4>1, ChainBelow
        <4>3. \A c \in Canonical : Height[c] <= Height[b] <=> Height[c] < number
          BY <1>0, <3>2 DEF Canonical
        <4>4. b # NoBlock
          BY <3>2, ChainIsAForest DEF Canonical
        <4> QED BY <2>3, <3>2, <4>2, <4>3, <4>4 DEF CanonicalPath
      <3> QED BY <2>3, <3>1, <3>2 DEF RollbackFromBlock
    <2> QED BY <1>2, <2>1, <2>2, <2>3, WritesToBlocks
  <1> QED BY <1>1, <1>2, SavesKeepIndex

\* Nobody who holds the lease leaves a row that reads healthy.
LEMMA HealthStep ==
  ASSUME TypeOK, PassInv, LeaseInv, CanonicalPath, HealthyIsComplete, Effect
  PROVE  HealthyIsComplete'
  <1>0. StoreTypeOK /\ \A b \in Blocks : Height[b] \in Nat
    BY ChainIsAForest DEF TypeOK
  <1>1. CASE UNCHANGED <<indexVars, syncError, syncTarget, lease>>
    BY <1>1 DEF indexVars, HealthyIsComplete
  <1>2. ASSUME NEW p \in Owners, Claims(p) \/ Marks(p) \/ Completes(p) \/ Releases(p), UNCHANGED indexVars
        PROVE  HealthyIsComplete'
    <2>1. CASE Claims(p)
      BY <1>0, <1>2, <2>1 DEF Claims, ClaimSync, Target, Greater, NoTarget, HealthyIsComplete, indexVars
    <2>2. CASE Marks(p)
      BY <2>2 DEF Marks, MarkSyncUnhealthy, Faults, HealthyIsComplete
    <2>3. CASE Completes(p)
      BY <2>3 DEF Completes, MarkSyncHealthy, Completed, HealthyIsComplete
    <2>4. CASE Releases(p)
      <3>1. proc[p].head \in Blocks
        BY <2>4 DEF Releases, PassInv, PassOK, At
      <3> QED BY <1>0, <2>4, <3>1
          DEF Releases, ReleaseSyncIncomplete, TargetOnRelease, Target, Greater, NoTarget, HealthyIsComplete
    <2> QED BY <1>2, <2>1, <2>2, <2>3, <2>4
  <1>3. ASSUME NEW p \in Owners, Writes(p)
        PROVE  HealthyIsComplete'
    <2>0. lease # NoLease
      BY <1>3, WritesToBlocks, OwnersAreTokens DEF Owned, NoLease
    <2>1. CASE Records(p)
      <3>1. proc[p].head \in Blocks
        BY <2>1 DEF Records, PassInv, PassOK, At
      <3>2. syncError' = "CHAIN_SYNC_INCOMPLETE" /\ syncTarget' # NoTarget
        BY <1>0, <2>1, <3>1, PassTypes
        DEF Records, RecordCanonicalBlock, RecordedError, Target, Greater, NoTarget
      <3> QED BY <3>2 DEF HealthyIsComplete
    <2>2. CASE Commits(p)
      BY <2>0, <2>2 DEF Commits, CommitProjections, HealthyIsComplete
    <2>3. CASE RollsBack(p)
      <3>1. CASE checkpoint' = NoBlock
        BY <3>1 DEF HealthyIsComplete
      <3>2. CASE Canonical # {} /\ UNCHANGED <<syncError, syncTarget, lease>>
        <4>1. checkpoint # NoBlock
          BY <3>2 DEF CanonicalPath
        <4> QED BY <2>0, <3>2, <4>1 DEF HealthyIsComplete
      <3> QED BY <2>3, <3>1, <3>2 DEF RollsBack, RollbackFromBlock
    <2> QED BY <1>3, <2>1, <2>2, <2>3 DEF Writes
  <1> QED BY <1>1, <1>2, <1>3, SavesKeepIndex

\* Events come with their block and go with it.
LEMMA EventsStep ==
  ASSUME TypeOK, PassInv, EventsOnCanonicalBlocks, Effect
  PROVE  EventsOnCanonicalBlocks'
  <1>0. /\ rows \in [Blocks -> {"absent", "canonical", "displaced"}]
        /\ \A row \in events : row \in [log : Logs[row.block], block : Blocks, canonical : BOOLEAN]
    BY DEF TypeOK, StoreTypeOK
  <1>1. CASE UNCHANGED <<rows, events>>
    BY <1>1 DEF EventsOnCanonicalBlocks
  <1>2. ASSUME NEW p \in Owners, Records(p)
        PROVE  EventsOnCanonicalBlocks'
    <2> DEFINE block == proc[p].hand
               logs == LogsAnswered(block)
               New(row) == \E log \in logs : row = [log |-> log, block |-> block, canonical |-> TRUE]
    <2>1. block \in Blocks /\ logs \subseteq Logs[block]
      BY <1>2, LogsOfTheBlock DEF Records, PassInv, PassOK, At, TypeOK
    <2>2. /\ rows' = [rows EXCEPT ![block] = "canonical"]
          /\ events' = EventsWith(logs, block)
      BY <1>2 DEF Records, RecordCanonicalBlock
    <2> HIDE DEF block, logs
    <2>3. \A row \in events' : (row \in events /\ \A log \in logs : ~SameEvent(row, log)) \/ New(row)
      BY <2>2 DEF EventsWith
    <2>4. \A row \in events' : row.canonical => rows'[row.block] = "canonical"
      BY <1>0, <2>1, <2>2, <2>3 DEF EventsOnCanonicalBlocks
    <2>5. ASSUME NEW row \in events', NEW other \in events', SameEvent(row, other.log)
          PROVE  row = other
      <3>1. CASE row \in events /\ other \in events
        BY <2>5, <3>1 DEF EventsOnCanonicalBlocks
      <3>2. CASE New(row) /\ New(other)
        <4>1. PICK log \in logs : row = [log |-> log, block |-> block, canonical |-> TRUE]
          BY <3>2
        <4>2. PICK log2 \in logs : other = [log |-> log2, block |-> block, canonical |-> TRUE]
          BY <3>2
        <4>3. log = log2
          BY <2>1, <2>5, <4>1, <4>2, LogsHavePositions DEF SameEvent
        <4> QED BY <4>1, <4>2, <4>3
      <3>3. CASE New(row) /\ \A log \in logs : ~SameEvent(other, log)
        BY <2>5, <3>3 DEF SameEvent
      <3>4. CASE New(other) /\ \A log \in logs : ~SameEvent(row, log)
        BY <2>5, <3>4 DEF SameEvent
      <3> QED BY <2>3, <3>1, <3>2, <3>3, <3>4
    <2> QED BY <2>4, <2>5 DEF EventsOnCanonicalBlocks
  <1>3. ASSUME NEW number \in Int, NEW p \in Owners, RollbackFromBlock(p, number)
        PROVE  EventsOnCanonicalBlocks'
    <2>1. /\ rows' = [b \in Blocks |-> IF Displaces(b, number) THEN "displaced" ELSE rows[b]]
          /\ events' = {[row EXCEPT !.canonical = Stands(row, number)] : row \in events}
      BY <1>3 DEF RollbackFromBlock
    <2>2. \A row \in events' : \E old \in events :
            /\ row = [old EXCEPT !.canonical = Stands(old, number)]
            /\ row.log = old.log /\ row.block = old.block /\ old.block \in Blocks
            /\ row.canonical = Stands(old, number)
      BY <1>0, <2>1
    <2>3. ASSUME NEW row \in events', row.canonical
          PROVE  rows'[row.block] = "canonical"
      <3>1. PICK old \in events : row.block = old.block /\ old.block \in Blocks /\ Stands(old, number)
        BY <2>2, <2>3
      <3>2. rows[row.block] = "canonical" /\ ~Displaces(row.block, number)
        BY <3>1, ChainIsAForest DEF Stands, Displaces, EventsOnCanonicalBlocks
      <3> QED BY <2>1, <3>1, <3>2
    <2>4. ASSUME NEW row \in events', NEW other \in events', SameEvent(row, other.log)
          PROVE  row = other
      <3>1. PICK r \in events : row.log = r.log /\ row = [r EXCEPT !.canonical = Stands(r, number)]
        BY <2>2
      <3>2. PICK s \in events : other.log = s.log /\ other = [s EXCEPT !.canonical = Stands(s, number)]
        BY <2>2
      <3>3. SameEvent(r, s.log)
        BY <2>4, <3>1, <3>2 DEF SameEvent
      <3> QED BY <3>1, <3>2, <3>3 DEF EventsOnCanonicalBlocks
    <2> QED BY <2>3, <2>4 DEF EventsOnCanonicalBlocks
  <1>4. ASSUME NEW p \in Owners, Commits(p)
        PROVE  UNCHANGED <<rows, events>>
    BY <1>4 DEF Commits, CommitProjections
  <1> QED BY <1>1, <1>2, <1>3, <1>4, SavesKeepIndex DEF Writes, RollsBack, indexVars

\* Receipts come on canonical blocks and go with them.
LEMMA OperationsStep ==
  ASSUME TypeOK, PassInv, OperationsInv, Effect
  PROVE  OperationsInv'
  <1> DEFINE OK(o) ==
               /\ ops[o].canonical <=> ops[o].state \in Included
               /\ ops[o].canonical =>
                     /\ ops[o].block \in Blocks /\ rows[ops[o].block] = "canonical"
                     /\ Includes(ops[o].block, OpTx[o])
               /\ ops[o].state = "CONFIRMED" => ops[o].reconciled
  <1>0. /\ \A o \in Ops : OK(o)
        /\ rows \in [Blocks -> {"absent", "canonical", "displaced"}]
        /\ ops \in [Ops -> Operations]
    BY DEF OperationsInv, ReceiptsOnCanonicalBlocks, TypeOK, StoreTypeOK
  <1>1. SUFFICES ASSUME NEW o \in Ops PROVE OK(o)'
    BY DEF OperationsInv, ReceiptsOnCanonicalBlocks
  <1>2. CASE UNCHANGED <<rows, ops>>
    BY <1>0, <1>2 DEF Includes
  <1>3. ASSUME NEW p \in Owners, Records(p)
        PROVE  OK(o)'
    BY <1>0, <1>3 DEF Records, RecordCanonicalBlock, Includes
  <1>4. ASSUME NEW number \in Int, NEW p \in Owners, RollbackFromBlock(p, number)
        PROVE  OK(o)'
    <2>1. /\ rows' = [b \in Blocks |-> IF Displaces(b, number) THEN "displaced" ELSE rows[b]]
          /\ ops'[o] = IF DisplacedBy(ops[o], number) THEN Displaced(ops[o], "REORGED") ELSE ops[o]
      BY <1>4 DEF RollbackFromBlock
    <2>2. CASE DisplacedBy(ops[o], number)
      BY <1>0, <2>1, <2>2 DEF Displaced, Operations, Included
    <2>3. CASE ~DisplacedBy(ops[o], number)
      <3>1. ops[o].canonical => ~Displaces(ops[o].block, number)
        BY <1>0, <2>3, ChainIsAForest DEF DisplacedBy, Displaces
      <3> QED BY <1>0, <2>1, <2>3, <3>1 DEF Includes
    <2> QED BY <2>2, <2>3
  <1>5. ASSUME NEW q \in Ops, NEW next \in Operations, NEW expected, Saved(q, next, expected),
               next.canonical <=> next.state \in Included,
               next.canonical =>
                  /\ next.block \in Blocks /\ rows[next.block] = "canonical"
                  /\ Includes(next.block, OpTx[q]),
               next.state = "CONFIRMED" => next.reconciled
        PROVE  OK(o)'
    <2>1. ops' = [ops EXCEPT ![q] = next] /\ rows' = rows
      BY <1>5 DEF Saved, SaveOperationAtCheckpoint
    <2> QED BY <1>0, <1>5, <2>1 DEF Includes
  <1>6. ASSUME NEW p \in Owners, SavesReceipt(p)
        PROVE  OK(o)'
    <2>1. PICK q \in Ops, b \in Blocks :
           /\ Includes(b, OpTx[q]) /\ rows[b] = "canonical"
           /\ LET state == IF OpTx[q] \in Reverts[b] THEN "REVERTED" ELSE "MINED"
              IN  Saved(q, WithReceipt(ops[q], state, b), ops[q])
      BY <1>6, ReceiptSaved
    <2> DEFINE state == IF OpTx[q] \in Reverts[b] THEN "REVERTED" ELSE "MINED"
               next == WithReceipt(ops[q], state, b)
    <2>2. /\ next \in Operations
          /\ next.state = state /\ next.block = b /\ next.canonical = TRUE
      BY <1>0, <2>1 DEF Saved, WithReceipt, Operations
    <2>3. state \in Included /\ state # "CONFIRMED"
      BY DEF Included
    <2> HIDE DEF next, state
    <2> QED BY <1>5, <2>1, <2>2, <2>3 DEF next, state
  <1>7. ASSUME NEW p \in Owners, SavesSuccess(p)
        PROVE  OK(o)'
    <2>1. PICK q, confirmations :
           /\ q \in Ops
           /\ ops[q].state \in {"MINED", "CONFIRMING", "RECONCILIATION_FAILED"}
           /\ Saved(q, Reconciled(ops[q], confirmations), ops[q])
      BY <1>7, SuccessSaved
    <2> DEFINE next == Reconciled(ops[q], confirmations)
    <2>2. /\ next \in Operations
          /\ next.state \in Included /\ next.block = ops[q].block
          /\ next.canonical = TRUE /\ next.reconciled = TRUE /\ ops[q].canonical
      BY <1>0, <2>1 DEF Saved, Reconciled, Confirmed, Confirming, Operations, Included
    <2> HIDE DEF next
    <2> QED BY <1>0, <1>5, <2>1, <2>2 DEF next
  <1>8. ASSUME NEW p \in Owners, SavesFailure(p)
        PROVE  OK(o)'
    <2>1. PICK q \in Ops :
           /\ ops[q].state \in {"MINED", "CONFIRMING", "RECONCILIATION_FAILED"}
           /\ Saved(q, ReconciliationFailed(ops[q]), ops[q])
      BY <1>8, FailureSaved
    <2> DEFINE next == ReconciliationFailed(ops[q])
    <2>2. /\ next \in Operations
          /\ next.state = "RECONCILIATION_FAILED" /\ next.block = ops[q].block
          /\ next.canonical = ops[q].canonical /\ ops[q].canonical
      BY <1>0, <2>1 DEF Saved, ReconciliationFailed, Operations, Included
    <2> HIDE DEF next
    <2> QED BY <1>0, <1>5, <2>1, <2>2 DEF next, Included
  <1>9. ASSUME NEW q \in Ops, Reports(q)
        PROVE  OK(o)'
    <2>1. CASE RecordSubmission(q)
      BY <1>0, <2>1 DEF RecordSubmission, Submitted, Absent, Included, Includes
    <2>2. ASSUME NEW state \in {"REPLACED", "DROPPED"}, RecordOutcome(q, state)
          PROVE  OK(o)'
      <3>1. ops'[q].state = state /\ ops'[q].canonical = FALSE /\ (o # q => ops'[o] = ops[o]) /\ rows' = rows
        BY <1>0, <2>2 DEF RecordOutcome, Displaced, Operations
      <3> QED BY <1>0, <3>1 DEF Included, Includes
    <2> QED BY <1>9, <2>1, <2>2 DEF Reports
  <1>10. CASE UNCHANGED storeVars
    BY <1>2, <1>10 DEF storeVars
  <1>11. ASSUME NEW p \in Owners, Claims(p) \/ Marks(p) \/ Completes(p) \/ Releases(p) \/ Commits(p)
         PROVE  UNCHANGED <<rows, ops>>
    BY <1>11 DEF Claims, ClaimSync, Marks, MarkSyncUnhealthy, Completes, MarkSyncHealthy,
                 Releases, ReleaseSyncIncomplete, Commits, CommitProjections
  <1> QED BY <1>2, <1>3, <1>4, <1>6, <1>7, <1>8, <1>9, <1>10, <1>11 DEF Effect, Writes, RollsBack

\* The invariant holds at first,
LEMMA InitIInv ==
  ASSUME Init
  PROVE  IInv
  <1> USE DEF Init, StoreInit
  <1>1. Absent \in Operations
    BY StatesListed DEF Absent, Operations
  <1>2. Idle \in Passes
    BY DEF Idle, Passes
  <1>3. TypeOK
    BY <1>1, <1>2, PolicyIsPositive, TargetsAreIntegers DEF TypeOK, StoreTypeOK, NoLease
  <1>4. PassInv
    BY DEF PassInv, PassOK, At, Working, Idle
  <1>5. CanonicalPath
    BY DEF CanonicalPath, Canonical
  <1>6. OperationsInv
    BY DEF OperationsInv, ReceiptsOnCanonicalBlocks, Absent, Included
  <1> QED BY <1>3, <1>4, <1>5, <1>6 DEF IInv, LeaseInv, HealthyIsComplete, EventsOnCanonicalBlocks

\* is kept by every step,
LEMMA NextIInv ==
  ASSUME IInv, Steps
  PROVE  IInv'
  <1>1. Effect
    BY StepEffect DEF IInv
  <1> QED BY <1>1, TypeStep, PassKept, LeaseStep, PathStep, HealthStep, EventsStep, OperationsStep DEF IInv

\* and so always holds.
LEMMA SpecIInv == Spec => []IInv
    <1>1. IInv /\ [Next]_vars => IInv'
    BY NextIInv DEF Steps
  <1> QED BY InitIInv, <1>1, PTL DEF Spec

-----------------------------------------------------------------------------
(* The blocks of a path *)

\* A walk down a chain meets exactly one block at every height.
LEMMA PathLength ==
  ASSUME NEW top \in Blocks, NEW low \in ChainTo[top]
  PROVE  Cardinality({b \in ChainTo[top] : Height[b] \in Height[low]..Height[top]})
           = Height[top] - Height[low] + 1
  <1> DEFINE path == {b \in ChainTo[top] : Height[b] \in Height[low]..Height[top]}
             span == Height[low]..Height[top]
             f == [b \in path |-> Height[b]]
  <1>1. Height[low] \in Nat /\ Height[top] \in Nat /\ Height[low] <= Height[top]
    BY ChainHeights, ChainIsAForest
  <1>2. IsFiniteSet(span) /\ Cardinality(span) = Height[top] - Height[low] + 1
    BY <1>1, FS_Interval
  <1>3. f \in Bijection(path, span)
    <2>1. f \in [path -> span]
      OBVIOUS
    <2>2. \A a, b \in path : f[a] = f[b] => a = b
      BY OneBlockPerHeight
    <2>3. \A n \in span : \E b \in path : f[b] = n
      BY <1>1, ABlockAtEveryHeight
    <2> HIDE DEF f, path, span
    <2> QED BY <2>1, <2>2, <2>3 DEF Bijection, Injection, Surjection, IsInjective
  <1>4. ExistsBijection(span, path)
    BY <1>3, Fun_ExistsBijSymmetric DEF ExistsBijection
  <1> HIDE DEF span, path
  <1>5. Cardinality(path) = Cardinality(span)
    BY <1>2, <1>4, FS_Bijection
  <1> QED BY <1>2, <1>5 DEF path

-----------------------------------------------------------------------------
(* What the evidence of a reconciliation rests on *)

\* The receipt's block and the event that a reconciliation was begun with.
EvidenceOK(p) ==
    LET tracked == proc[p].tracked
    IN  At(p, "reconcile") =>
          /\ rows[tracked.block] # "absent" /\ Includes(tracked.block, OpTx[tracked.op])
          /\ tracked.found => OpClaim[tracked.op] = "genuine"
EvidenceInv == \A p \in Owners : EvidenceOK(p)

\* A reconciled operation was reported by the transaction's own sender, and no
\* other operation is bound to the same transaction.
BindingInv ==
    \A o \in Ops : ops[o].reconciled =>
        /\ OpClaim[o] = "genuine"
        /\ \A q \in Ops \ {o} : SameTransaction(o, q) => ~ops[q].reconciled

\* A block once recorded is never forgotten.
LEMMA RowsStay ==
  ASSUME TypeOK, PassInv, Effect, NEW b \in Blocks, rows[b] # "absent"
  PROVE  rows'[b] # "absent"
  <1>0. rows \in [Blocks -> {"absent", "canonical", "displaced"}]
    BY DEF TypeOK, StoreTypeOK
  <1>1. ASSUME NEW p \in Owners, Writes(p)
        PROVE  rows'[b] # "absent"
    BY <1>0, <1>1 DEF Writes, Records, RecordCanonicalBlock, Commits, CommitProjections,
                      RollsBack, RollbackFromBlock
  <1> QED BY <1>1, SavesKeepIndex DEF indexVars

\* Where a synchronization step, or the end of a pass, leads.
LEMMA SyncLabels ==
  ASSUME TypeOK, NEW p \in Owners, SyncStep(p) \/ Abort(p) \/ Fail(p)
  PROVE  /\ proc'[p].pc \in {"idle", "claim", "tip", "search", "recover", "fetch", "logs", "project", "batch"}
         /\ \A r \in Owners \ {p} : proc'[r] = proc[r]
  <1> DEFINE Leads == /\ proc'[p].pc \in {"idle", "claim", "tip", "search", "recover", "fetch",
                                         "logs", "project", "batch"}
                      /\ \A r \in Owners \ {p} : proc'[r] = proc[r]
  <1>0. proc \in [Owners -> Passes] /\ proc[p] \in Passes
    BY DEF TypeOK
  <1>1. Stop(p) => Leads
    BY <1>0 DEF Stop, Idle
  <1>2. ASSUME NEW label \in {"tip", "recover", "fetch", "logs", "project", "batch"}, NEW b,
               Await(p, label) \/ AwaitWith(p, label, b)
        PROVE  Leads
    BY <1>0, <1>2 DEF Await, AwaitWith, Passes
  <1>3. \A number : SearchBelow(p, number) => Leads
    BY <1>0, <1>1 DEF SearchBelow, Passes
  <1>4. Begin(p) => Leads
    BY <1>0 DEF Begin, Passes
  <1> HIDE DEF Leads
  <1>5. Leads
    BY <1>1, <1>2, <1>3, <1>4
    DEF SyncStep, Abort, Fail, Claim, CheckTip, Search, Recover, FetchBlock, RecordBlock, Project,
        ProjectionFails, Finish
  <1> QED BY <1>5 DEF Leads

\* Only the answer about a receipt leads to a reconciliation.
LEMMA ReconciliationsBegin ==
  ASSUME TypeOK, PassInv, Steps, NEW q \in Owners, At(q, "reconcile")', proc'[q] # proc[q]
  PROVE  /\ Receipt(q)
         /\ \E b \in UsableReceipt(proc[q].tracked.op) :
              LET o == proc[q].tracked.op
                  op == AfterReceipt(proc[q].tracked.read, OpTx[o], b)
              IN  proc'[q].tracked = [op |-> o, read |-> op, block |-> b, found |-> EvidenceFound(o)]
  <1> USE DEF At
  <1>0. proc \in [Owners -> Passes]
    BY DEF TypeOK
  <1>1. ASSUME NEW p \in Owners, SyncStep(p) \/ Abort(p) \/ Fail(p)
        PROVE  FALSE
    <2>1. proc'[p].pc # "reconcile" /\ \A r \in Owners \ {p} : proc'[r] = proc[r]
      BY <1>1, SyncLabels
    <2> QED BY <2>1
  <1>2. ASSUME NEW p \in Owners, TrackStep(p)
        PROVE  /\ p = q /\ Receipt(q)
               /\ ~Untracked(p)
    <2>1. ~Stop(p)
      BY <1>0 DEF Stop, Idle
    <2>2. ~Untracked(p)
      BY <1>0 DEF Untracked, Passes
    <2>3. ~TrackOperation(p)
      BY <1>0 DEF TrackOperation, Track, Passes
    <2>4. \A batch : ~SelectBatch(p, batch)
      BY <1>0 DEF SelectBatch, Passes
    <2>5. Receipt(p)
      BY <1>2, <2>1, <2>2, <2>3, <2>4
      DEF TrackStep, TrackBatch, ReceiptFails, LeftAsItIs, Reconcile, Conclude, EndOfPass, Fail
    <2>6. p = q
      BY <1>0, <2>2, <2>5 DEF Receipt, LeftAsItIs, Track
    <2> QED BY <2>2, <2>5, <2>6
  <1>3. Receipt(q) /\ ~Untracked(q)
    BY <1>1, <1>2 DEF Steps, Next, Advance, Jump, Submit, Decide, vars
  <1>4. proc[q] \in Passes /\ proc \in [Owners -> Passes]
    BY <1>0
  <1>5. ASSUME NEW tracked, Track(q, "reconcile", tracked)
        PROVE  proc'[q].tracked = tracked
    BY <1>4, <1>5 DEF Track, Passes
  <1> QED BY <1>3, <1>5 DEF Receipt, LeftAsItIs

\* The evidence of a reconciliation in progress stands.
LEMMA EvidenceStep ==
  ASSUME TypeOK, PassInv, EvidenceInv, Steps
  PROVE  EvidenceInv'
  <1>0. Effect
    BY StepEffect
  <1> SUFFICES ASSUME NEW q \in Owners, At(q, "reconcile")'
               PROVE  EvidenceOK(q)'
    BY DEF EvidenceInv, EvidenceOK
  <1>1. CASE proc'[q] = proc[q]
    <2>1. proc[q].tracked.block \in Blocks
      BY <1>1 DEF PassInv, PassOK, At, AwaitingState
    <2> QED BY <1>0, <1>1, <2>1, RowsStay DEF EvidenceInv, EvidenceOK, At, Includes
  <1>2. CASE proc'[q] # proc[q]
    <2> DEFINE o == proc[q].tracked.op
    <2>0. PICK b \in UsableReceipt(o) :
            proc'[q].tracked =
              [op |-> o, read |-> AfterReceipt(proc[q].tracked.read, OpTx[o], b),
               block |-> b, found |-> EvidenceFound(o)]
      BY <1>2, ReconciliationsBegin
    <2>1. /\ proc'[q].tracked.op = o /\ proc'[q].tracked.block = b
          /\ proc'[q].tracked.found = EvidenceFound(o)
      BY <2>0
    <2>2. b \in Blocks /\ Includes(b, OpTx[o]) /\ rows[b] = "canonical"
      BY <2>1, ChainHeights DEF UsableReceipt, ReceiptBlock, TypeOK
    <2>3. rows'[b] # "absent"
      BY <1>0, <2>2, RowsStay
    <2>4. EvidenceFound(o) => OpClaim[o] = "genuine"
      BY DEF EvidenceFound
    <2> HIDE DEF o
    <2> QED BY <2>1, <2>2, <2>3, <2>4 DEF EvidenceOK, Includes
  <1> QED BY <1>1, <1>2

\* A binding is made by a genuine report and only where there is none.
LEMMA BindingStep ==
  ASSUME TypeOK, PassInv, EvidenceInv, BindingInv, Effect
  PROVE  BindingInv'
  <1>0. ops \in [Ops -> Operations]
    BY DEF TypeOK, StoreTypeOK
  <1>1. ASSUME \A o \in Ops : ops'[o].reconciled => ops[o].reconciled
        PROVE  BindingInv'
    BY <1>1 DEF BindingInv, SameTransaction
  <1>2. ASSUME NEW number, NEW p \in Owners, RollbackFromBlock(p, number)
        PROVE  BindingInv'
    <2>1. \A o \in Ops : ops'[o] = ops[o] \/ ops'[o] = Displaced(ops[o], "REORGED")
      BY <1>2 DEF RollbackFromBlock
    <2> QED BY <1>0, <1>1, <2>1 DEF Displaced, Operations
  <1>3. ASSUME NEW q \in Ops, NEW next \in Operations, ops' = [ops EXCEPT ![q] = next], ~next.reconciled
        PROVE  BindingInv'
    BY <1>0, <1>1, <1>3
  <1>4. ASSUME NEW p \in Owners, SavesReceipt(p)
        PROVE  BindingInv'
    <2>1. PICK q \in Ops, b \in Blocks, state \in {"REVERTED", "MINED"} :
            Saved(q, WithReceipt(ops[q], state, b), ops[q])
      BY <1>4, ReceiptSaved
    <2>2. ~WithReceipt(ops[q], state, b).reconciled
      BY <1>0 DEF WithReceipt, Operations
    <2> QED BY <1>3, <2>1, <2>2 DEF Saved, SaveOperationAtCheckpoint
  <1>5. ASSUME NEW p \in Owners, SavesSuccess(p)
        PROVE  BindingInv'
    <2>1. PICK q, confirmations :
           /\ q \in Ops
           /\ q = proc[p].tracked.op /\ proc[p].tracked.found
           /\ Saved(q, Reconciled(ops[q], confirmations), ops[q])
      BY <1>5, SuccessSaved
    <2> DEFINE next == Reconciled(ops[q], confirmations)
    <2>2. next.reconciled = TRUE
      BY <1>0 DEF Reconciled, Confirmed, Confirming, Operations
    <2>3. OpClaim[q] = "genuine"
      BY <1>5, <2>1 DEF SavesSuccess, EvidenceInv, EvidenceOK
    <2>4. /\ ops' = [ops EXCEPT ![q] = next]
          /\ \A r \in Ops \ {q} : SameTransaction(q, r) => ~ops[r].reconciled
      BY <2>1, <2>2 DEF Saved, SaveOperationAtCheckpoint, BindingFree
    <2> HIDE DEF next
    <2> QED BY <1>0, <2>3, <2>4 DEF BindingInv, SameTransaction
  <1>6. ASSUME NEW p \in Owners, SavesFailure(p)
        PROVE  BindingInv'
    <2>1. PICK q \in Ops : Saved(q, ReconciliationFailed(ops[q]), ops[q])
      BY <1>6, FailureSaved
    <2>2. ~ReconciliationFailed(ops[q]).reconciled
      BY <1>0 DEF ReconciliationFailed, Operations
    <2> QED BY <1>3, <2>1, <2>2 DEF Saved, SaveOperationAtCheckpoint
  <1>7. ASSUME NEW q \in Ops, Reports(q)
        PROVE  BindingInv'
    <2>1. \A o \in Ops : ops'[o] = ops[o] \/ ops'[o] = Submitted
                      \/ \E state : ops'[o] = Displaced(ops[o], state)
      BY <1>0, <1>7 DEF Reports, RecordSubmission, RecordOutcome
    <2> QED BY <1>0, <1>1, <2>1 DEF Displaced, Operations, Submitted, Absent
  <1>8. UNCHANGED storeVars => UNCHANGED ops
    BY DEF storeVars
  <1>9. ASSUME NEW p \in Owners,
               Claims(p) \/ Marks(p) \/ Completes(p) \/ Releases(p) \/ Commits(p) \/ Records(p)
        PROVE  UNCHANGED ops
    BY <1>9 DEF Claims, ClaimSync, Marks, MarkSyncUnhealthy, Completes, MarkSyncHealthy, Releases,
                ReleaseSyncIncomplete, Commits, CommitProjections, Records, RecordCanonicalBlock
  <1> QED BY <1>1, <1>2, <1>4, <1>5, <1>6, <1>7, <1>8, <1>9 DEF Effect, Writes, RollsBack

-----------------------------------------------------------------------------
(* Theorems *)

\* The inductive invariant with the evidence of operations.
FullInv == IInv /\ EvidenceInv /\ BindingInv

\* The whole invariant is kept,
LEMMA NextFullInv ==
  ASSUME FullInv, Steps
  PROVE  FullInv'
  BY NextIInv, StepEffect, EvidenceStep, BindingStep DEF FullInv, IInv

\* and always holds.
LEMMA SpecFullInv == Spec => []FullInv
  <1>1. Init => FullInv
    BY InitIInv DEF Init, StoreInit, FullInv, EvidenceInv, EvidenceOK, BindingInv, Idle, Absent, At
  <1>2. FullInv /\ [Next]_vars => FullInv'
    BY NextFullInv DEF Steps
  <1> QED BY <1>1, <1>2, PTL DEF Spec

\* The store, the passes and the chain keep their types.
THEOREM SyncTypeCorrect == Spec => []TypeOK
  BY SpecIInv, PTL DEF IInv

\* The canonical blocks are one path, whatever the forks and whoever takes over.
THEOREM IndexIsOnePath == Spec => []CanonicalPath
  BY SpecIInv, PTL DEF IInv

\* What reads healthy is complete, and an incomplete row keeps its target.
THEOREM HealthIsHonest == Spec => []HealthyIsComplete
  BY SpecIInv, PTL DEF IInv

\* No canonical event survives its block, and none is there twice.
THEOREM EventsStandOnce == Spec => []EventsOnCanonicalBlocks
  BY SpecIInv, PTL DEF IInv

\* A canonical receipt is on a canonical block that includes its transaction.
THEOREM ReceiptsStand == Spec => []ReceiptsOnCanonicalBlocks
  BY SpecIInv, PTL DEF IInv, OperationsInv

\* A transaction proves one operation, that of its own sender: what
\* ReconciledIsProved says besides the event in the store.
THEOREM OneOperationPerTransaction == Spec => []BindingInv
  BY SpecFullInv, PTL DEF FullInv

\* The walk from a confirmed operation's block to the checkpoint succeeds.
LEMMA ConfirmedHasAncestry ==
  ASSUME IInv, NEW o \in Ops, ops[o].state = "CONFIRMED", Readable, Depth(o) <= MaxEvidenceBlocks
  PROVE  ProductReady(o)
  <1> DEFINE low == ops[o].block
             path == EvidencePath(o)
  <1>1. /\ ops[o].canonical /\ ops[o].reconciled
        /\ low \in Canonical /\ checkpoint \in Blocks /\ checkpoint # NoBlock
        /\ Canonical = ChainTo[checkpoint]
    BY DEF IInv, TypeOK, StoreTypeOK, OperationsInv, ReceiptsOnCanonicalBlocks, Included, Readable,
           CanonicalPath, Canonical, Operations
  <1>2. /\ Height[low] \in Nat /\ Height[checkpoint] \in Nat /\ Height[low] <= Height[checkpoint]
        /\ low \in Blocks /\ \A b \in Blocks : Height[b] \in Nat
    BY <1>1, ChainHeights, ChainIsAForest
  <1>3. Depth(o) \in 1..MaxEvidenceBlocks
    BY <1>2, PolicyIsPositive DEF Depth
  <1>4. path = {b \in ChainTo[checkpoint] : Height[b] \in Height[low]..Height[checkpoint]}
    BY <1>1 DEF EvidencePath
  <1>5. Cardinality(path) = Depth(o)
    BY <1>1, <1>4, PathLength DEF Depth
  <1>6. low \in path /\ checkpoint \in path
    BY <1>1, <1>2, <1>4, ChainStepDown
  <1>7. ASSUME NEW b \in path \ {low}
        PROVE  Parent[b] \in path
    <2>1. b \in ChainTo[checkpoint] /\ b \in Blocks /\ Height[b] \in Height[low]..Height[checkpoint]
      BY <1>1, <1>4, <1>7, ChainHeights
    <2>2. Height[b] # Height[low]
      BY <1>1, <1>7, <2>1, OneBlockPerHeight
    <2>3. Height[b] > Height[low]
      BY <1>2, <2>1, <2>2
    <2>4. /\ Parent[b] \in Blocks /\ Height[b] = Height[Parent[b]] + 1
          /\ Parent[b] \in ChainTo[b]
      BY <1>2, <2>1, <2>3, ChainStepDown
    <2>5. Parent[b] \in ChainTo[checkpoint]
      BY <1>1, <2>1, <2>4, ChainBelow
    <2> QED BY <1>2, <1>4, <2>1, <2>3, <2>4, <2>5
  <1> QED BY <1>1, <1>3, <1>5, <1>6, <1>7 DEF ProductReady, CanonicalAncestry

\* The walk over the canonical rows never finds a confirmed operation on
\* another fork, however long the path is and however deep it lies.
THEOREM ConfirmedCanBeServed == Spec => []ConfirmedIsReady
  <1>1. IInv => ConfirmedIsReady
    BY ConfirmedHasAncestry DEF ConfirmedIsReady
  <1> QED BY <1>1, SpecIInv, PTL

\* Whoever lost the lease writes no block, event or projection.
THEOREM SupersededNeverWrite == Spec => OnlyTheOwnerWrites
  <1>1. IInv /\ [Next]_vars =>
          [<<rows, events, checkpoint, projected>>' # <<rows, events, checkpoint, projected>> =>
             \E p \in Owners : lease.owner = p /\ lease'.owner = p /\ proc'[p] # proc[p]]_vars
    <2> SUFFICES ASSUME IInv, Next
                 PROVE  UNCHANGED indexVars
                        \/ \E p \in Owners : lease.owner = p /\ lease'.owner = p /\ proc'[p] # proc[p]
      BY DEF indexVars
    <2>1. TypeOK /\ PassInv /\ Effect
      BY StepEffect DEF Steps, IInv
    <2>2. ASSUME NEW p \in Owners, Writes(p)
          PROVE  lease.owner = p /\ lease'.owner = p /\ proc'[p] # proc[p]
      BY <2>1, <2>2, WritesToBlocks DEF Writes, Owned
    <2> QED BY <2>1, <2>2, SavesKeepIndex DEF indexVars
  <1> QED BY <1>1, SpecIInv, PTL DEF Spec, OnlyTheOwnerWrites

\* No takeover, failure or rollback loses a target that was asked for.
THEOREM NoTargetIsLost == Spec => TargetsAreKept
  <1> DEFINE Kept == RequiredTarget' < RequiredTarget =>
                       \/ Readable' /\ Height[checkpoint'] >= RequiredTarget
                       \/ syncError' \in Faults
  <1>1. ASSUME IInv, Next
        PROVE  Kept
    <2>0. /\ TypeOK /\ PassInv /\ Effect /\ StoreTypeOK
          /\ syncTarget \in Int /\ lease.target \in Int
          /\ syncTarget >= NoTarget /\ lease.target >= NoTarget
          /\ RequiredTarget \in Int
      BY <1>1, StepEffect, TargetsAreIntegers
      DEF Steps, IInv, TypeOK, StoreTypeOK, RequiredTarget, Greater, Targets, NoTarget
    <2>1. CASE UNCHANGED <<syncError, syncTarget, lease>>
      BY <2>0, <2>1 DEF RequiredTarget
    <2>2. ASSUME NEW p \in Owners, Claims(p) \/ Marks(p) \/ Completes(p) \/ Releases(p)
          PROVE  Kept
      <3>0. proc[p].head \in Blocks => Target(p) \in Nat
        BY ChainIsAForest DEF Target
      <3>1. CASE Claims(p)
        <4>1. lease'.target >= RequiredTarget /\ lease'.target \in Int /\ syncTarget' \in Int
          BY <2>0, <3>0, <3>1 DEF Claims, ClaimSync, Greater
        <4> QED BY <2>0, <4>1 DEF RequiredTarget, Greater
      <3>2. CASE Marks(p)
        BY <3>2 DEF Marks, MarkSyncUnhealthy
      <3>3. ASSUME At(p, "fetch"), Owned(p)
            PROVE  Target(p) = RequiredTarget /\ Target(p) \in Nat
        BY <2>0, <3>0, <3>3 DEF PassInv, PassOK, At, Working, RequiredTarget, Greater
      <3>4. CASE Completes(p)
        BY <3>3, <3>4 DEF Completes, MarkSyncHealthy, Completed, Readable, Healthy
      <3>5. CASE Releases(p)
        <4>1. syncTarget' >= RequiredTarget /\ syncTarget' \in Int /\ lease'.target = NoTarget
          BY <2>0, <3>3, <3>5 DEF Releases, ReleaseSyncIncomplete, TargetOnRelease, Greater, NoLease
        <4> QED BY <2>0, <4>1 DEF RequiredTarget, Greater, NoTarget
      <3> QED BY <2>2, <3>1, <3>2, <3>4, <3>5
    <2>3. ASSUME NEW p \in Owners, Writes(p)
          PROVE  Kept
      <3>1. CASE Records(p)
        <4>1. Target(p) \in Int
          BY <2>0, <3>1, ChainIsAForest DEF Records, PassInv, PassOK, At, Target
        <4> QED BY <2>0, <3>1, <4>1 DEF Records, RecordCanonicalBlock, RequiredTarget, Greater
      <3>2. CASE Commits(p)
        BY <2>0, <3>2 DEF Commits, CommitProjections, RequiredTarget
      <3>3. CASE RollsBack(p)
        <4>1. syncTarget <= lease.target /\ lease' = lease
          BY <2>0, <3>3 DEF RollsBack, RollbackFromBlock, PassInv, PassOK, Working
        <4>2. syncTarget' = syncTarget \/ syncTarget' = NoTarget
          BY <3>3 DEF RollsBack, RollbackFromBlock
        <4> QED BY <2>0, <4>1, <4>2 DEF RequiredTarget, Greater, NoTarget
      <3> QED BY <2>3, <3>1, <3>2, <3>3 DEF Writes
    <2> QED BY <2>0, <2>1, <2>2, <2>3, SavesKeepIndex
  <1>2. IInv /\ [Next]_vars => [Kept]_vars
    BY <1>1
  <1> QED BY <1>2, SpecIInv, PTL DEF Spec, TargetsAreKept

\* A confirmation is never changed in place nor left behind: it goes in the
\* very step that displaces its block.
THEOREM ConfirmationsStand == Spec => ConfirmationStandsWithItsBlock
  <1> DEFINE Stays == \A o \in Ops : ops[o].state = "CONFIRMED" =>
                        \/ ops'[o] = ops[o] /\ rows'[ops[o].block] = "canonical"
                        \/ ops'[o].state = "REORGED" /\ rows'[ops[o].block] = "displaced"
  <1>1. ASSUME IInv, Next
        PROVE  Stays
    <2> SUFFICES ASSUME NEW o \in Ops, ops[o].state = "CONFIRMED"
                 PROVE  \/ ops'[o] = ops[o] /\ rows'[ops[o].block] = "canonical"
                        \/ ops'[o].state = "REORGED" /\ rows'[ops[o].block] = "displaced"
      OBVIOUS
    <2>0. /\ TypeOK /\ PassInv /\ Effect
          /\ ops \in [Ops -> Operations] /\ rows \in [Blocks -> {"absent", "canonical", "displaced"}]
          /\ ops[o].block \in Blocks /\ rows[ops[o].block] = "canonical"
      BY <1>1, StepEffect
      DEF Steps, IInv, OperationsInv, ReceiptsOnCanonicalBlocks, Included, TypeOK, StoreTypeOK
    <2>1. CASE UNCHANGED <<rows, ops>>
      BY <2>0, <2>1
    <2>2. ASSUME NEW p \in Owners, Records(p)
          PROVE  ops'[o] = ops[o] /\ rows'[ops[o].block] = "canonical"
      BY <2>0, <2>2 DEF Records, RecordCanonicalBlock
    <2>3. ASSUME NEW p \in Owners, NEW number \in Int, RollbackFromBlock(p, number)
          PROVE  \/ ops'[o] = ops[o] /\ rows'[ops[o].block] = "canonical"
                 \/ ops'[o].state = "REORGED" /\ rows'[ops[o].block] = "displaced"
      BY <2>0, <2>3, ChainIsAForest
      DEF RollbackFromBlock, DisplacedBy, Displaces, Included, Displaced, Operations
    <2>4. ASSUME NEW p \in Owners, SavesReceipt(p) \/ SavesSuccess(p) \/ SavesFailure(p)
          PROVE  ops'[o] = ops[o] /\ rows' = rows
      <3>1. ASSUME NEW q \in Ops, NEW next, NEW expected, ops[q].state # "CONFIRMED",
                   Saved(q, next, expected)
            PROVE  ops'[o] = ops[o] /\ rows' = rows
        BY <2>0, <3>1 DEF Saved, SaveOperationAtCheckpoint
      <3>2. CASE SavesReceipt(p)
        BY <2>0, <3>1, <3>2, ReceiptSaved DEF AwaitsReceipt
      <3>3. CASE SavesSuccess(p)
        BY <2>0, <3>1, <3>3, SuccessSaved
      <3>4. CASE SavesFailure(p)
        BY <2>0, <3>1, <3>4, FailureSaved
      <3> QED BY <2>4, <3>2, <3>3, <3>4
    <2>5. ASSUME NEW q \in Ops, Reports(q)
          PROVE  ops'[o] = ops[o] /\ rows' = rows
      <3>1. CASE RecordSubmission(q)
        BY <2>0, <3>1 DEF RecordSubmission
      <3>2. ASSUME NEW state \in {"REPLACED", "DROPPED"}, RecordOutcome(q, state)
            PROVE  ops'[o] = ops[o] /\ rows' = rows
        <4>1. o # q
          BY <3>2 DEF RecordOutcome, CanBecome, AllowedFrom
        <4> QED BY <2>0, <3>2, <4>1 DEF RecordOutcome
      <3> QED BY <2>5, <3>1, <3>2 DEF Reports
    <2>6. ASSUME NEW p \in Owners, Claims(p) \/ Marks(p) \/ Completes(p) \/ Releases(p) \/ Commits(p)
          PROVE  UNCHANGED <<rows, ops>>
      BY <2>6 DEF Claims, ClaimSync, Marks, MarkSyncUnhealthy, Completes, MarkSyncHealthy,
                  Releases, ReleaseSyncIncomplete, Commits, CommitProjections
    <2>7. UNCHANGED storeVars => UNCHANGED <<rows, ops>>
      BY DEF storeVars
    <2> QED BY <2>0, <2>1, <2>2, <2>3, <2>4, <2>5, <2>6, <2>7 DEF Effect, Writes, RollsBack
  <1>3. IInv /\ [Next]_vars => [Stays]_vars
    BY <1>1
  <1> QED BY <1>3, SpecIInv, PTL DEF Spec, ConfirmationStandsWithItsBlock

\* An operation that becomes confirmed does so by a saved conclusion, on
\* the head of the pass and the block of the receipt it began with.
LEMMA ConfirmedBySuccess ==
  ASSUME IInv, Effect, NEW o \in Ops, ops[o].state # "CONFIRMED", ops'[o].state = "CONFIRMED"
  PROVE  \E p \in Owners, b \in Blocks, head \in Blocks :
           LET confirmations == Height[head] - Height[b] + 1
           IN  /\ SavesSuccess(p)
               /\ o = proc[p].tracked.op /\ b = proc[p].tracked.block
               /\ StillCurrent(o, ops[o], head)
               /\ Saved(o, Reconciled(ops[o], confirmations), ops[o])
  <1>0. /\ TypeOK /\ PassInv
        /\ ops \in [Ops -> Operations]
    BY DEF IInv, TypeOK, StoreTypeOK
  <1>1. ASSUME NEW q \in Ops, NEW next, NEW expected, Saved(q, next, expected)
        PROVE  o = q /\ next.state = "CONFIRMED"
    BY <1>0, <1>1 DEF Saved, SaveOperationAtCheckpoint
  <1>2. ASSUME NEW p \in Owners, SavesReceipt(p)
        PROVE  FALSE
    <2>1. PICK q \in Ops, b \in Blocks, state \in {"REVERTED", "MINED"} :
            Saved(q, WithReceipt(ops[q], state, b), ops[q])
      BY <1>0, <1>2, ReceiptSaved
    <2>2. WithReceipt(ops[q], state, b).state = state
      BY <1>0 DEF WithReceipt, Operations
    <2> QED BY <1>1, <2>1, <2>2
  <1>3. ASSUME NEW p \in Owners, SavesFailure(p)
        PROVE  FALSE
    <2>1. PICK q \in Ops : Saved(q, ReconciliationFailed(ops[q]), ops[q])
      BY <1>0, <1>3, FailureSaved
    <2>2. ReconciliationFailed(ops[q]).state = "RECONCILIATION_FAILED"
      BY <1>0 DEF ReconciliationFailed, Operations
    <2> QED BY <1>1, <2>1, <2>2
  <1>4. ASSUME NEW q \in Ops, Reports(q)
        PROVE  FALSE
    <2>1. \/ ops'[o] = ops[o] \/ ops'[o] = Submitted
          \/ \E state \in {"REPLACED", "DROPPED"} : ops'[o] = Displaced(ops[o], state)
      BY <1>0, <1>4 DEF Reports, RecordSubmission, RecordOutcome
    <2> QED BY <1>0, <2>1 DEF Displaced, Operations, Submitted, Absent
  <1>5. ASSUME NEW number, NEW p \in Owners, RollbackFromBlock(p, number)
        PROVE  FALSE
    <2>1. ops'[o] = ops[o] \/ ops'[o] = Displaced(ops[o], "REORGED")
      BY <1>5 DEF RollbackFromBlock
    <2> QED BY <1>0, <2>1 DEF Displaced, Operations
  <1>6. ASSUME NEW p \in Owners,
               Claims(p) \/ Marks(p) \/ Completes(p) \/ Releases(p) \/ Commits(p) \/ Records(p)
        PROVE  FALSE
    BY <1>6 DEF Claims, ClaimSync, Marks, MarkSyncUnhealthy, Completes, MarkSyncHealthy, Releases,
                ReleaseSyncIncomplete, Commits, CommitProjections, Records, RecordCanonicalBlock
  <1>7. ~UNCHANGED storeVars
    BY DEF storeVars
  <1>8. PICK p \in Owners : SavesSuccess(p)
    BY <1>2, <1>3, <1>4, <1>5, <1>6, <1>7 DEF Effect, Writes, RollsBack
  <1>9. PICK q \in Ops, b \in Blocks, head \in Blocks :
          /\ q = proc[p].tracked.op /\ b = proc[p].tracked.block
          /\ StillCurrent(q, ops[q], head)
          /\ Saved(q, Reconciled(ops[q], Height[head] - Height[b] + 1), ops[q])
    BY <1>0, <1>8, SuccessSaved
  <1>10. o = q
    BY <1>1, <1>9
  <1> QED BY <1>8, <1>9, <1>10

\* What such a step leaves: a readable store, and the depth its pass counted
\* on the block of its own receipt.
LEMMA ConfirmedWhenReadable ==
  ASSUME IInv, Effect, NEW o \in Ops, ops[o].state # "CONFIRMED", ops'[o].state = "CONFIRMED"
  PROVE  \E p \in Owners, b \in Blocks :
           /\ At(p, "reconcile") /\ proc[p].tracked.op = o /\ proc[p].tracked.block = b
           /\ proc[p].tracked.read = ops[o]
           /\ Readable' /\ UNCHANGED <<rows, checkpoint>>
           /\ checkpoint \in Blocks
           /\ ops'[o].block = ops[o].block /\ ops[o].block \in Blocks
           /\ rows[ops[o].block] = "canonical" /\ Includes(ops[o].block, OpTx[o])
           /\ Height[checkpoint] - Height[b] + 1 >= SoftReadyDepth
  <1>0. ops \in [Ops -> Operations] /\ OperationsInv /\ LeaseInv
    BY DEF IInv, TypeOK, StoreTypeOK
  <1>1. PICK p \in Owners, b \in Blocks, head \in Blocks :
          /\ SavesSuccess(p)
          /\ o = proc[p].tracked.op /\ b = proc[p].tracked.block
          /\ StillCurrent(o, ops[o], head)
          /\ Saved(o, Reconciled(ops[o], Height[head] - Height[b] + 1), ops[o])
    BY ConfirmedBySuccess
  <1> DEFINE confirmations == Height[head] - Height[b] + 1
             next == Reconciled(ops[o], confirmations)
  <1>2. ops' = [ops EXCEPT ![o] = next] /\ UNCHANGED <<rows, checkpoint, projected, health>>
    BY <1>1 DEF Saved, SaveOperationAtCheckpoint
  <1>3. confirmations >= SoftReadyDepth /\ next.block = ops[o].block
    BY <1>0, <1>2 DEF Reconciled, Confirmed, Confirming, Operations
  <1>4. ops'[o].block = ops[o].block
    BY <1>0, <1>2, <1>3
  <1>5. checkpoint = head /\ projected = checkpoint /\ syncError = "none" /\ lease = NoLease
    BY <1>0, <1>1 DEF StillCurrent, Owned, LeaseInv
  <1>6. Readable'
    BY <1>2, <1>5, ChainIsAForest DEF Readable, Healthy, health
  <1>7. At(p, "reconcile") /\ proc[p].tracked.read = ops[o]
    BY <1>1 DEF SavesSuccess, SaveOperationAtCheckpoint, StillCurrent
  <1>8. ops[o].state \in Included
    <2>1. ops[o].state \in {"MINED", "CONFIRMING", "RECONCILIATION_FAILED"}
      BY <1>1, SuccessSaved, <1>7 DEF IInv, PassInv, PassOK
    <2> QED BY <2>1 DEF Included
  <1>9. ops[o].block \in Blocks /\ rows[ops[o].block] = "canonical" /\ Includes(ops[o].block, OpTx[o])
    BY <1>0, <1>8 DEF OperationsInv, ReceiptsOnCanonicalBlocks
  <1> QED BY <1>1, <1>2, <1>3, <1>4, <1>5, <1>6, <1>7, <1>9

\* A confirmation is made in a readable store, at the depth the policy asks
\* for, unless its transaction was seen on a lower block that is gone: then
\* the depth counted may be that block's.
THEOREM ConfirmationsAreDeep == Spec => ConfirmedAtDepth
  <1> DEFINE Deep == \A o \in Ops : ops[o].state # "CONFIRMED" /\ ops'[o].state = "CONFIRMED" =>
                       /\ Readable'
                       /\ \/ Depth(o)' >= SoftReadyDepth
                          \/ \E b \in Blocks :
                                /\ rows[b] = "displaced" /\ Includes(b, OpTx[o])
                                /\ Height[b] < Height[ops'[o].block]
  <1>1. ASSUME FullInv, Next
        PROVE  Deep
    <2> SUFFICES ASSUME NEW o \in Ops, ops[o].state # "CONFIRMED", ops'[o].state = "CONFIRMED"
                 PROVE  /\ Readable'
                        /\ \/ Depth(o)' >= SoftReadyDepth
                           \/ \E b \in Blocks :
                                 /\ rows[b] = "displaced" /\ Includes(b, OpTx[o])
                                 /\ Height[b] < Height[ops'[o].block]
      OBVIOUS
    <2>1. IInv /\ Effect /\ EvidenceInv
      BY <1>1, StepEffect DEF Steps, FullInv, IInv
    <2>2. PICK p \in Owners, b \in Blocks :
           /\ At(p, "reconcile") /\ proc[p].tracked.op = o /\ proc[p].tracked.block = b
           /\ Readable' /\ UNCHANGED <<rows, checkpoint>>
           /\ checkpoint \in Blocks
           /\ ops'[o].block = ops[o].block /\ ops[o].block \in Blocks
           /\ rows[ops[o].block] = "canonical" /\ Includes(ops[o].block, OpTx[o])
           /\ Height[checkpoint] - Height[b] + 1 >= SoftReadyDepth
      BY <2>1, ConfirmedWhenReadable
    <2> DEFINE low == ops[o].block
    <2>3. Height[b] \in Nat /\ Height[low] \in Nat /\ Height[checkpoint] \in Nat /\ SoftReadyDepth \in Nat
      BY <2>2, ChainIsAForest, PolicyIsPositive
    <2>4. Depth(o)' = Height[checkpoint] - Height[low] + 1
      BY <2>2 DEF Depth
    <2>5. CASE Height[low] <= Height[b]
      BY <2>2, <2>3, <2>4, <2>5
    <2>6. CASE Height[b] < Height[low]
      <3>1. rows[b] # "absent" /\ Includes(b, OpTx[o])
        BY <2>1, <2>2 DEF EvidenceInv, EvidenceOK
      <3>2. rows[b] # "canonical"
        <4> SUFFICES ASSUME rows[b] = "canonical" PROVE FALSE
          OBVIOUS
        <4>1. b \in ChainTo[checkpoint] /\ low \in ChainTo[checkpoint]
          BY <2>1, <2>2, ChainIsAForest DEF IInv, CanonicalPath, Canonical
        <4>2. b = low
          BY <2>2, <3>1, <4>1, TransactionsRunOnce
        <4> QED BY <2>3, <2>6, <4>2
      <3>3. rows[b] = "displaced"
        BY <2>1, <2>2, <3>1, <3>2 DEF IInv, TypeOK, StoreTypeOK
      <3> QED BY <2>2, <2>6, <3>1, <3>3
    <2> QED BY <2>2, <2>3, <2>5, <2>6
  <1>2. FullInv /\ [Next]_vars => [Deep]_vars
    BY <1>1
  <1> QED BY <1>2, SpecFullInv, PTL DEF Spec, ConfirmedAtDepth
=============================================================================
