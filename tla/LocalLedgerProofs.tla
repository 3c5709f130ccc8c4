------------------------- MODULE LocalLedgerProofs -------------------------
(***************************************************************************)
(* Proofs about the local ledger, for any commands, ids and history limit:  *)
(* it keeps the promise of CommandHistory, its commands are those of        *)
(* VaultAccounts, and a rejection is final.                                 *)
(***************************************************************************)
EXTENDS LocalLedger, VaultAccountsProofs, SequenceTheorems

-----------------------------------------------------------------------------
(* The history *)

\* Receipts and events are two views of one sequence of requests.  That the
\* receipt of an id is that id's own request, and that its revision is not in
\* the future, make HistoryMatches inductive.
HistoryInv ==
    /\ revision \in 0..HistoryLimit
    /\ events \in Seq(CommandIds)
    /\ DOMAIN receipts \subseteq CommandIds
    /\ \A id \in DOMAIN receipts :
          /\ receipts[id] \in [fingerprint : Requests, revision : 1..HistoryLimit]
          /\ receipts[id].fingerprint.id = id
          /\ receipts[id].revision <= revision
    /\ HistoryMatches

LEMMA InitHistory == Init => HistoryInv
  BY CommandsAreWellFormed DEF Init, HistoryInv, HistoryMatches

\* What a received request does to the history, and nothing else does.
LEMMA ReceiveHistory ==
  ASSUME HistoryInv, NEW request \in Requests, Receive(request)
  PROVE  /\ HistoryInv'
         /\ Applied' = Append(Applied, request)
         /\ request.id \notin DOMAIN receipts
         /\ request.expectedRevision = revision
         /\ revision < HistoryLimit
  <1> USE CommandsAreWellFormed
  <1>1. /\ request.id \in CommandIds
        /\ request.id \notin DOMAIN receipts
        /\ request.expectedRevision = revision
        /\ revision < HistoryLimit
    BY DEF Receive, Acceptable, Known, AtItsRevision, HistoryOpen, Requests
  <1>2. revision \in Nat /\ HistoryLimit \in Nat /\ Len(events) = revision
    BY DEF HistoryInv, HistoryMatches
  <1>3. /\ revision' = revision + 1
        /\ events' = Append(events, request.id)
        /\ DOMAIN receipts' = DOMAIN receipts \cup {request.id}
        /\ receipts'[request.id] = [fingerprint |-> request, revision |-> revision + 1]
        /\ \A id \in DOMAIN receipts : receipts'[id] = receipts[id]
    BY <1>1 DEF Receive
  <1>4. /\ events' \in Seq(CommandIds)
        /\ Len(events') = revision + 1
        /\ events'[revision + 1] = request.id
        /\ \A i \in 1..revision : events'[i] = events[i]
    BY <1>1, <1>2, <1>3 DEF HistoryInv
  <1>5. HistoryInv'
    <2>1. \A i \in 1..revision' :
             events'[i] \in DOMAIN receipts' /\ receipts'[events'[i]].revision = i
      BY <1>1, <1>2, <1>3, <1>4 DEF HistoryInv, HistoryMatches
    <2>2. \A id \in DOMAIN receipts' : events'[receipts'[id].revision] = id
      BY <1>1, <1>2, <1>3, <1>4 DEF HistoryInv, HistoryMatches
    <2>3. \A id \in DOMAIN receipts' :
             /\ receipts'[id] \in [fingerprint : Requests, revision : 1..HistoryLimit]
             /\ receipts'[id].fingerprint.id = id
             /\ receipts'[id].revision <= revision'
      BY <1>1, <1>2, <1>3 DEF HistoryInv
    <2> QED BY <1>1, <1>2, <1>3, <1>4, <2>1, <2>2, <2>3 DEF HistoryInv, HistoryMatches
  <1>6. Applied' = Append(Applied, request)
    <2>1. \A i \in 1..revision : events[i] \in DOMAIN receipts
      BY DEF HistoryInv, HistoryMatches
    <2>2. Applied = [i \in 1..revision |-> receipts[events[i]].fingerprint]
      BY <1>2 DEF Applied
    <2>3. Applied' = [i \in 1..revision + 1 |-> receipts'[events'[i]].fingerprint]
      BY <1>4 DEF Applied
    <2>4. Applied \in Seq(Requests) /\ Len(Applied) = revision
      <3>1. \A i \in 1..revision : receipts[events[i]].fingerprint \in Requests
        BY <2>1 DEF HistoryInv
      <3> QED BY <1>2, <2>2, <3>1
    <2>5. /\ Append(Applied, request) \in Seq(Requests)
          /\ Len(Append(Applied, request)) = revision + 1
          /\ \A i \in 1..revision : Append(Applied, request)[i] = Applied[i]
          /\ Append(Applied, request)[revision + 1] = request
      BY <1>2, <2>4, AppendProperties
    <2>6. \A i \in 1..revision : receipts'[events'[i]].fingerprint = Applied[i]
      BY <1>2, <1>3, <1>4, <2>1, <2>2
    <2>7. receipts'[events'[revision + 1]].fingerprint = request
      BY <1>3, <1>4
    <2>8. /\ Applied' \in Seq(Requests)
          /\ Len(Applied') = revision + 1
          /\ \A i \in 1..revision + 1 : Applied'[i] = Append(Applied, request)[i]
      <3>1. \A i \in 1..revision + 1 :
               /\ Append(Applied, request)[i] \in Requests
               /\ receipts'[events'[i]].fingerprint = Append(Applied, request)[i]
        BY <1>2, <2>5, <2>6, <2>7, ElementOfSeq
      <3>2. /\ Applied' \in [1..revision + 1 -> Requests]
            /\ \A i \in 1..revision + 1 : Applied'[i] = receipts'[events'[i]].fingerprint
        BY <2>3, <3>1
      <3>3. revision + 1 \in Nat
        BY <1>2
      <3>4. Applied' \in Seq(Requests) /\ Len(Applied') = revision + 1
        BY <3>2, <3>3
      <3> QED BY <3>1, <3>2, <3>4
    <2> QED BY <1>2, <2>5, <2>8, SeqEqual
  <1> QED BY <1>1, <1>5, <1>6

LEMMA NextHistory == HistoryInv /\ [Next]_vars => HistoryInv'
  <1> SUFFICES ASSUME HistoryInv, [Next]_vars PROVE HistoryInv'
    OBVIOUS
  <1>1. ASSUME NEW request \in Requests, Receive(request) PROVE HistoryInv'
    BY <1>1, ReceiveHistory
  <1>2. CASE UNCHANGED vars
    BY <1>2 DEF vars, history, HistoryInv, HistoryMatches
  <1> QED BY <1>1, <1>2 DEF Next, AnswerAgain

LEMMA HistoryHolds == Spec => []HistoryInv
  BY InitHistory, NextHistory, PTL DEF Spec

\* Receipts, events and revision tell one history: HISTORY_MISMATCH never
\* refuses a command, and a restored ledger is never found corrupt for it.
THEOREM HistoryIsOne == Spec => []HistoryMatches
  <1>1. HistoryInv => HistoryMatches
    BY DEF HistoryInv
  <1> QED BY <1>1, HistoryHolds, PTL

\* Every step of the ledger is a step of its promise, or none: a request is
\* applied at the revision it names and never again.
THEOREM EachRequestOnce == Spec => AppliesEachOnce
  <1>1. Init => History!Init
    BY DEF Init, History!Init, Applied
  <1>2. HistoryInv /\ [Next]_vars => [History!Next]_Applied
    <2> SUFFICES ASSUME HistoryInv, [Next]_vars PROVE [History!Next]_Applied
      OBVIOUS
    <2>1. ASSUME NEW request \in Requests, Receive(request) PROVE History!Next
      <3>1. /\ Applied' = Append(Applied, request)
            /\ request.id \notin DOMAIN receipts
            /\ request.expectedRevision = revision
            /\ revision < HistoryLimit
        BY <2>1, ReceiveHistory
      <3>2. Len(events) = revision /\ revision \in Nat
        BY CommandsAreWellFormed DEF HistoryInv, HistoryMatches
      <3>3. Len(Applied) = revision /\ DOMAIN Applied = 1..revision
        BY <3>2 DEF Applied
      <3>4. \A i \in 1..revision : Applied[i].id = events[i] /\ events[i] \in DOMAIN receipts
        BY <3>2 DEF Applied, HistoryInv, HistoryMatches
      <3>5. History!Fresh(request)
        BY <3>1, <3>3, <3>4 DEF History!Fresh
      <3> QED BY <3>1, <3>3, <3>5 DEF History!Next, History!Apply
    <2>2. CASE UNCHANGED vars
      BY <2>2 DEF vars, history, Applied
    <2> QED BY <2>1, <2>2 DEF Next, AnswerAgain
  <1> QED BY <1>1, <1>2, HistoryHolds, PTL DEF Spec, AppliesEachOnce, History!Spec

\* A request refused at the revision it names stays refused, however late it
\* comes again: revisions only grow, and only by applied requests.
THEOREM RejectionStands == Spec => RejectionIsFinal
  <1>1. ASSUME HistoryInv, [Next]_vars
        PROVE  [\A request \in Requests :
                   request.expectedRevision <= revision /\ ~Acceptable(request)
                       => ~Acceptable(request)']_vars
    <2>1. ASSUME NEW applied \in Requests, Receive(applied),
                 NEW request \in Requests, request.expectedRevision <= revision
          PROVE  ~Acceptable(request)'
      <3>1. revision' = revision + 1 /\ revision \in Nat
        BY <1>1, <2>1, CommandsAreWellFormed DEF Receive, HistoryInv
      <3>2. request.expectedRevision \in Nat
        BY <2>1, CommandsAreWellFormed DEF Requests
      <3> QED BY <2>1, <3>1, <3>2 DEF Acceptable, AtItsRevision
    <2> QED BY <1>1, <2>1 DEF Next, AnswerAgain
  <1> QED BY <1>1, HistoryHolds, PTL DEF Spec, RejectionIsFinal

-----------------------------------------------------------------------------
(* The accounts *)

\* A pending withdrawal has the id of a command with a receipt, so the fresh
\* id of a new command is not the id of a pending withdrawal.
PendingHasReceipt == \A id \in CommandIds : IsPending(id) => id \in DOMAIN receipts

LedgerInv == HistoryInv /\ Inv /\ PendingHasReceipt

LEMMA InitLedger == Init => LedgerInv
  BY InitHistory, InitInv DEF Init, LedgerInv, PendingHasReceipt, AccountsInit, IsPending

\* A received request is a command of VaultAccounts.
LEMMA ReceiveIsCommand ==
  ASSUME LedgerInv, NEW request \in Requests, Receive(request)
  PROVE  ServerCommand
  <1> DEFINE c == request.command
  <1>1. /\ request.id \in CommandIds
        /\ c \in CommandForms
    BY CommandsAreWellFormed DEF Requests
  <1>2. ~IsPending(request.id)
    BY ReceiveHistory, <1>1 DEF LedgerInv, PendingHasReceipt
  <1>3. Execute(request) /\ Fits'
    BY DEF Receive
  <1> HIDE DEF c
  <1>4. CASE c.type = "deposit" /\ Deposit(c.amount)
    BY <1>1, <1>3, <1>4 DEF CommandForms, ServerCommand, Command
  <1>5. CASE c.type = "allocate" /\ Allocate(c.amount)
    BY <1>1, <1>3, <1>5 DEF CommandForms, ServerCommand, Command
  <1>6. CASE c.type = "deallocate" /\ Deallocate(c.amount)
    BY <1>1, <1>3, <1>6 DEF CommandForms, ServerCommand, Command
  <1>7. CASE c.type = "requestWithdrawal" /\ RequestWithdrawal(request.id, c.amount)
    BY <1>1, <1>2, <1>3, <1>7 DEF CommandForms, ServerCommand, Command
  <1>8. CASE c.type = "confirmWithdrawal" /\ ConfirmWithdrawal(c.withdrawalId)
    BY <1>1, <1>3, <1>8 DEF CommandForms, ServerCommand, Command
  <1>9. CASE c.type = "cancelWithdrawal" /\ CancelWithdrawal(c.withdrawalId)
    BY <1>1, <1>3, <1>9 DEF CommandForms, ServerCommand, Command
  <1>10. CASE c.type = "start" /\ Start
    BY <1>3, <1>10 DEF ServerCommand, Command
  <1>11. CASE c.type = "stop" /\ Stop
    BY <1>3, <1>11 DEF ServerCommand, Command
  <1>12. CASE c.type = "reserveBuy" /\ ReserveBuy(c.orderId, c.amount)
    BY <1>1, <1>3, <1>12 DEF CommandForms, ServerCommand, Command
  <1>13. CASE c.type = "cancelOrder" /\ CancelOrder(c.orderId)
    BY <1>1, <1>3, <1>13 DEF CommandForms, ServerCommand, Command
  <1>14. CASE c.type = "fillBuy" /\ FillBuy(c.orderId)
    BY <1>1, <1>3, <1>14 DEF CommandForms, ServerCommand, Command
  <1>15. CASE c.type = "markPosition" /\ MarkPosition(c.value)
    BY <1>1, <1>3, <1>15 DEF CommandForms, ServerCommand, Command
  <1>16. CASE c.type = "settlePosition" /\ SettleFully(c.proceeds)
    BY <1>1, <1>3, <1>16 DEF CommandForms, ServerCommand
  <1>17. CASE c.type = "payFees" /\ PayFees(c.amount)
    BY <1>1, <1>3, <1>17 DEF CommandForms, ServerCommand, Command
  <1> QED
    BY <1>3, <1>4, <1>5, <1>6, <1>7, <1>8, <1>9, <1>10, <1>11, <1>12, <1>13, <1>14,
       <1>15, <1>16, <1>17 DEF Execute, c

\* Only a requested withdrawal becomes pending, and it has its command's id.
LEMMA OnlyRequestedIsPending ==
  ASSUME LedgerInv, NEW request \in Requests, Receive(request),
         NEW id \in CommandIds, id # request.id, IsPending(id)'
  PROVE  IsPending(id)
  <1>1. pendingWithdrawals \in [CommandIds -> Nat]
    BY DEF LedgerInv, Inv, AccountsTypeOK
  <1>2. Execute(request)
    BY DEF Receive
  <1> QED
    BY <1>1, <1>2
    DEF Execute, IsPending, WithoutWithdrawal, Deposit, Allocate, Deallocate,
        RequestWithdrawal, ConfirmWithdrawal, CancelWithdrawal, Start, Stop, ReserveBuy,
        CancelOrder, FillBuy, MarkPosition, SettleFully, SettlePosition, PayFees

LEMMA NextLedger == LedgerInv /\ [Next]_vars => LedgerInv' /\ [ServerCommand]_accounts
  <1> SUFFICES ASSUME LedgerInv, [Next]_vars PROVE LedgerInv' /\ [ServerCommand]_accounts
    OBVIOUS
  <1>1. HistoryInv'
    BY NextHistory DEF LedgerInv
  <1>2. ASSUME NEW request \in Requests, Receive(request)
        PROVE  ServerCommand /\ Inv' /\ PendingHasReceipt'
    <2>1. ServerCommand
      BY <1>2, ReceiveIsCommand
    <2>2. Inv'
      BY <2>1, ServerStep, StepInv DEF LedgerInv
    <2>3. DOMAIN receipts' = DOMAIN receipts \cup {request.id}
      BY <1>2 DEF Receive
    <2>4. PendingHasReceipt'
      BY <1>2, <2>3, OnlyRequestedIsPending DEF LedgerInv, PendingHasReceipt
    <2> QED BY <2>1, <2>2, <2>4
  <1>3. CASE UNCHANGED vars
    <2>1. UNCHANGED accounts /\ UNCHANGED receipts
      BY <1>3 DEF vars, history
    <2>2. Inv'
      BY <2>1, StepInv DEF LedgerInv
    <2>3. PendingHasReceipt'
      BY <2>1 DEF LedgerInv, PendingHasReceipt, IsPending, accounts
    <2> QED BY <1>1, <2>1, <2>2, <2>3 DEF LedgerInv
  <1> QED BY <1>1, <1>2, <1>3 DEF Next, AnswerAgain, LedgerInv

\* What the requests do to the accounts is what the commands of
\* VaultAccounts may do, whatever the order and the repetitions of requests.
THEOREM LedgerRunsAccounts == Spec => RunsTheAccounts
  <1>1. Init => AccountsInit
    BY DEF Init
  <1> QED BY <1>1, InitLedger, NextLedger, PTL DEF Spec, RunsTheAccounts, ServerAccounts

\* So the ledger keeps its types: the accounts theirs, by AccountsTypeCorrect,
\* and the history its own.
THEOREM LedgerTypeCorrect == Spec => []TypeOK
  <1>1. HistoryInv /\ AccountsTypeOK => TypeOK
    BY DEF HistoryInv, TypeOK
  <1> QED BY <1>1, HistoryHolds, LedgerRunsAccounts, ServerRunsTheAccounts,
           AccountsTypeCorrect, PTL DEF RunsTheAccounts
=============================================================================
