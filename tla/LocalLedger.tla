---------------------------- MODULE LocalLedger ----------------------------
(***************************************************************************)
(* The local ledger (apps/server/src/store.ts with simulation.ts): the      *)
(* accounts of VaultAccounts behind requests, each with an id and the       *)
(* revision its client read.  A request runs in one transaction, so a crash *)
(* leaves it applied or not; its answer may be lost, and the client, or     *)
(* another one, may send it again at any later time.  Here any request may  *)
(* arrive at any time, any number of times.  The server settles a position  *)
(* under its one policy, so its ledger implements ServerAccounts.           *)
(***************************************************************************)
EXTENDS VaultAccounts, Sequences

CONSTANTS
    Commands,     \* the commands clients send: a bound of the instance
    HistoryLimit  \* after so many commands every further one is refused

\* The closed set of commands, and what each carries.
CommandForms ==
    [type : {"deposit", "allocate", "deallocate", "requestWithdrawal", "payFees"},
     amount : Amounts]
    \cup [type : {"confirmWithdrawal", "cancelWithdrawal"}, withdrawalId : CommandIds]
    \cup [type : {"start", "stop"}]
    \cup [type : {"reserveBuy"}, orderId : OrderIds, amount : Amounts]
    \cup [type : {"cancelOrder", "fillBuy"}, orderId : OrderIds]
    \cup [type : {"markPosition"}, value : Amounts]
    \cup [type : {"settlePosition"}, proceeds : Amounts]

ASSUME CommandsAreWellFormed == HistoryLimit \in Nat /\ Commands \subseteq CommandForms

VARIABLES
    revision,
    receipts,  \* by id of the command: its fingerprint and the revision it made
    events     \* the ids in the order of their revisions; also the audit rows

history == <<revision, receipts, events>>
vars == <<accounts, history>>

Requests == [id : CommandIds, expectedRevision : 0..HistoryLimit, command : Commands]

TypeOK ==
    /\ AccountsTypeOK
    /\ revision \in 0..HistoryLimit
    /\ DOMAIN receipts \subseteq CommandIds
    /\ \A id \in DOMAIN receipts :
          receipts[id] \in [fingerprint : Requests, revision : 1..HistoryLimit]
    /\ events \in Seq(CommandIds)

-----------------------------------------------------------------------------
(* execute *)

\* The fingerprint is the whole request: its actor follows from its type.
KnownRequest(request) == FALSE
Known(request) == request.id \in DOMAIN receipts

Execute(request) ==
    LET c == request.command
    IN  \/ c.type = "deposit" /\ Deposit(c.amount)
        \/ c.type = "allocate" /\ Allocate(c.amount)
        \/ c.type = "deallocate" /\ Deallocate(c.amount)
        \/ c.type = "requestWithdrawal" /\ RequestWithdrawal(request.id, c.amount)
        \/ c.type = "confirmWithdrawal" /\ ConfirmWithdrawal(c.withdrawalId)
        \/ c.type = "cancelWithdrawal" /\ CancelWithdrawal(c.withdrawalId)
        \/ c.type = "start" /\ Start
        \/ c.type = "stop" /\ Stop
        \/ c.type = "reserveBuy" /\ ReserveBuy(c.orderId, c.amount)
        \/ c.type = "cancelOrder" /\ CancelOrder(c.orderId)
        \/ c.type = "fillBuy" /\ FillBuy(c.orderId)
        \/ c.type = "markPosition" /\ MarkPosition(c.value)
        \/ c.type = "settlePosition" /\ SettleFully(c.proceeds)
        \/ c.type = "payFees" /\ PayFees(c.amount)

\* The guards of those commands: the refusals that a client is told.
Allowed(c) ==
    \/ c.type = "deposit" /\ c.amount > 0
    \/ c.type = "allocate" /\ CanAllocate(c.amount)
    \/ c.type = "deallocate" /\ CanDeallocate(c.amount)
    \/ c.type = "requestWithdrawal" /\ CanRequestWithdrawal(c.amount)
    \/ c.type \in {"confirmWithdrawal", "cancelWithdrawal"} /\ IsPending(c.withdrawalId)
    \/ c.type = "start" /\ CanStart
    \/ c.type = "stop"
    \/ c.type = "reserveBuy" /\ CanReserve(c.orderId, c.amount)
    \/ c.type \in {"cancelOrder", "fillBuy"} /\ HasOrder(c.orderId)
    \/ c.type = "markPosition" /\ HasPosition
    \/ c.type = "settlePosition" /\ CanSettle
    \/ c.type = "payFees" /\ CanPayFees(c.amount)

HistoryOpen == revision < HistoryLimit

AtAnyRevision(request) == request.expectedRevision <= revision
AtItsRevision(request) == request.expectedRevision = revision

Acceptable(request) ==
    /\ ~Known(request)
    /\ AtItsRevision(request)
    /\ HistoryOpen
    /\ Allowed(request.command)

\* store.command: the state, its revision and the audit row are one
\* transaction, so the receipt and the event come with the change.
Receive(request) ==
    /\ Acceptable(request)
    /\ Execute(request)
    /\ Fits'
    /\ revision' = revision + 1
    /\ receipts' = [id \in DOMAIN receipts \cup {request.id} |->
                       IF id = request.id
                       THEN [fingerprint |-> request, revision |-> revision + 1]
                       ELSE receipts[id]]
    /\ events' = Append(events, request.id)

\* A known request is answered from its receipt; the same id with another
\* payload is a conflict.  Neither changes anything.
AnswerAgain(id) == id \in DOMAIN receipts /\ UNCHANGED vars

-----------------------------------------------------------------------------
(* The specification *)

Init ==
    /\ AccountsInit
    /\ revision = 0
    /\ receipts = [id \in {} |-> 0]
    /\ events = <<>>

Next ==
    \/ \E request \in Requests : Receive(request)
    \/ \E id \in CommandIds : AnswerAgain(id)

Spec == Init /\ [][Next]_vars

-----------------------------------------------------------------------------
(* Properties *)

\* Receipts and events tell one and the same history, without a gap: one
\* event for every revision, and the receipt of its command says so
\* (assertInvariant's HISTORY_MISMATCH never refuses).
HistoryMatches ==
    /\ Len(events) = revision
    /\ \A i \in 1..revision : events[i] \in DOMAIN receipts /\ receipts[events[i]].revision = i
    /\ \A id \in DOMAIN receipts : events[receipts[id].revision] = id

\* The requests in the order they were applied.
Applied == [i \in 1..Len(events) |-> receipts[events[i]].fingerprint]

\* The ledger keeps the promise of CommandHistory: a request that is sent
\* again, late, or by somebody else is applied once or never.
History == INSTANCE CommandHistory WITH
    applied <- Applied, Limit <- HistoryLimit
AppliesEachOnce == History!Spec

\* The commands of requests are the commands of VaultAccounts: a new
\* withdrawal never takes the id of one still pending.
RunsTheAccounts == ServerAccounts

\* What a client builds on when it lets its user drop a rejected request
\* (product-client.ts): a request refused at the revision it names, or
\* after it, will never be applied, however late another copy arrives.
RejectionIsFinal ==
    [][\A request \in Requests :
          request.expectedRevision <= revision /\ ~Acceptable(request)
              => ~Acceptable(request)']_vars
=============================================================================
