--------------------------- MODULE VaultAccounts ---------------------------
(***************************************************************************)
(* The accounts of one vault of the local simulation: the pure transition   *)
(* of packages/domain/src/vault.ts.  An action is one command; a command    *)
(* that the code refuses is no step.  The code ends every command with      *)
(* assertInvariant, which refuses a result that does not add up.  Only its  *)
(* range check (no amount above MaxInteger) is a guard here: the rest of it *)
(* is AccountsBalance, and the runs show that it never has to refuse.       *)
(***************************************************************************)
EXTENDS Integers, FiniteSets, Functions

CONSTANTS
    CommandIds,   \* ids of commands; a requested withdrawal has its command's
    OrderIds,
    Allowance,    \* what the Passes of the vault allow to be active
    MaxInteger,   \* money.ts: the greatest amount the ledger can write
    Amounts       \* the amounts, values and proceeds tried: a bound of the instance

ASSUME AmountsAreNatural ==
    /\ MaxInteger \in Nat
    /\ Allowance \in 0..MaxInteger
    /\ Amounts \subseteq Nat
ASSUME OrdersAreFinite == IsFiniteSet(OrderIds) /\ IsFiniteSet(CommandIds)

VARIABLES
    status, idle, activeCash, positionCost, positionValue, feeLiability,
    deposits, withdrawalsPaid, realizedPnl, feesAccrued, feesPaid,
    orders,             \* what each order reserves, 0 without one
    pendingWithdrawals  \* what each request awaits, 0 without one

fees == <<feeLiability, feesAccrued, feesPaid>>
position == <<positionCost, positionValue>>
accounts == <<status, idle, activeCash, positionCost, positionValue, feeLiability,
              deposits, withdrawalsPaid, realizedPnl, feesAccrued, feesPaid,
              orders, pendingWithdrawals>>

AccountsTypeOK ==
    /\ status \in {"stopped", "running", "stopping"}
    /\ {idle, activeCash, positionCost, positionValue, feeLiability, deposits,
        withdrawalsPaid, feesAccrued, feesPaid} \subseteq Nat
    /\ realizedPnl \in Int
    /\ orders \in [OrderIds -> Nat]
    /\ pendingWithdrawals \in [CommandIds -> Nat]

\* createVault
AccountsInit ==
    /\ status = "stopped"
    /\ idle = 0 /\ activeCash = 0
    /\ positionCost = 0 /\ positionValue = 0
    /\ feeLiability = 0 /\ feesAccrued = 0 /\ feesPaid = 0
    /\ deposits = 0 /\ withdrawalsPaid = 0 /\ realizedPnl = 0
    /\ orders = [o \in OrderIds |-> 0]
    /\ pendingWithdrawals = [id \in CommandIds |-> 0]

-----------------------------------------------------------------------------
(* balances *)

Reserved == SumFunction(orders)
Pending == SumFunction(pendingWithdrawals)
NoOrders(reservations) == \A o \in OrderIds : reservations[o] = 0

ActiveNet == activeCash + Reserved + positionValue - feeLiability
Equity == idle + ActiveNet + Pending

\* Cash that no accrued fee is waiting for.
AllActiveCash == activeCash
Available == activeCash - feeLiability

-----------------------------------------------------------------------------
(* What the end of every command does *)

\* A vault that was stopped while it had orders or a position has stopped
\* when the last of them is gone.
OnceFlat(asked) == IF asked = "stopping" /\ positionCost' = 0 THEN "stopped" ELSE asked
OnceExited(asked) ==
    IF asked = "stopping" /\ positionCost' = 0 /\ NoOrders(orders') THEN "stopped" ELSE asked
Leaves(asked) == status' = OnceExited(asked)

Fits ==
    /\ \A amount \in {idle, activeCash, positionCost, positionValue, feeLiability,
                      deposits, withdrawalsPaid, feesAccrued, feesPaid} : amount <= MaxInteger
    /\ realizedPnl \in -MaxInteger..MaxInteger

-----------------------------------------------------------------------------
(* Commands of the owner *)

Deposit(amount) ==
    /\ amount > 0
    /\ idle' = idle + amount
    /\ deposits' = deposits + amount
    /\ UNCHANGED <<activeCash, position, fees, withdrawalsPaid, realizedPnl,
                   orders, pendingWithdrawals>>
    /\ Leaves(status)

CanAllocate(amount) == 0 < amount /\ amount <= idle /\ ActiveNet + amount <= Allowance
Allocate(amount) ==
    /\ CanAllocate(amount)
    /\ idle' = idle - amount
    /\ activeCash' = activeCash + amount
    /\ UNCHANGED <<position, fees, deposits, withdrawalsPaid, realizedPnl,
                   orders, pendingWithdrawals>>
    /\ Leaves(status)

CanDeallocate(amount) == 0 < amount /\ amount <= Available
Deallocate(amount) ==
    /\ CanDeallocate(amount)
    /\ activeCash' = activeCash - amount
    /\ idle' = idle + amount
    /\ UNCHANGED <<position, fees, deposits, withdrawalsPaid, realizedPnl,
                   orders, pendingWithdrawals>>
    /\ Leaves(status)

CanRequestWithdrawal(amount) == 0 < amount /\ amount <= idle
RequestWithdrawal(id, amount) ==
    /\ CanRequestWithdrawal(amount)
    /\ idle' = idle - amount
    /\ pendingWithdrawals' = [pendingWithdrawals EXCEPT ![id] = amount]
    /\ UNCHANGED <<activeCash, position, fees, deposits, withdrawalsPaid, realizedPnl, orders>>
    /\ Leaves(status)

IsPending(id) == pendingWithdrawals[id] > 0
WithoutWithdrawal(id) == [pendingWithdrawals EXCEPT ![id] = 0]

CancelWithdrawal(id) ==
    /\ IsPending(id)
    /\ idle' = idle + pendingWithdrawals[id]
    /\ pendingWithdrawals' = WithoutWithdrawal(id)
    /\ UNCHANGED <<activeCash, position, fees, deposits, withdrawalsPaid, realizedPnl, orders>>
    /\ Leaves(status)

CanStart == ActiveNet > 0 /\ status = "stopped"
Start ==
    /\ CanStart
    /\ UNCHANGED <<idle, activeCash, position, fees, deposits, withdrawalsPaid, realizedPnl,
                   orders, pendingWithdrawals>>
    /\ Leaves("running")

Stop ==
    /\ UNCHANGED <<idle, activeCash, position, fees, deposits, withdrawalsPaid, realizedPnl,
                   orders, pendingWithdrawals>>
    /\ Leaves(IF positionCost > 0 \/ ~NoOrders(orders) THEN "stopping" ELSE "stopped")

HasOrder(o) == orders[o] > 0
WithoutOrder(o) == [orders EXCEPT ![o] = 0]

CancelOrder(o) ==
    /\ HasOrder(o)
    /\ activeCash' = activeCash + orders[o]
    /\ orders' = WithoutOrder(o)
    /\ UNCHANGED <<idle, position, fees, deposits, withdrawalsPaid, realizedPnl,
                   pendingWithdrawals>>
    /\ Leaves(status)

-----------------------------------------------------------------------------
(* Commands of the executor *)

ConfirmWithdrawal(id) ==
    /\ IsPending(id)
    /\ withdrawalsPaid' = withdrawalsPaid + pendingWithdrawals[id]
    /\ pendingWithdrawals' = WithoutWithdrawal(id)
    /\ UNCHANGED <<idle, activeCash, position, fees, deposits, realizedPnl, orders>>
    /\ Leaves(status)

CanReserve(o, amount) == status = "running" /\ ~HasOrder(o) /\ 0 < amount /\ amount <= Available
ReserveBuy(o, amount) ==
    /\ CanReserve(o, amount)
    /\ activeCash' = activeCash - amount
    /\ orders' = [orders EXCEPT ![o] = amount]
    /\ UNCHANGED <<idle, position, fees, deposits, withdrawalsPaid, realizedPnl,
                   pendingWithdrawals>>
    /\ Leaves(status)

FillBuy(o) ==
    /\ HasOrder(o)
    /\ positionCost' = positionCost + orders[o]
    /\ positionValue' = positionValue + orders[o]
    /\ orders' = WithoutOrder(o)
    /\ UNCHANGED <<idle, activeCash, fees, deposits, withdrawalsPaid, realizedPnl,
                   pendingWithdrawals>>
    /\ Leaves(status)

HasPosition == positionCost > 0
MarkPosition(value) ==
    /\ HasPosition
    /\ positionValue' = value
    /\ UNCHANGED <<idle, activeCash, positionCost, fees, deposits, withdrawalsPaid, realizedPnl,
                   orders, pendingWithdrawals>>
    /\ Leaves(status)

\* A policy assesses the fee and what goes to idle; the domain bounds both.
Above(amount, limit) == IF amount > limit THEN amount - limit ELSE 0
CanSettle == HasPosition /\ NoOrders(orders)
SettlePosition(proceeds, fee, excess) ==
    /\ CanSettle
    /\ fee <= Above(proceeds, positionCost)
    /\ excess <= activeCash + proceeds - (feeLiability + fee)
    /\ activeCash' = activeCash + proceeds - excess
    /\ idle' = idle + excess
    /\ feeLiability' = feeLiability + fee
    /\ feesAccrued' = feesAccrued + fee
    /\ realizedPnl' = realizedPnl + proceeds - positionCost
    /\ positionCost' = 0
    /\ positionValue' = 0
    /\ UNCHANGED <<deposits, withdrawalsPaid, feesPaid, orders, pendingWithdrawals>>
    /\ Leaves(status)

SettleUnderAPolicy(proceeds) ==
    \E fee \in 0..proceeds, excess \in 0..activeCash + proceeds :
        SettlePosition(proceeds, fee, excess)

\* ZERO_FEE_FULL_SETTLEMENT, the policy of the server: no fee, and all cash
\* above the allowance is idle again.
ExcessOfProceeds(proceeds) == Above(proceeds, Allowance)
ExcessToIdle(proceeds) == Above(activeCash + proceeds - feeLiability, Allowance)
SettleFully(proceeds) == SettlePosition(proceeds, 0, ExcessToIdle(proceeds))

CanPayFees(amount) == 0 < amount /\ amount <= feeLiability
PayFees(amount) ==
    /\ CanPayFees(amount)
    /\ feeLiability' = feeLiability - amount
    /\ activeCash' = activeCash - amount
    /\ feesPaid' = feesPaid + amount
    /\ UNCHANGED <<idle, position, deposits, withdrawalsPaid, realizedPnl, feesAccrued,
                   orders, pendingWithdrawals>>
    /\ Leaves(status)

-----------------------------------------------------------------------------
(* The specifications: the accounts under the server's policy, and under   *)
(* any policy the domain accepts.  The id of a request is a fresh command's *)
(* (LocalLedger implements this specification).                            *)

Command ==
    \/ \E amount \in Amounts :
        \/ Deposit(amount) \/ Allocate(amount) \/ Deallocate(amount) \/ PayFees(amount)
        \/ \E id \in CommandIds : ~IsPending(id) /\ RequestWithdrawal(id, amount)
        \/ \E o \in OrderIds : ReserveBuy(o, amount)
    \/ \E id \in CommandIds : CancelWithdrawal(id) \/ ConfirmWithdrawal(id)
    \/ \E o \in OrderIds : CancelOrder(o) \/ FillBuy(o)
    \/ \E value \in Amounts : MarkPosition(value)
    \/ Start \/ Stop

ServerCommand == (Command \/ \E proceeds \in Amounts : SettleFully(proceeds)) /\ Fits'
AnyPolicyCommand ==
    (Command \/ \E proceeds \in Amounts : SettleUnderAPolicy(proceeds)) /\ Fits'

ServerAccounts == AccountsInit /\ [][ServerCommand]_accounts
AnyPolicyAccounts == AccountsInit /\ [][AnyPolicyCommand]_accounts

-----------------------------------------------------------------------------
(* Properties *)

\* The final check of execute never refuses a command: through any sequence
\* of reservations, marks, settlements and fee payments the fees owed are
\* covered by cash, and both the fees and the equity add up to where they
\* came from.
FeesFunded ==
    /\ feeLiability <= activeCash
    /\ feesAccrued = feesPaid + feeLiability
EquityConserved ==
    Equity = deposits - withdrawalsPaid + realizedPnl + (positionValue - positionCost) - feesAccrued
AccountsBalance == FeesFunded /\ EquityConserved /\ ActiveNet >= 0

\* A vault reads stopped only without orders and without a position, and
\* reads stopping only while it has some: it can be started again as soon as
\* it is flat.
StatusMatchesExposure ==
    /\ status = "stopped" => positionCost = 0 /\ NoOrders(orders)
    /\ status = "stopping" => positionCost > 0 \/ ~NoOrders(orders)
    /\ positionCost = 0 => positionValue = 0

\* Under the server's policy a vault without a position has no more active
\* than its Passes allow, and every command of the server keeps it so, from
\* wherever another policy has led: gains above the allowance, also unrealized
\* gains that cash was allocated on top of, leave with the settlement.
FlatWithinAllowance == positionCost = 0 => ActiveNet <= Allowance
StaysWithinAllowance ==
    [][ServerCommand /\ FlatWithinAllowance => FlatWithinAllowance']_accounts
=============================================================================
