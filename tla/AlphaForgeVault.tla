-------------------------- MODULE AlphaForgeVault --------------------------
(***************************************************************************)
(* One AlphaForgeVault with its PassLocker (contracts/src).  The owner      *)
(* deposits AF-USDC against Strategy Pass: every AF-USDC base unit of       *)
(* principal locks Scale raw units of Pass in the locker.  A transaction of *)
(* the EVM is atomic, so a call is one step; a call that would revert is no *)
(* step, and every require of the code is a conjunct of the action's guard. *)
(*                                                                         *)
(* Balances of all tokens are part of the state, because what must be true  *)
(* of the vault relates its own accounting to what it really holds, and     *)
(* because anybody may send it tokens it never accounted for.               *)
(***************************************************************************)
EXTENDS Integers, FiniteSets

CONSTANTS
    PositionAssets,  \* AF-ETH and AF-BTC, the assets a tracked position may hold
    StrayTokens,     \* any other ERC-20 somebody may send to the vault
    Scale,           \* PASS_SCALE, Pass raw units per AF-USDC base unit
    MaxUint,         \* type(uint256).max
    Supply,          \* fixed supply of each token (the constructors are the only mints)
    Amounts,         \* amounts the callers try: a bound of the instance
    Strays           \* the unsolicited transfers the callers try, as <<token, to>>

Usdc == "afUsdc"
Pass == "pass"
Native == "native"
Tokens == {Usdc, Pass, Native} \cup PositionAssets \cup StrayTokens
Holders == {"owner", "vault", "locker", "market"}

\* The constructor refuses a vault whose assets are not pairwise distinct.
ASSUME DistinctAssets ==
    /\ PositionAssets \cap {Usdc, Pass, Native} = {}
    /\ StrayTokens \cap ({Usdc, Pass, Native} \cup PositionAssets) = {}
    /\ IsFiniteSet(PositionAssets)
ASSUME NumericBounds ==
    /\ Scale \in Nat \ {0}
    /\ MaxUint \in Nat
    /\ Supply \in [Tokens -> 0..MaxUint]
    /\ Amounts \subseteq Nat
    /\ Strays \subseteq Tokens \X {"vault", "locker"}

VARIABLES
    principalBasis,            \* AF-USDC the owner put in and did not take out
    trackedUsdcBalance,        \* AF-USDC the vault accounts for
    trackedPosition,           \* units of each position asset the vault accounts for
    openTrackedPositionCount,  \* how many of them are nonzero
    closed,
    lockedBalance,             \* the locker's accounted Pass
    balances                   \* what every holder holds of every token

accounting == <<principalBasis, trackedUsdcBalance, trackedPosition,
                openTrackedPositionCount, closed, lockedBalance>>
vars == <<principalBasis, trackedUsdcBalance, trackedPosition,
          openTrackedPositionCount, closed, lockedBalance, balances>>

TypeOK ==
    /\ principalBasis \in Nat
    /\ trackedUsdcBalance \in Nat
    /\ trackedPosition \in [PositionAssets -> Nat]
    /\ openTrackedPositionCount \in Nat
    /\ closed \in BOOLEAN
    /\ lockedBalance \in Nat
    /\ balances \in [Tokens -> [Holders -> Nat]]

-----------------------------------------------------------------------------
(* Views and conversions *)

UsdcToPassRaw(usdcRaw) == usdcRaw * Scale

\* usdcToPassRaw reverts above this amount
ConvertibleToPass(usdcRaw) == usdcRaw <= MaxUint \div Scale

RealizedProfit ==
    IF trackedUsdcBalance > principalBasis
    THEN trackedUsdcBalance - principalBasis ELSE 0

\* A withdrawal takes realized profit first ...
PrincipalFirst(amount) == IF amount > principalBasis THEN amount - principalBasis ELSE 0
ProfitPart(amount) == IF amount < RealizedProfit THEN amount ELSE RealizedProfit

\* ... and the rest of it is principal, which alone unlocks Pass.
PrincipalPart(amount) == amount - ProfitPart(amount)

PassForWholeAmount(amount) == UsdcToPassRaw(amount)
PassRawUnlocked(amount) == UsdcToPassRaw(PrincipalPart(amount))

WithdrawableIgnoringPositions == IF closed THEN 0 ELSE trackedUsdcBalance
WithdrawableUsdc ==
    IF closed THEN 0
    ELSE IF openTrackedPositionCount # 0 THEN RealizedProfit
    ELSE trackedUsdcBalance

ReservedTrackedBalance(token) ==
    IF token = Usdc THEN trackedUsdcBalance
    ELSE IF token \in PositionAssets THEN trackedPosition[token]
    ELSE IF token = Pass THEN lockedBalance
    ELSE 0

Above(actual, reserved) == IF actual > reserved THEN actual - reserved ELSE 0

UntrackedExcess(token) ==
    IF token = Pass /\ closed
    THEN balances[Pass]["vault"]
         + Above(balances[Pass]["locker"], ReservedTrackedBalance(Pass))
    ELSE Above(balances[token]["vault"], ReservedTrackedBalance(token))

\* An ERC-20 (or native) transfer of n units between two different holders.
Moved(b, token, from, to, n) ==
    [b EXCEPT ![token][from] = @ - n, ![token][to] = @ + n]

Holds(token, holder, n) == balances[token][holder] >= n

-----------------------------------------------------------------------------
(* The owner's calls *)

\* The locker accounts what arrived only when its balance covers both the
\* Pass already accounted and the new amount (PassLocker.lock).
LockCovered(passRaw) == balances[Pass]["locker"] + passRaw >= lockedBalance + passRaw

\* What deposit pulls from the owner: AF-USDC into the vault and Pass into
\* the locker.
PulledWithoutPass(usdcAmount) == Moved(balances, Usdc, "owner", "vault", usdcAmount)
Pulled(usdcAmount) ==
    Moved(Moved(balances, Usdc, "owner", "vault", usdcAmount),
          Pass, "owner", "locker", UsdcToPassRaw(usdcAmount))

\* The vault accounts for what the owner deposits, whatever else it holds.
TrackedFromBalance(usdcAmount) == balances[Usdc]["vault"] + usdcAmount
TrackedAfterDeposit(usdcAmount) == trackedUsdcBalance + usdcAmount

Deposit(usdcAmount) ==
    /\ ~closed
    /\ usdcAmount # 0
    /\ ConvertibleToPass(usdcAmount)
    /\ principalBasis <= MaxUint - usdcAmount
    /\ trackedUsdcBalance <= MaxUint - usdcAmount
    /\ Holds(Usdc, "owner", usdcAmount)
    /\ Holds(Pass, "owner", UsdcToPassRaw(usdcAmount))
    /\ LockCovered(UsdcToPassRaw(usdcAmount))
    /\ principalBasis' = principalBasis + usdcAmount
    /\ trackedUsdcBalance' = TrackedAfterDeposit(usdcAmount)
    /\ lockedBalance' = lockedBalance + UsdcToPassRaw(usdcAmount)
    /\ balances' = Pulled(usdcAmount)
    /\ UNCHANGED <<trackedPosition, openTrackedPositionCount, closed>>

\* The principal part of a withdrawal waits for the open positions.
PrincipalAlwaysFree(amount) == TRUE
PrincipalFree(amount) == PrincipalPart(amount) = 0 \/ openTrackedPositionCount = 0

\* What withdraw, the locker and the tokens require of a withdrawal.
WithdrawAccepted(usdcAmount) ==
    /\ ~closed
    /\ usdcAmount # 0
    /\ usdcAmount <= trackedUsdcBalance
    /\ PrincipalFree(usdcAmount)
    /\ ConvertibleToPass(PrincipalPart(usdcAmount))
    /\ PrincipalPart(usdcAmount) <= principalBasis
    /\ Holds(Usdc, "vault", usdcAmount)
    /\ PassRawUnlocked(usdcAmount) <= lockedBalance
    /\ Holds(Pass, "locker", PassRawUnlocked(usdcAmount))

Withdraw(usdcAmount) ==
    /\ WithdrawAccepted(usdcAmount)
    /\ trackedUsdcBalance' = trackedUsdcBalance - usdcAmount
    /\ principalBasis' = principalBasis - PrincipalPart(usdcAmount)
    /\ lockedBalance' = lockedBalance - PassRawUnlocked(usdcAmount)
    /\ balances' = Moved(Moved(balances, Usdc, "vault", "owner", usdcAmount),
                         Pass, "locker", "owner", PassRawUnlocked(usdcAmount))
    /\ UNCHANGED <<trackedPosition, openTrackedPositionCount, closed>>

\* What close sends back: what the vault and the locker account for, neither
\* the principal (there may have been a loss) nor all that they hold.
PrincipalAsReturn == principalBasis
UsdcReturned == trackedUsdcBalance

PassForTracked == UsdcToPassRaw(trackedUsdcBalance)
PassRawReleased == lockedBalance

CloseAccepted ==
    /\ ~closed
    /\ openTrackedPositionCount = 0
    /\ Holds(Usdc, "vault", UsdcReturned)
    /\ Holds(Pass, "locker", PassRawReleased)

\* The positions are already zero when their count is, so clearing them
\* leaves the count alone.
Close ==
    /\ CloseAccepted
    /\ closed' = TRUE
    /\ principalBasis' = 0
    /\ trackedUsdcBalance' = 0
    /\ trackedPosition' = [asset \in PositionAssets |-> 0]
    /\ lockedBalance' = lockedBalance - PassRawReleased
    /\ balances' = Moved(Moved(balances, Usdc, "vault", "owner", UsdcReturned),
                         Pass, "locker", "owner", PassRawReleased)
    /\ UNCHANGED openTrackedPositionCount

\* Rescue pays the excess out of the vault and, for the Pass, out of the
\* locker as well (PassLocker.rescueUntrackedPass).
RescueAllowed == closed

RescueUntrackedToken(token) ==
    /\ RescueAllowed
    /\ UntrackedExcess(token) >= 1
    /\ \/ /\ token = Pass
          /\ balances[Pass]["locker"] >= lockedBalance
          /\ balances' = Moved(Moved(balances,
                                 Pass, "locker", "owner", balances[Pass]["locker"] - lockedBalance),
                                 Pass, "vault", "owner",
                                 UntrackedExcess(Pass) - (balances[Pass]["locker"] - lockedBalance))
       \/ /\ token # Pass
          /\ balances' = Moved(balances, token, "vault", "owner", UntrackedExcess(token))
    /\ UNCHANGED accounting

RescueNative ==
    /\ RescueAllowed
    /\ balances[Native]["vault"] >= 1
    /\ balances' = Moved(balances, Native, "vault", "owner", balances[Native]["vault"])
    /\ UNCHANGED accounting

-----------------------------------------------------------------------------
(* Everybody else *)

\* Pass and the assets are plain transferable ERC-20 tokens: the owner and
\* the market trade them, and either may send some to the vault or the
\* locker without the vault being told.
Trade(token, from, to, amount) ==
    /\ {from, to} = {"owner", "market"}
    /\ Holds(token, from, amount)
    /\ balances' = Moved(balances, token, from, to, amount)
    /\ UNCHANGED accounting

SendStray(token, from, to, amount) ==
    /\ from \in {"owner", "market"}
    /\ <<token, to>> \in Strays
    /\ Holds(token, from, amount)
    /\ balances' = Moved(balances, token, from, to, amount)
    /\ UNCHANGED accounting

(* The settlement model of the test harness, played by the market: the     *)
(* production vault has no such call, and its internal accounting of       *)
(* positions is reached only through it.                                   *)

RecordRealizedProfit(amount) ==
    /\ ~closed
    /\ amount # 0
    /\ trackedUsdcBalance <= MaxUint - amount
    /\ Holds(Usdc, "market", amount)
    /\ balances[Usdc]["vault"] + amount >= trackedUsdcBalance + amount
    /\ trackedUsdcBalance' = trackedUsdcBalance + amount
    /\ balances' = Moved(balances, Usdc, "market", "vault", amount)
    /\ UNCHANGED <<principalBasis, trackedPosition, openTrackedPositionCount,
                   closed, lockedBalance>>

RecordRealizedLoss(amount) ==
    /\ ~closed
    /\ amount # 0
    /\ amount <= trackedUsdcBalance
    /\ Holds(Usdc, "vault", amount)
    /\ trackedUsdcBalance' = trackedUsdcBalance - amount
    /\ balances' = Moved(balances, Usdc, "vault", "market", amount)
    /\ UNCHANGED <<principalBasis, trackedPosition, openTrackedPositionCount,
                   closed, lockedBalance>>

\* _setTrackedPosition: the count changes only between zero and nonzero.
CountedOnEveryIncrease(previous, amount) ==
    IF amount > previous THEN openTrackedPositionCount + 1
    ELSE IF amount = 0 /\ previous # 0 THEN openTrackedPositionCount - 1
    ELSE openTrackedPositionCount
CountAfter(previous, amount) ==
    IF previous = amount THEN openTrackedPositionCount
    ELSE IF previous = 0 THEN openTrackedPositionCount + 1
    ELSE IF amount = 0 THEN openTrackedPositionCount - 1
    ELSE openTrackedPositionCount

SetTrackedPosition(asset, amount) ==
    /\ openTrackedPositionCount' = CountAfter(trackedPosition[asset], amount)
    /\ trackedPosition' = [trackedPosition EXCEPT ![asset] = amount]

OpenPosition(asset, amount) ==
    /\ ~closed
    /\ amount # 0
    /\ Holds(asset, "market", amount)
    /\ trackedPosition[asset] <= MaxUint - amount
    /\ balances[asset]["vault"] + amount >= trackedPosition[asset] + amount
    /\ SetTrackedPosition(asset, trackedPosition[asset] + amount)
    /\ balances' = Moved(balances, asset, "market", "vault", amount)
    /\ UNCHANGED <<principalBasis, trackedUsdcBalance, closed, lockedBalance>>

SettlePosition(asset, amount) ==
    /\ ~closed
    /\ amount # 0
    /\ amount <= trackedPosition[asset]
    /\ Holds(asset, "vault", amount)
    /\ Holds(asset, "vault", trackedPosition[asset] - amount)
    /\ SetTrackedPosition(asset, trackedPosition[asset] - amount)
    /\ balances' = Moved(balances, asset, "vault", "market", amount)
    /\ UNCHANGED <<principalBasis, trackedUsdcBalance, closed, lockedBalance>>

-----------------------------------------------------------------------------
(* The specifications: the production vault, and the vault under the       *)
(* settlement model of the tests.                                          *)

Init ==
    /\ principalBasis = 0
    /\ trackedUsdcBalance = 0
    /\ trackedPosition = [asset \in PositionAssets |-> 0]
    /\ openTrackedPositionCount = 0
    /\ closed = FALSE
    /\ lockedBalance = 0
    /\ balances = [token \in Tokens |->
                     [holder \in Holders |->
                        IF holder = "market" THEN Supply[token] ELSE 0]]

OwnerStep ==
    \/ \E amount \in Amounts : Deposit(amount)
    \/ \E amount \in Amounts : Withdraw(amount)
    \/ Close
    \/ \E token \in Tokens \ {Native} : RescueUntrackedToken(token)
    \/ RescueNative

MarketStep ==
    \E token \in Tokens, from \in Holders, to \in Holders, amount \in Amounts :
        \/ Trade(token, from, to, amount)
        \/ SendStray(token, from, to, amount)

SettlementStep ==
    \/ \E amount \in Amounts : RecordRealizedProfit(amount)
    \/ \E amount \in Amounts : RecordRealizedLoss(amount)
    \/ \E asset \in PositionAssets, amount \in Amounts : OpenPosition(asset, amount)
    \/ \E asset \in PositionAssets, amount \in Amounts : SettlePosition(asset, amount)

Next == OwnerStep \/ MarketStep
SettlementNext == Next \/ SettlementStep

Spec == Init /\ [][Next]_vars
SettlementSpec == Init /\ [][SettlementNext]_vars

-----------------------------------------------------------------------------
(* Properties *)

\* While the vault is active the locker accounts exactly Scale Pass units per
\* unit of principal, through any sequence of deposits, profit-first
\* withdrawals, losses and settlements; a closed vault owes nothing at all.
LockMatchesPrincipal ==
    /\ ~closed => lockedBalance = UsdcToPassRaw(principalBasis)
    /\ closed => /\ principalBasis = 0
                 /\ trackedUsdcBalance = 0
                 /\ lockedBalance = 0
                 /\ \A asset \in PositionAssets : trackedPosition[asset] = 0

\* Every unit the vault or the locker accounts for is really held, so no
\* stray transfer, rescue or settlement can leave an obligation unfunded.
ObligationsFunded ==
    /\ trackedUsdcBalance <= balances[Usdc]["vault"]
    /\ lockedBalance <= balances[Pass]["locker"]
    /\ \A asset \in PositionAssets : trackedPosition[asset] <= balances[asset]["vault"]

\* The count that gates withdrawals and close is the number of nonzero
\* positions, however they were increased, reduced and settled.
PositionCountExact ==
    openTrackedPositionCount = Cardinality({asset \in PositionAssets : trackedPosition[asset] # 0})

\* The view withdrawableUsdc is a promise: the owner can withdraw exactly the
\* amounts up to it, in one call that does not revert (the rest of Withdraw
\* only assigns, so a withdrawal that is accepted is one that happens).
WithdrawableIsHonest ==
    \A amount \in Amounts \ {0} :
        (amount <= WithdrawableUsdc) <=> WithdrawAccepted(amount)

\* The owner can always leave: with no position open, close never reverts,
\* even after a loss (no top-up) and whatever anybody sent to the vault.
ExitNeverBlocked ==
    (~closed /\ openTrackedPositionCount = 0) => CloseAccepted

\* Until it is closed the vault, and the locker, only pay out what they
\* account for: what others sent them stays, close included.
Excess(token, holder) ==
    IF holder = "vault" /\ token # Pass
    THEN balances[token]["vault"] - ReservedTrackedBalance(token)
    ELSE IF holder = "locker" /\ token = Pass
    THEN balances[Pass]["locker"] - lockedBalance
    ELSE balances[token][holder]

DustUntouched ==
    [][~closed => \A token \in Tokens, holder \in {"vault", "locker"} :
          Excess(token, holder)' >= Excess(token, holder)]_vars

\* While a position is open the principal and the Pass behind it only grow.
OpenPositionsFreezeCapacity ==
    [][openTrackedPositionCount # 0 =>
          /\ principalBasis' >= principalBasis
          /\ lockedBalance' >= lockedBalance
          /\ ~closed']_vars

\* A withdrawal reduces principal only once no realized profit is left.
ProfitLeavesFirst ==
    [][(principalBasis' < principalBasis /\ ~closed') => RealizedProfit' = 0]_vars

\* Principal changes hands against Pass: the step that raises the principal
\* by n takes n * Scale Pass from the owner, the step that lowers it gives
\* them back, and a close gives back all of them, also after a loss.
PassFollowsPrincipal ==
    [][principalBasis' # principalBasis =>
          balances'[Pass]["owner"] - balances[Pass]["owner"]
          = UsdcToPassRaw(principalBasis - principalBasis')]_vars

\* The production vault has no settlement call: what it accounts for is what
\* the owner deposited, and no transfer to it ever becomes profit.
PlainCustody ==
    /\ trackedUsdcBalance = principalBasis
    /\ openTrackedPositionCount = 0
====
