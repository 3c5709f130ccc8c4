----------------------- MODULE AlphaForgeVaultProofs -----------------------
(***************************************************************************)
(* Proofs about the vault for every Scale, every supply, every set of       *)
(* position assets and stray tokens and every amount.                       *)
(***************************************************************************)
EXTENDS VaultDeployments, FiniteSetTheorems, TLAPS

-----------------------------------------------------------------------------
(* What the helpers compute *)

\* The conversion to Pass yields a natural number and is additive, so adding
\* or removing principal moves exactly the matching Pass.
LEMMA PassRawNat == ASSUME NEW x \in Nat PROVE UsdcToPassRaw(x) \in Nat
  BY NumericBounds DEF UsdcToPassRaw

LEMMA PassRawAdd ==
  ASSUME NEW x \in Nat, NEW y \in Nat
  PROVE  UsdcToPassRaw(x + y) = UsdcToPassRaw(x) + UsdcToPassRaw(y)
  <1>1. Scale \in Nat
    BY NumericBounds
  <1>2. (x + y) * Scale = x * Scale + y * Scale
    BY <1>1
  <1> QED BY <1>2 DEF UsdcToPassRaw

LEMMA PassRawSub ==
  ASSUME NEW x \in Nat, NEW y \in Nat, y <= x
  PROVE  /\ UsdcToPassRaw(x - y) = UsdcToPassRaw(x) - UsdcToPassRaw(y)
         /\ UsdcToPassRaw(y) <= UsdcToPassRaw(x)
  <1>1. x - y \in Nat /\ (x - y) + y = x
    OBVIOUS
  <1>2. UsdcToPassRaw(x) = UsdcToPassRaw(x - y) + UsdcToPassRaw(y)
    BY <1>1, PassRawAdd
  <1>3. UsdcToPassRaw(x - y) \in Nat /\ UsdcToPassRaw(y) \in Nat /\ UsdcToPassRaw(x) \in Nat
    BY <1>1, PassRawNat
  <1> QED BY <1>2, <1>3

LEMMA PassRawZero == UsdcToPassRaw(0) = 0
  BY NumericBounds DEF UsdcToPassRaw

\* A transfer that is covered keeps balances well-typed and changes exactly
\* the two balances of that token.
Balances == [Tokens -> [Holders -> Nat]]

LEMMA MovedIsTransfer ==
  ASSUME NEW b \in Balances, NEW token \in Tokens,
         NEW from \in Holders, NEW to \in Holders, from # to,
         NEW n \in Nat, b[token][from] >= n
  PROVE  /\ Moved(b, token, from, to, n) \in Balances
         /\ \A t \in Tokens, h \in Holders :
              Moved(b, token, from, to, n)[t][h] =
                IF t = token /\ h = from THEN b[t][h] - n
                ELSE IF t = token /\ h = to THEN b[t][h] + n
                ELSE b[t][h]
  <1> DEFINE row == [b[token] EXCEPT ![from] = @ - n, ![to] = @ + n]
  <1>1. b[token] \in [Holders -> Nat]
    BY DEF Balances
  <1>2. /\ row \in [Holders -> Nat]
        /\ \A h \in Holders : row[h] = IF h = from THEN b[token][h] - n
                                       ELSE IF h = to THEN b[token][h] + n
                                       ELSE b[token][h]
    BY <1>1
  <1>3. Moved(b, token, from, to, n) = [b EXCEPT ![token] = row]
    BY <1>1 DEF Moved, Balances
  <1> HIDE DEF row
  <1> QED BY <1>1, <1>2, <1>3 DEF Balances

\* The split of a withdrawal: both parts are natural numbers that add up to
\* the amount, and the principal part never exceeds the principal.
LEMMA WithdrawalSplit ==
  ASSUME TypeOK, NEW amount \in Nat, amount <= trackedUsdcBalance
  PROVE  /\ PrincipalPart(amount) \in Nat
         /\ PrincipalPart(amount) <= amount
         /\ PrincipalPart(amount) <= principalBasis
         /\ PrincipalPart(amount) # 0 =>
              trackedUsdcBalance - amount <= principalBasis - PrincipalPart(amount)
  BY DEF TypeOK, PrincipalPart, ProfitPart, RealizedProfit

\* The tokens have the names their roles need.
LEMMA TokenNames ==
  /\ Usdc \in Tokens /\ Pass \in Tokens /\ Native \in Tokens
  /\ PositionAssets \subseteq Tokens
  /\ Usdc # Pass /\ Usdc # Native /\ Pass # Native
  /\ Usdc \notin PositionAssets /\ Pass \notin PositionAssets /\ Native \notin PositionAssets
  BY DistinctAssets DEF Tokens, Usdc, Pass, Native

-----------------------------------------------------------------------------
(* Transfers in terms of the named balances *)

\* Two transfers of different tokens: AF-USDC one way between two holders,
\* Pass between two holders.
LEMMA UsdcAndPassMoved ==
  ASSUME TypeOK, NEW n \in Nat, NEW p \in Nat,
         NEW uFrom \in Holders, NEW uTo \in Holders, uFrom # uTo,
         NEW pFrom \in Holders, NEW pTo \in Holders, pFrom # pTo,
         Holds(Usdc, uFrom, n), Holds(Pass, pFrom, p),
         balances' = Moved(Moved(balances, Usdc, uFrom, uTo, n), Pass, pFrom, pTo, p)
  PROVE  /\ balances' \in Balances
         /\ balances'[Usdc][uFrom] = balances[Usdc][uFrom] - n
         /\ balances'[Usdc][uTo] = balances[Usdc][uTo] + n
         /\ balances'[Pass][pFrom] = balances[Pass][pFrom] - p
         /\ balances'[Pass][pTo] = balances[Pass][pTo] + p
         /\ \A t \in Tokens : t # Usdc /\ t # Pass =>
              \A h \in Holders : balances'[t][h] = balances[t][h]
  <1> DEFINE mid == Moved(balances, Usdc, uFrom, uTo, n)
  <1>1. balances \in Balances
    BY DEF TypeOK, Balances
  <1>2. /\ mid \in Balances
        /\ \A t \in Tokens, h \in Holders :
              mid[t][h] = IF t = Usdc /\ h = uFrom THEN balances[t][h] - n
                          ELSE IF t = Usdc /\ h = uTo THEN balances[t][h] + n
                          ELSE balances[t][h]
    BY <1>1, MovedIsTransfer, TokenNames DEF Holds
  <1> HIDE DEF mid
  <1>3. mid[Pass][pFrom] >= p
    BY <1>2, TokenNames DEF Holds
  <1>4. balances' = Moved(mid, Pass, pFrom, pTo, p)
    BY DEF mid
  <1>5. /\ balances' \in Balances
        /\ \A t \in Tokens, h \in Holders :
              balances'[t][h] = IF t = Pass /\ h = pFrom THEN mid[t][h] - p
                                ELSE IF t = Pass /\ h = pTo THEN mid[t][h] + p
                                ELSE mid[t][h]
    BY <1>2, <1>3, <1>4, MovedIsTransfer, TokenNames
  <1> QED BY <1>2, <1>5, TokenNames

\* One transfer of one token.
LEMMA OneMoved ==
  ASSUME TypeOK, NEW token \in Tokens, NEW n \in Nat,
         NEW from \in Holders, NEW to \in Holders, from # to,
         Holds(token, from, n),
         balances' = Moved(balances, token, from, to, n)
  PROVE  /\ balances' \in Balances
         /\ balances'[token][from] = balances[token][from] - n
         /\ balances'[token][to] = balances[token][to] + n
         /\ \A t \in Tokens, h \in Holders :
              (t # token \/ (h # from /\ h # to)) => balances'[t][h] = balances[t][h]
  <1>1. balances \in Balances
    BY DEF TypeOK, Balances
  <1> QED BY <1>1, MovedIsTransfer DEF Holds

-----------------------------------------------------------------------------
(* The inductive invariant.  Type correctness is not inductive alone: the   *)
(* differences of withdraw and close are natural numbers because the        *)
(* obligations are funded, and a withdrawal can keep the lock in step with  *)
(* the principal only if it was before.                                     *)

Inv == TypeOK /\ LockMatchesPrincipal /\ ObligationsFunded /\ PositionCountExact

LEMMA InitInv == Init => Inv
  <1> SUFFICES ASSUME Init PROVE Inv
    OBVIOUS
  <1>1. balances \in Balances
    BY NumericBounds DEF Init, Balances
  <1>2. TypeOK
    BY <1>1 DEF Init, TypeOK, Balances
  <1>3. LockMatchesPrincipal
    BY PassRawZero DEF Init, LockMatchesPrincipal
  <1>4. ObligationsFunded
    <2>1. \A t \in Tokens : balances[t]["vault"] = 0 /\ balances[t]["locker"] = 0
      BY DEF Init, Holders
    <2> QED BY <2>1, TokenNames DEF Init, ObligationsFunded
  <1>5. PositionCountExact
    <2>1. {asset \in PositionAssets : trackedPosition[asset] # 0} = {}
      BY DEF Init
    <2> QED BY <2>1, FS_EmptySet DEF Init, PositionCountExact
  <1> QED BY <1>2, <1>3, <1>4, <1>5 DEF Inv

LEMMA DepositInv ==
  ASSUME Inv, NEW amount \in Amounts, Deposit(amount)
  PROVE  Inv'
  <1> USE TokenNames
  <1> DEFINE p == UsdcToPassRaw(amount)
  <1>1. amount \in Nat /\ p \in Nat /\ TypeOK
    BY NumericBounds, PassRawNat DEF Inv
  <1>2. /\ balances' \in Balances
        /\ balances'[Usdc]["vault"] = balances[Usdc]["vault"] + amount
        /\ balances'[Pass]["locker"] = balances[Pass]["locker"] + p
        /\ \A asset \in PositionAssets : balances'[asset]["vault"] = balances[asset]["vault"]
    <2>1. balances' = Moved(Moved(balances, Usdc, "owner", "vault", amount), Pass, "owner", "locker", p)
      BY DEF Deposit, Pulled
    <2>2. Holds(Usdc, "owner", amount) /\ Holds(Pass, "owner", p)
      BY DEF Deposit
    <2> HIDE DEF p
    <2> QED BY <1>1, <2>1, <2>2, UsdcAndPassMoved DEF Holders
  <1>3. /\ principalBasis' = principalBasis + amount
        /\ trackedUsdcBalance' = trackedUsdcBalance + amount
        /\ lockedBalance' = lockedBalance + p
        /\ UNCHANGED <<trackedPosition, openTrackedPositionCount, closed>>
        /\ ~closed
    BY DEF Deposit, TrackedAfterDeposit
  <1>4. lockedBalance' = UsdcToPassRaw(principalBasis')
    BY <1>1, <1>3, PassRawAdd DEF Inv, LockMatchesPrincipal, TypeOK
  <1> HIDE DEF p
  <1>5. TypeOK'
    BY <1>1, <1>2, <1>3 DEF TypeOK, Balances
  <1>6. LockMatchesPrincipal'
    BY <1>3, <1>4 DEF LockMatchesPrincipal
  <1>7. ObligationsFunded'
    BY <1>1, <1>2, <1>3 DEF Inv, ObligationsFunded, TypeOK, Holders
  <1>8. PositionCountExact'
    BY <1>3 DEF Inv, PositionCountExact
  <1> QED BY <1>5, <1>6, <1>7, <1>8 DEF Inv

LEMMA WithdrawInv ==
  ASSUME Inv, NEW amount \in Amounts, Withdraw(amount)
  PROVE  Inv'
  <1> USE TokenNames
  <1> DEFINE q == PrincipalPart(amount)
             p == PassRawUnlocked(amount)
  <1>1. amount \in Nat /\ TypeOK /\ amount <= trackedUsdcBalance /\ ~closed
    BY NumericBounds DEF Inv, Withdraw, WithdrawAccepted
  <1>2. q \in Nat /\ q <= principalBasis
    BY <1>1, WithdrawalSplit
  <1>3. p \in Nat /\ p = UsdcToPassRaw(q)
    BY <1>2, PassRawNat DEF PassRawUnlocked
  <1>4. /\ balances' \in Balances
        /\ balances'[Usdc]["vault"] = balances[Usdc]["vault"] - amount
        /\ balances'[Pass]["locker"] = balances[Pass]["locker"] - p
        /\ \A asset \in PositionAssets : balances'[asset]["vault"] = balances[asset]["vault"]
    <2>1. balances' = Moved(Moved(balances, Usdc, "vault", "owner", amount), Pass, "locker", "owner", p)
      BY DEF Withdraw, WithdrawAccepted
    <2>2. Holds(Usdc, "vault", amount) /\ Holds(Pass, "locker", p)
      BY DEF Withdraw, WithdrawAccepted
    <2> HIDE DEF p
    <2> QED BY <1>1, <1>3, <2>1, <2>2, UsdcAndPassMoved DEF Holders
  <1>5. /\ principalBasis' = principalBasis - q
        /\ trackedUsdcBalance' = trackedUsdcBalance - amount
        /\ lockedBalance' = lockedBalance - p
        /\ UNCHANGED <<trackedPosition, openTrackedPositionCount, closed>>
        /\ p <= lockedBalance
    BY DEF Withdraw, WithdrawAccepted
  <1>6. lockedBalance' = UsdcToPassRaw(principalBasis')
    BY <1>1, <1>2, <1>3, <1>5, PassRawSub DEF Inv, LockMatchesPrincipal, TypeOK
  <1> HIDE DEF q, p
  <1>7. TypeOK'
    BY <1>1, <1>2, <1>3, <1>4, <1>5 DEF TypeOK, Balances
  <1>8. LockMatchesPrincipal'
    BY <1>1, <1>5, <1>6 DEF LockMatchesPrincipal
  <1>9. ObligationsFunded'
    BY <1>1, <1>2, <1>3, <1>4, <1>5 DEF Inv, ObligationsFunded, TypeOK, Holders
  <1>10. PositionCountExact'
    BY <1>5 DEF Inv, PositionCountExact
  <1> QED BY <1>7, <1>8, <1>9, <1>10 DEF Inv

LEMMA CloseInv ==
  ASSUME Inv, Close
  PROVE  Inv'
  <1> USE TokenNames
  <1>1. TypeOK /\ trackedUsdcBalance \in Nat /\ lockedBalance \in Nat
    BY DEF Inv, TypeOK
  <1>2. /\ balances' \in Balances
        /\ balances'[Usdc]["vault"] = balances[Usdc]["vault"] - trackedUsdcBalance
        /\ balances'[Pass]["locker"] = balances[Pass]["locker"] - lockedBalance
    <2>1. balances' = Moved(Moved(balances, Usdc, "vault", "owner", trackedUsdcBalance),
                            Pass, "locker", "owner", lockedBalance)
      BY DEF Close, CloseAccepted, UsdcReturned, PassRawReleased
    <2>2. Holds(Usdc, "vault", trackedUsdcBalance) /\ Holds(Pass, "locker", lockedBalance)
      BY DEF Close, CloseAccepted, UsdcReturned, PassRawReleased
    <2> QED BY <1>1, <2>1, <2>2, UsdcAndPassMoved DEF Holders
  <1>3. /\ closed' = TRUE /\ principalBasis' = 0 /\ trackedUsdcBalance' = 0
        /\ lockedBalance' = 0 /\ trackedPosition' = [asset \in PositionAssets |-> 0]
        /\ openTrackedPositionCount' = 0
    BY <1>1 DEF Close, CloseAccepted, PassRawReleased
  <1>4. TypeOK'
    BY <1>2, <1>3 DEF TypeOK, Balances
  <1>5. LockMatchesPrincipal'
    BY <1>3 DEF LockMatchesPrincipal
  <1>6. ObligationsFunded'
    BY <1>2, <1>3 DEF ObligationsFunded, Balances, Holders
  <1>7. PositionCountExact'
    <2>1. {asset \in PositionAssets : trackedPosition'[asset] # 0} = {}
      BY <1>3
    <2> QED BY <1>3, <2>1, FS_EmptySet DEF PositionCountExact
  <1> QED BY <1>4, <1>5, <1>6, <1>7 DEF Inv

\* Steps that leave the accounting alone keep the invariant when they take
\* from the vault and from the locker no more than the unaccounted excess.
LEMMA BalancesOnlyInv ==
  ASSUME Inv, UNCHANGED accounting, balances' \in Balances,
         trackedUsdcBalance <= balances'[Usdc]["vault"],
         lockedBalance <= balances'[Pass]["locker"],
         \A asset \in PositionAssets : trackedPosition[asset] <= balances'[asset]["vault"]
  PROVE  Inv'
  <1>1. TypeOK'
    BY DEF Inv, TypeOK, accounting, Balances
  <1>2. LockMatchesPrincipal'
    BY DEF Inv, LockMatchesPrincipal, accounting
  <1>3. ObligationsFunded'
    BY DEF ObligationsFunded, accounting
  <1>4. PositionCountExact'
    BY DEF Inv, PositionCountExact, accounting
  <1> QED BY <1>1, <1>2, <1>3, <1>4 DEF Inv

LEMMA RescueUntrackedTokenInv ==
  ASSUME Inv, NEW token \in Tokens \ {Native}, RescueUntrackedToken(token)
  PROVE  Inv'
  <1> USE TokenNames
  <1>1. TypeOK /\ balances \in Balances /\ UNCHANGED accounting
    BY DEF Inv, TypeOK, Balances, RescueUntrackedToken
  <1>2. CASE token = Pass
    <2> DEFINE inLocker == balances[Pass]["locker"] - lockedBalance
               inVault == UntrackedExcess(Pass) - inLocker
               mid == Moved(balances, Pass, "locker", "owner", inLocker)
    <2>1. /\ closed /\ balances[Pass]["locker"] >= lockedBalance
          /\ balances' = Moved(mid, Pass, "vault", "owner", inVault)
      BY <1>2 DEF RescueUntrackedToken, RescueAllowed
    <2>2. /\ inLocker \in Nat
          /\ inLocker <= balances[Pass]["locker"]
          /\ inVault = balances[Pass]["vault"]
      BY <1>1, <2>1 DEF TypeOK, Holders, UntrackedExcess, Above, ReservedTrackedBalance
    <2>3. /\ mid \in Balances
          /\ \A t \in Tokens, h \in Holders :
                mid[t][h] = IF t = Pass /\ h = "locker" THEN balances[t][h] - inLocker
                            ELSE IF t = Pass /\ h = "owner" THEN balances[t][h] + inLocker
                            ELSE balances[t][h]
      <3> HIDE DEF inLocker
      <3> QED BY <1>1, <2>2, MovedIsTransfer DEF Holders
    <2>4. /\ inVault \in Nat /\ mid[Pass]["vault"] >= inVault
          /\ mid[Pass]["locker"] = lockedBalance
      BY <1>1, <2>2, <2>3 DEF Holders, TypeOK
    <2> HIDE DEF mid, inVault, inLocker
    <2>5. /\ balances' \in Balances
          /\ \A t \in Tokens, h \in Holders :
                balances'[t][h] = IF t = Pass /\ h = "vault" THEN mid[t][h] - inVault
                                  ELSE IF t = Pass /\ h = "owner" THEN mid[t][h] + inVault
                                  ELSE mid[t][h]
      BY <2>1, <2>3, <2>4, MovedIsTransfer DEF Holders
    <2>6. /\ balances'[Usdc]["vault"] = balances[Usdc]["vault"]
          /\ balances'[Pass]["locker"] = lockedBalance
          /\ \A asset \in PositionAssets : balances'[asset]["vault"] = balances[asset]["vault"]
      BY <2>3, <2>4, <2>5 DEF Holders
    <2> QED BY <1>1, <2>5, <2>6, BalancesOnlyInv DEF Inv, ObligationsFunded, TypeOK
  <1>3. CASE token # Pass
    <2> DEFINE out == UntrackedExcess(token)
    <2>1. balances' = Moved(balances, token, "vault", "owner", out) /\ closed
      BY <1>3 DEF RescueUntrackedToken, RescueAllowed
    <2>2. /\ out \in Nat /\ out <= balances[token]["vault"]
          /\ out <= balances[token]["vault"] - ReservedTrackedBalance(token) \/ out = 0
      <3>1. ReservedTrackedBalance(token) \in Nat /\ balances[token]["vault"] \in Nat
        BY <1>1 DEF TypeOK, ReservedTrackedBalance, Holders
      <3> QED BY <1>3, <3>1 DEF UntrackedExcess, Above
    <2> HIDE DEF out
    <2>3. /\ balances' \in Balances
          /\ balances'[token]["vault"] = balances[token]["vault"] - out
          /\ \A t \in Tokens, h \in Holders :
               (t # token \/ (h # "vault" /\ h # "owner")) => balances'[t][h] = balances[t][h]
      BY <1>1, <2>1, <2>2, OneMoved DEF Holds, Holders
    <2>4. \A t \in Tokens \ {Pass} :
             ReservedTrackedBalance(t) <= balances[t]["vault"]
                => ReservedTrackedBalance(t) <= balances'[t]["vault"]
      <3> SUFFICES ASSUME NEW t \in Tokens \ {Pass},
                          ReservedTrackedBalance(t) <= balances[t]["vault"]
                   PROVE  ReservedTrackedBalance(t) <= balances'[t]["vault"]
        OBVIOUS
      <3>1. ReservedTrackedBalance(t) \in Nat /\ balances[t]["vault"] \in Nat
        BY <1>1 DEF TypeOK, ReservedTrackedBalance, Holders
      <3> QED BY <2>2, <2>3, <3>1 DEF Holders
    <2>5. /\ trackedUsdcBalance <= balances'[Usdc]["vault"]
          /\ \A asset \in PositionAssets : trackedPosition[asset] <= balances'[asset]["vault"]
      BY <2>4 DEF Inv, ObligationsFunded, ReservedTrackedBalance
    <2>6. lockedBalance <= balances'[Pass]["locker"]
      BY <1>3, <2>3 DEF Inv, ObligationsFunded, Holders
    <2> QED BY <1>1, <2>3, <2>5, <2>6, BalancesOnlyInv
  <1> QED BY <1>2, <1>3

LEMMA RescueNativeInv ==
  ASSUME Inv, RescueNative
  PROVE  Inv'
  <1> USE TokenNames
  <1>1. /\ TypeOK /\ UNCHANGED accounting
        /\ balances[Native]["vault"] \in Nat
        /\ Holds(Native, "vault", balances[Native]["vault"])
        /\ balances' = Moved(balances, Native, "vault", "owner", balances[Native]["vault"])
    BY DEF Inv, TypeOK, Holders, RescueNative, Holds
  <1>2. /\ balances' \in Balances
        /\ \A t \in Tokens, h \in Holders :
             (t # Native \/ (h # "vault" /\ h # "owner")) => balances'[t][h] = balances[t][h]
    BY <1>1, OneMoved DEF Holders
  <1> QED BY <1>1, <1>2, BalancesOnlyInv DEF Inv, ObligationsFunded, Holders

\* Anybody's transfer that takes nothing from the vault and the locker.
LEMMA TransferInv ==
  ASSUME Inv, NEW token \in Tokens, NEW from \in Holders, NEW to \in Holders,
         NEW amount \in Amounts, from # to, from \in {"owner", "market"},
         Holds(token, from, amount),
         balances' = Moved(balances, token, from, to, amount), UNCHANGED accounting
  PROVE  Inv'
  <1> USE TokenNames
  <1>1. TypeOK /\ amount \in Nat
    BY NumericBounds DEF Inv
  <1>2. /\ balances' \in Balances
        /\ balances'[token][from] = balances[token][from] - amount
        /\ balances'[token][to] = balances[token][to] + amount
        /\ \A t \in Tokens, h \in Holders :
             (t # token \/ (h # from /\ h # to)) => balances'[t][h] = balances[t][h]
    BY <1>1, OneMoved
  <1>3. \A t \in Tokens, h \in {"vault", "locker"} : balances'[t][h] >= balances[t][h]
    BY <1>1, <1>2 DEF TypeOK, Holders
  <1>4. /\ trackedUsdcBalance <= balances'[Usdc]["vault"]
        /\ lockedBalance <= balances'[Pass]["locker"]
        /\ \A asset \in PositionAssets : trackedPosition[asset] <= balances'[asset]["vault"]
    BY <1>1, <1>2, <1>3 DEF Inv, ObligationsFunded, TypeOK, Holders, Balances
  <1> QED BY <1>2, <1>4, BalancesOnlyInv

LEMMA MarketStepInv ==
  ASSUME Inv, MarketStep
  PROVE  Inv'
  <1>1. PICK token \in Tokens, from \in Holders, to \in Holders, amount \in Amounts :
           Trade(token, from, to, amount) \/ SendStray(token, from, to, amount)
    BY DEF MarketStep
  <1>2. /\ from # to /\ from \in {"owner", "market"} /\ Holds(token, from, amount)
        /\ balances' = Moved(balances, token, from, to, amount) /\ UNCHANGED accounting
    BY <1>1, NumericBounds DEF Trade, SendStray
  <1> QED BY <1>2, TransferInv

-----------------------------------------------------------------------------
(* The settlement model *)

LEMMA RecordRealizedProfitInv ==
  ASSUME Inv, NEW amount \in Amounts, RecordRealizedProfit(amount)
  PROVE  Inv'
  <1> USE TokenNames
  <1>1. TypeOK /\ amount \in Nat
    BY NumericBounds DEF Inv
  <1>2. /\ balances' \in Balances
        /\ balances'[Usdc]["vault"] = balances[Usdc]["vault"] + amount
        /\ \A t \in Tokens, h \in Holders :
             (t # Usdc \/ (h # "market" /\ h # "vault")) => balances'[t][h] = balances[t][h]
    BY <1>1, OneMoved DEF RecordRealizedProfit, Holders
  <1>3. TypeOK'
    BY <1>1, <1>2 DEF RecordRealizedProfit, TypeOK, Balances
  <1>4. LockMatchesPrincipal'
    BY DEF Inv, LockMatchesPrincipal, RecordRealizedProfit
  <1>5. ObligationsFunded'
    BY <1>1, <1>2 DEF Inv, ObligationsFunded, RecordRealizedProfit, TypeOK, Holders
  <1>6. PositionCountExact'
    BY DEF Inv, PositionCountExact, RecordRealizedProfit
  <1> QED BY <1>3, <1>4, <1>5, <1>6 DEF Inv

LEMMA RecordRealizedLossInv ==
  ASSUME Inv, NEW amount \in Amounts, RecordRealizedLoss(amount)
  PROVE  Inv'
  <1> USE TokenNames
  <1>1. TypeOK /\ amount \in Nat
    BY NumericBounds DEF Inv
  <1>2. /\ balances' \in Balances
        /\ balances'[Usdc]["vault"] = balances[Usdc]["vault"] - amount
        /\ \A t \in Tokens, h \in Holders :
             (t # Usdc \/ (h # "market" /\ h # "vault")) => balances'[t][h] = balances[t][h]
    BY <1>1, OneMoved DEF RecordRealizedLoss, Holders
  <1>3. TypeOK'
    BY <1>1, <1>2 DEF RecordRealizedLoss, TypeOK, Balances
  <1>4. LockMatchesPrincipal'
    BY DEF Inv, LockMatchesPrincipal, RecordRealizedLoss
  <1>5. ObligationsFunded'
    BY <1>1, <1>2 DEF Inv, ObligationsFunded, RecordRealizedLoss, TypeOK, Holders
  <1>6. PositionCountExact'
    BY DEF Inv, PositionCountExact, RecordRealizedLoss
  <1> QED BY <1>3, <1>4, <1>5, <1>6 DEF Inv

\* Changing one position keeps the count exact: a position that becomes
\* nonzero joins the set of open ones, one that becomes zero leaves it.
LEMMA SetTrackedPositionCount ==
  ASSUME TypeOK, PositionCountExact, NEW asset \in PositionAssets, NEW amount \in Nat,
         SetTrackedPosition(asset, amount)
  PROVE  /\ PositionCountExact'
         /\ openTrackedPositionCount' \in Nat
         /\ trackedPosition' \in [PositionAssets -> Nat]
         /\ trackedPosition'[asset] = amount
         /\ \A other \in PositionAssets : other # asset => trackedPosition'[other] = trackedPosition[other]
  <1> DEFINE open == {a \in PositionAssets : trackedPosition[a] # 0}
             openNext == {a \in PositionAssets : trackedPosition'[a] # 0}
  <1>1. /\ trackedPosition' \in [PositionAssets -> Nat]
        /\ trackedPosition'[asset] = amount
        /\ \A other \in PositionAssets : other # asset => trackedPosition'[other] = trackedPosition[other]
    BY DEF SetTrackedPosition, TypeOK
  <1>2. IsFiniteSet(open) /\ openTrackedPositionCount = Cardinality(open)
    BY DistinctAssets, FS_Subset DEF PositionCountExact
  <1>3. openTrackedPositionCount' = Cardinality(openNext)
    <2>1. CASE trackedPosition[asset] = 0 /\ amount # 0
      <3>1. openNext = open \cup {asset} /\ asset \notin open
        BY <1>1, <2>1
      <3>2. Cardinality(openNext) = Cardinality(open) + 1
        BY <1>2, <3>1, FS_AddElement
      <3> QED BY <1>2, <2>1, <3>2 DEF SetTrackedPosition, CountAfter
    <2>2. CASE trackedPosition[asset] # 0 /\ amount = 0
      <3>1. openNext = open \ {asset} /\ asset \in open
        BY <1>1, <2>2
      <3>2. Cardinality(openNext) = Cardinality(open) - 1
        BY <1>2, <3>1, FS_RemoveElement
      <3> QED BY <1>2, <2>2, <3>2 DEF SetTrackedPosition, CountAfter
    <2>3. CASE (trackedPosition[asset] = 0) <=> (amount = 0)
      <3>1. openNext = open
        BY <1>1, <2>3
      <3>2. openTrackedPositionCount' = openTrackedPositionCount
        BY <2>3 DEF SetTrackedPosition, CountAfter
      <3> QED BY <1>2, <3>1, <3>2
    <2> QED BY <2>1, <2>2, <2>3
  <1>4. openTrackedPositionCount' \in Nat
    <2>1. openNext \subseteq PositionAssets
      OBVIOUS
    <2>2. IsFiniteSet(openNext)
      BY <2>1, DistinctAssets, FS_Subset
    <2> HIDE DEF openNext
    <2> QED BY <1>3, <2>2, FS_CardinalityType
  <1> QED BY <1>1, <1>3, <1>4 DEF PositionCountExact

LEMMA PositionStepInv ==
  ASSUME Inv, NEW asset \in PositionAssets, NEW amount \in Amounts,
         OpenPosition(asset, amount) \/ SettlePosition(asset, amount)
  PROVE  Inv'
  <1> USE TokenNames
  <1>1. /\ TypeOK /\ PositionCountExact /\ amount \in Nat /\ ~closed
        /\ UNCHANGED <<principalBasis, trackedUsdcBalance, closed, lockedBalance>>
        /\ trackedPosition[asset] \in Nat /\ balances[asset]["vault"] \in Nat
    BY NumericBounds DEF Inv, OpenPosition, SettlePosition, TypeOK, Holders
  <1>2. PICK updated \in Nat :
          /\ SetTrackedPosition(asset, updated)
          /\ balances' \in Balances
          /\ \A t \in Tokens, h \in Holders :
               (t # asset \/ (h # "market" /\ h # "vault")) => balances'[t][h] = balances[t][h]
          /\ balances'[asset]["vault"] - balances[asset]["vault"] = updated - trackedPosition[asset]
    <2>1. CASE OpenPosition(asset, amount)
      <3>1. /\ balances' \in Balances
            /\ balances'[asset]["vault"] = balances[asset]["vault"] + amount
            /\ \A t \in Tokens, h \in Holders :
                 (t # asset \/ (h # "market" /\ h # "vault")) => balances'[t][h] = balances[t][h]
        BY <1>1, <2>1, OneMoved DEF OpenPosition, Holders
      <3>2. /\ trackedPosition[asset] + amount \in Nat
            /\ SetTrackedPosition(asset, trackedPosition[asset] + amount)
        BY <1>1, <2>1 DEF OpenPosition
      <3> QED BY <1>1, <3>1, <3>2
    <2>2. CASE SettlePosition(asset, amount)
      <3>1. /\ balances' \in Balances
            /\ balances'[asset]["vault"] = balances[asset]["vault"] - amount
            /\ \A t \in Tokens, h \in Holders :
                 (t # asset \/ (h # "market" /\ h # "vault")) => balances'[t][h] = balances[t][h]
        BY <1>1, <2>2, OneMoved DEF SettlePosition, Holders
      <3>2. /\ trackedPosition[asset] - amount \in Nat
            /\ SetTrackedPosition(asset, trackedPosition[asset] - amount)
        BY <1>1, <2>2 DEF SettlePosition
      <3> QED BY <1>1, <3>1, <3>2
    <2> QED BY <2>1, <2>2
  <1>3. /\ PositionCountExact'
        /\ openTrackedPositionCount' \in Nat
        /\ trackedPosition' \in [PositionAssets -> Nat]
        /\ trackedPosition'[asset] = updated
        /\ \A other \in PositionAssets : other # asset => trackedPosition'[other] = trackedPosition[other]
    BY <1>1, <1>2, SetTrackedPositionCount
  <1>4. TypeOK'
    BY <1>1, <1>2, <1>3 DEF TypeOK, Balances
  <1>5. LockMatchesPrincipal'
    BY <1>1 DEF Inv, LockMatchesPrincipal
  <1>6. ObligationsFunded'
    <2>1. trackedPosition[asset] <= balances[asset]["vault"]
      BY DEF Inv, ObligationsFunded
    <2>2. balances'[asset]["vault"] \in Nat
      BY <1>2 DEF Balances, Holders
    <2>3. trackedPosition'[asset] <= balances'[asset]["vault"]
      BY <1>1, <1>2, <1>3, <2>1, <2>2
    <2> QED BY <1>1, <1>2, <1>3, <2>3 DEF Inv, ObligationsFunded, Holders
  <1> QED BY <1>3, <1>4, <1>5, <1>6 DEF Inv

-----------------------------------------------------------------------------
(* The theorems *)

LEMMA NextInv == Inv /\ [SettlementNext]_vars => Inv'
  <1> SUFFICES ASSUME Inv, [SettlementNext]_vars PROVE Inv'
    OBVIOUS
  <1>1. CASE OwnerStep
    <2>1. ASSUME NEW amount \in Amounts, Deposit(amount) PROVE Inv'
      BY <2>1, DepositInv
    <2>2. ASSUME NEW amount \in Amounts, Withdraw(amount) PROVE Inv'
      BY <2>2, WithdrawInv
    <2>3. ASSUME NEW token \in Tokens \ {Native}, RescueUntrackedToken(token) PROVE Inv'
      BY <2>3, RescueUntrackedTokenInv
    <2> QED BY <1>1, <2>1, <2>2, <2>3, CloseInv, RescueNativeInv DEF OwnerStep
  <1>2. CASE MarketStep
    BY <1>2, MarketStepInv
  <1>3. CASE SettlementStep
    BY <1>3, RecordRealizedProfitInv, RecordRealizedLossInv, PositionStepInv DEF SettlementStep
  <1>4. CASE UNCHANGED vars
    BY <1>4 DEF vars, Inv, TypeOK, LockMatchesPrincipal, ObligationsFunded, PositionCountExact
  <1> QED BY <1>1, <1>2, <1>3, <1>4 DEF SettlementNext, Next

\* The inductive invariant holds in every state of the vault under the
\* settlement model, whatever Scale, the supplies and the amounts are.
THEOREM VaultInvariant == SettlementSpec => []Inv
  BY InitInv, NextInv, PTL DEF SettlementSpec

\* The balances, the accounting and the lock are natural numbers: no
\* subtraction of deposit, withdraw, close or rescue underflows.
THEOREM VaultTypeCorrect == SettlementSpec => []TypeOK
  <1>1. Inv => TypeOK
    BY DEF Inv
  <1> QED BY <1>1, VaultInvariant, PTL

\* Capacity is exact: the locker accounts Scale Pass units per unit of
\* principal in every active state, and a closed vault owes nothing.
THEOREM CapacityExact == SettlementSpec => []LockMatchesPrincipal
  <1>1. Inv => LockMatchesPrincipal
    BY DEF Inv
  <1> QED BY <1>1, VaultInvariant, PTL

\* Custody is funded: all that the vault and the locker account for is held.
THEOREM CustodyFunded == SettlementSpec => []ObligationsFunded
  <1>1. Inv => ObligationsFunded
    BY DEF Inv
  <1> QED BY <1>1, VaultInvariant, PTL

\* The counter that gates close and principal withdrawals counts exactly the
\* nonzero positions.
THEOREM PositionCountIsExact == SettlementSpec => []PositionCountExact
  <1>1. Inv => PositionCountExact
    BY DEF Inv
  <1> QED BY <1>1, VaultInvariant, PTL

-----------------------------------------------------------------------------
(* What a step may do *)

\* Only a deposit, a withdrawal or the close touches the principal, the lock
\* or the closed flag.
LEMMA WhoTouchesCapacity ==
  ASSUME [SettlementNext]_vars
  PROVE  \/ \E amount \in Amounts : Deposit(amount) \/ Withdraw(amount)
         \/ Close
         \/ UNCHANGED <<principalBasis, lockedBalance, closed>>
  <1>1. CASE OwnerStep
    BY <1>1 DEF OwnerStep, RescueUntrackedToken, RescueNative, accounting
  <1>2. CASE MarketStep
    BY <1>2 DEF MarketStep, Trade, SendStray, accounting
  <1>3. CASE SettlementStep
    BY <1>3 DEF SettlementStep, RecordRealizedProfit, RecordRealizedLoss, OpenPosition, SettlePosition
  <1>4. CASE UNCHANGED vars
    BY <1>4 DEF vars
  <1> QED BY <1>1, <1>2, <1>3, <1>4 DEF SettlementNext, Next

\* Withdrawals consume realized profit before principal: a step that lowers
\* the principal of a vault it leaves open leaves no realized profit behind.
THEOREM ProfitIsConsumedFirst == SettlementSpec => ProfitLeavesFirst
  <1>1. Inv /\ [SettlementNext]_vars
          => [(principalBasis' < principalBasis /\ ~closed') => RealizedProfit' = 0]_vars
    <2> SUFFICES ASSUME Inv, [SettlementNext]_vars, principalBasis' < principalBasis, ~closed'
                 PROVE  RealizedProfit' = 0
      OBVIOUS
    <2>0. TypeOK /\ TypeOK'
      BY NextInv DEF Inv
    <2>1. PICK amount \in Amounts : Deposit(amount) \/ Withdraw(amount)
      <3>1. ~Close
        BY DEF Close, CloseAccepted
      <3>2. principalBasis' # principalBasis
        BY <2>0 DEF TypeOK
      <3> QED BY <3>1, <3>2, WhoTouchesCapacity
    <2>2. amount \in Nat
      BY NumericBounds
    <2>3. Withdraw(amount)
      BY <2>0, <2>1, <2>2 DEF Deposit, TypeOK
    <2>4. /\ amount <= trackedUsdcBalance
          /\ principalBasis' = principalBasis - PrincipalPart(amount)
          /\ trackedUsdcBalance' = trackedUsdcBalance - amount
      BY <2>3 DEF Withdraw, WithdrawAccepted
    <2>5. PrincipalPart(amount) # 0
      BY <2>0, <2>4 DEF TypeOK
    <2>6. trackedUsdcBalance' <= principalBasis'
      BY <2>0, <2>2, <2>4, <2>5, WithdrawalSplit
    <2>7. trackedUsdcBalance' \in Nat /\ principalBasis' \in Nat
      BY <2>0 DEF TypeOK
    <2>8. ~(trackedUsdcBalance' > principalBasis')
      BY <2>6, <2>7
    <2> QED BY <2>8 DEF RealizedProfit
  <1> QED BY <1>1, VaultInvariant, PTL DEF SettlementSpec, ProfitLeavesFirst

\* While a position is open neither the principal nor the Pass behind it can
\* leave, and the vault cannot be closed.
THEOREM PositionsFreezeCapacity == SettlementSpec => OpenPositionsFreezeCapacity
  <1>1. Inv /\ [SettlementNext]_vars
          => [openTrackedPositionCount # 0 =>
                /\ principalBasis' >= principalBasis
                /\ lockedBalance' >= lockedBalance
                /\ ~closed']_vars
    <2> SUFFICES ASSUME Inv, [SettlementNext]_vars, openTrackedPositionCount # 0
                 PROVE  principalBasis' >= principalBasis /\ lockedBalance' >= lockedBalance /\ ~closed'
      OBVIOUS
    <2>0. TypeOK
      BY DEF Inv
    <2>1. ~Close
      BY DEF Close, CloseAccepted
    <2>2. ~closed
      <3>1. SUFFICES ASSUME closed PROVE FALSE
        OBVIOUS
      <3>2. {asset \in PositionAssets : trackedPosition[asset] # 0} = {}
        BY <3>1 DEF Inv, LockMatchesPrincipal
      <3> QED BY <3>2, FS_EmptySet DEF Inv, PositionCountExact
    <2>3. CASE \E amount \in Amounts : Deposit(amount)
      <3>1. PICK amount \in Amounts : Deposit(amount)
        BY <2>3
      <3>2. amount \in Nat /\ UsdcToPassRaw(amount) \in Nat
        BY NumericBounds, PassRawNat
      <3> QED BY <2>0, <2>2, <3>1, <3>2 DEF Deposit, TypeOK
    <2>4. CASE \E amount \in Amounts : Withdraw(amount)
      <3>1. PICK amount \in Amounts : Withdraw(amount)
        BY <2>4
      <3>2. PrincipalPart(amount) = 0
        BY <3>1 DEF Withdraw, WithdrawAccepted, PrincipalFree
      <3>3. PassRawUnlocked(amount) = 0
        BY <3>2, PassRawZero DEF PassRawUnlocked
      <3> QED BY <2>0, <2>2, <3>1, <3>2, <3>3 DEF Withdraw, TypeOK
    <2>5. CASE UNCHANGED <<principalBasis, lockedBalance, closed>>
      BY <2>0, <2>2, <2>5 DEF TypeOK
    <2> QED BY <2>1, <2>3, <2>4, <2>5, WhoTouchesCapacity
  <1> QED BY <1>1, VaultInvariant, PTL DEF SettlementSpec, OpenPositionsFreezeCapacity

LEMMA PlainCustodyKept ==
  ASSUME Inv, PlainCustody, [Next]_vars
  PROVE  PlainCustody'
  <1>0. TypeOK
    BY DEF Inv
  <1>1. ASSUME NEW amount \in Amounts, Deposit(amount) PROVE PlainCustody'
    BY <1>1 DEF Deposit, TrackedAfterDeposit, PlainCustody
  <1>2. ASSUME NEW amount \in Amounts, Withdraw(amount) PROVE PlainCustody'
    <2>1. amount \in Nat /\ amount # 0
      BY <1>2, NumericBounds DEF Withdraw, WithdrawAccepted
    <2>2. PrincipalPart(amount) = amount
      BY <1>0, <2>1 DEF PlainCustody, PrincipalPart, ProfitPart, RealizedProfit, TypeOK
    <2> QED BY <1>2, <2>2 DEF Withdraw, PlainCustody
  <1>3. CASE Close
    BY <1>3 DEF Close, PlainCustody
  <1>4. CASE UNCHANGED accounting
    BY <1>4 DEF accounting, PlainCustody
  <1>5. \/ \E amount \in Amounts : Deposit(amount) \/ Withdraw(amount)
        \/ Close
        \/ UNCHANGED accounting
    BY DEF Next, OwnerStep, MarketStep, RescueUntrackedToken, RescueNative,
           Trade, SendStray, accounting, vars
  <1> QED BY <1>1, <1>2, <1>3, <1>4, <1>5

\* The production vault, which has no settlement call, never accounts for a
\* profit, a loss or a position: it holds the owner's principal and no more.
THEOREM ProductionAccountsNoMore == Spec => []PlainCustody
  <1>1. Init => Inv /\ PlainCustody
    BY InitInv DEF Init, PlainCustody
  <1>2. Inv /\ PlainCustody /\ [Next]_vars => Inv' /\ PlainCustody'
    BY NextInv, PlainCustodyKept DEF SettlementNext
  <1> QED BY <1>1, <1>2, PTL DEF Spec

\* The two deployed contracts run one code: whatever holds of the vault under
\* the settlement model holds of the production vault and of the harness.
THEOREM DeploymentsAreVaults == DeploymentSpec => SettlementSpec
  <1>1. DeploymentInit => Init
    BY DEF DeploymentInit
  <1>2. [DeploymentNext]_deploymentVars => [SettlementNext]_vars
    BY DEF DeploymentNext, SettlementNext, deploymentVars
  <1> QED BY <1>1, <1>2, PTL DEF DeploymentSpec, SettlementSpec

\* A deployment without the harness's calls is plain custody in every state.
THEOREM DeploymentsKeepCustody == DeploymentSpec => []ProductionIsPlainCustody
  <1>1. DeploymentInit => Inv /\ ProductionIsPlainCustody
    BY InitInv DEF DeploymentInit, Init, ProductionIsPlainCustody, PlainCustody
  <1>2. Inv /\ ProductionIsPlainCustody /\ [DeploymentNext]_deploymentVars
          => Inv' /\ ProductionIsPlainCustody'
    <2> SUFFICES ASSUME Inv, ProductionIsPlainCustody, [DeploymentNext]_deploymentVars
                 PROVE  Inv' /\ ProductionIsPlainCustody'
      OBVIOUS
    <2>1. [SettlementNext]_vars /\ harness' = harness
      BY DEF DeploymentNext, SettlementNext, deploymentVars
    <2>2. ~harness => [Next]_vars
      BY DEF DeploymentNext, deploymentVars
    <2> QED BY <2>1, <2>2, NextInv, PlainCustodyKept DEF ProductionIsPlainCustody
  <1> QED BY <1>1, <1>2, PTL DEF DeploymentSpec

\* Pass changes hands exactly against principal: what a deposit takes from
\* the owner, a withdrawal or the close (also after a loss) gives back.
THEOREM PassIsPaidForPrincipal == SettlementSpec => PassFollowsPrincipal
  <1>1. Inv /\ [SettlementNext]_vars
          => [principalBasis' # principalBasis =>
                balances'[Pass]["owner"] - balances[Pass]["owner"]
                = UsdcToPassRaw(principalBasis - principalBasis')]_vars
    <2> SUFFICES ASSUME Inv, [SettlementNext]_vars, principalBasis' # principalBasis
                 PROVE  balances'[Pass]["owner"] - balances[Pass]["owner"]
                        = UsdcToPassRaw(principalBasis - principalBasis')
      OBVIOUS
    <2>0. /\ TypeOK /\ principalBasis \in Nat /\ trackedUsdcBalance \in Nat /\ lockedBalance \in Nat
          /\ balances[Pass]["owner"] \in Nat
      BY TokenNames DEF Inv, TypeOK, Holders
    <2>1. ASSUME NEW amount \in Amounts, Deposit(amount)
          PROVE  balances'[Pass]["owner"] - balances[Pass]["owner"]
                 = UsdcToPassRaw(principalBasis - principalBasis')
      <3>1. amount \in Nat /\ UsdcToPassRaw(amount) \in Nat
        BY NumericBounds, PassRawNat
      <3>2. balances'[Pass]["owner"] = balances[Pass]["owner"] - UsdcToPassRaw(amount)
        <4>1. /\ Holds(Usdc, "owner", amount) /\ Holds(Pass, "owner", UsdcToPassRaw(amount))
              /\ balances' = Moved(Moved(balances, Usdc, "owner", "vault", amount),
                                   Pass, "owner", "locker", UsdcToPassRaw(amount))
          BY <2>1 DEF Deposit, Pulled
        <4> QED BY <2>0, <3>1, <4>1, UsdcAndPassMoved DEF Holders
      <3>3. principalBasis - principalBasis' = -amount
        BY <2>0, <2>1, <3>1 DEF Deposit
      <3>4. UsdcToPassRaw(-amount) = -UsdcToPassRaw(amount)
        <4>1. Scale \in Nat
          BY NumericBounds
        <4>2. (-amount) * Scale = -(amount * Scale)
          BY <3>1, <4>1
        <4> QED BY <4>2 DEF UsdcToPassRaw
      <3> QED BY <2>0, <3>1, <3>2, <3>3, <3>4
    <2>2. ASSUME NEW amount \in Amounts, Withdraw(amount)
          PROVE  balances'[Pass]["owner"] - balances[Pass]["owner"]
                 = UsdcToPassRaw(principalBasis - principalBasis')
      <3>1. amount \in Nat /\ PrincipalPart(amount) \in Nat
        BY <2>0, <2>2, NumericBounds, WithdrawalSplit DEF Withdraw, WithdrawAccepted
      <3>2. PassRawUnlocked(amount) \in Nat
        BY <3>1, PassRawNat DEF PassRawUnlocked
      <3>3. balances'[Pass]["owner"] = balances[Pass]["owner"] + PassRawUnlocked(amount)
        <4>1. /\ Holds(Usdc, "vault", amount) /\ Holds(Pass, "locker", PassRawUnlocked(amount))
              /\ balances' = Moved(Moved(balances, Usdc, "vault", "owner", amount),
                                   Pass, "locker", "owner", PassRawUnlocked(amount))
          BY <2>2 DEF Withdraw, WithdrawAccepted
        <4> QED BY <2>0, <3>1, <3>2, <4>1, UsdcAndPassMoved DEF Holders
      <3>4. principalBasis - principalBasis' = PrincipalPart(amount)
        BY <2>0, <2>2, <3>1 DEF Withdraw
      <3> QED BY <2>0, <3>2, <3>3, <3>4 DEF PassRawUnlocked
    <2>3. CASE Close
      <3>1. balances'[Pass]["owner"] = balances[Pass]["owner"] + lockedBalance
        <4>1. /\ Holds(Usdc, "vault", trackedUsdcBalance) /\ Holds(Pass, "locker", lockedBalance)
              /\ balances' = Moved(Moved(balances, Usdc, "vault", "owner", trackedUsdcBalance),
                                   Pass, "locker", "owner", lockedBalance)
          BY <2>3 DEF Close, CloseAccepted, UsdcReturned, PassRawReleased
        <4> QED BY <2>0, <4>1, UsdcAndPassMoved DEF Holders
      <3>2. lockedBalance = UsdcToPassRaw(principalBasis)
        BY <2>3 DEF Close, CloseAccepted, Inv, LockMatchesPrincipal
      <3>3. principalBasis - principalBasis' = principalBasis
        BY <2>0, <2>3 DEF Close
      <3> QED BY <2>0, <3>1, <3>2, <3>3
    <2> QED BY <2>1, <2>2, <2>3, WhoTouchesCapacity
  <1> QED BY <1>1, VaultInvariant, PTL DEF SettlementSpec, PassFollowsPrincipal

-----------------------------------------------------------------------------
(* What others sent stays *)

\* Where every balance stands after two transfers, of AF-USDC and of Pass.
LEMMA TwoMoved ==
  ASSUME TypeOK, NEW n \in Nat, NEW p \in Nat,
         NEW uFrom \in Holders, NEW uTo \in Holders, uFrom # uTo,
         NEW pFrom \in Holders, NEW pTo \in Holders, pFrom # pTo,
         Holds(Usdc, uFrom, n), Holds(Pass, pFrom, p),
         balances' = Moved(Moved(balances, Usdc, uFrom, uTo, n), Pass, pFrom, pTo, p)
  PROVE  \A t \in Tokens, h \in Holders :
            balances'[t][h] =
              IF t = Usdc /\ h = uFrom THEN balances[t][h] - n
              ELSE IF t = Usdc /\ h = uTo THEN balances[t][h] + n
              ELSE IF t = Pass /\ h = pFrom THEN balances[t][h] - p
              ELSE IF t = Pass /\ h = pTo THEN balances[t][h] + p
              ELSE balances[t][h]
  <1> DEFINE mid == Moved(balances, Usdc, uFrom, uTo, n)
  <1>1. balances \in Balances
    BY DEF TypeOK, Balances
  <1>2. /\ mid \in Balances
        /\ \A t \in Tokens, h \in Holders :
              mid[t][h] = IF t = Usdc /\ h = uFrom THEN balances[t][h] - n
                          ELSE IF t = Usdc /\ h = uTo THEN balances[t][h] + n
                          ELSE balances[t][h]
    BY <1>1, MovedIsTransfer, TokenNames DEF Holds
  <1> HIDE DEF mid
  <1>3. mid[Pass][pFrom] >= p
    BY <1>2, TokenNames DEF Holds
  <1>4. balances' = Moved(mid, Pass, pFrom, pTo, p)
    BY DEF mid
  <1>5. \A t \in Tokens, h \in Holders :
              balances'[t][h] = IF t = Pass /\ h = pFrom THEN mid[t][h] - p
                                ELSE IF t = Pass /\ h = pTo THEN mid[t][h] + p
                                ELSE mid[t][h]
    BY <1>2, <1>3, <1>4, MovedIsTransfer, TokenNames
  <1> QED BY <1>2, <1>5, TokenNames

\* What the vault and the locker hold and what they account for change by
\* the same amount, or the accounted part alone goes down.
NothingLeaks ==
    \A token \in Tokens, holder \in {"vault", "locker"} :
        Excess(token, holder)' >= Excess(token, holder)

LEMMA AmountsOf ==
  ASSUME TypeOK
  PROVE  /\ \A token \in Tokens, holder \in Holders : balances[token][holder] \in Nat
         /\ \A token \in Tokens : ReservedTrackedBalance(token) \in Nat
         /\ trackedUsdcBalance \in Nat /\ lockedBalance \in Nat /\ principalBasis \in Nat
  BY TokenNames DEF TypeOK, ReservedTrackedBalance

\* One transfer into or out of the vault, with what it accounts for.
LEMMA NoLeakByOne ==
  ASSUME Inv, NEW token \in Tokens \ {Pass}, NEW amount \in Nat,
         NEW from \in Holders, NEW to \in Holders,
         <<from, to>> \in {<<"market", "vault">>, <<"vault", "market">>},
         Holds(token, from, amount),
         balances' = Moved(balances, token, from, to, amount),
         ReservedTrackedBalance(token)' = IF to = "vault" THEN ReservedTrackedBalance(token) + amount
                                          ELSE ReservedTrackedBalance(token) - amount,
         \A t \in Tokens \ {token} : ReservedTrackedBalance(t)' = ReservedTrackedBalance(t)
  PROVE  NothingLeaks
  <1>1. /\ TypeOK /\ balances \in Balances
        /\ Pass \in Tokens
        /\ \A t \in Tokens : ReservedTrackedBalance(t) \in Nat /\ \A h \in Holders : balances[t][h] \in Nat
        /\ lockedBalance' = lockedBalance
    BY AmountsOf, TokenNames DEF Inv, TypeOK, Balances, ReservedTrackedBalance
  <1>2. \A t \in Tokens, h \in Holders :
          balances'[t][h] = IF t = token /\ h = from THEN balances[t][h] - amount
                            ELSE IF t = token /\ h = to THEN balances[t][h] + amount
                            ELSE balances[t][h]
    BY <1>1, MovedIsTransfer DEF Holds
  <1>3. ASSUME NEW t \in Tokens, NEW holder \in {"vault", "locker"}
        PROVE  Excess(t, holder)' >= Excess(t, holder)
    <2> USE <1>1, <1>2
    <2> DEFINE r == ReservedTrackedBalance(t)
    <2>1. /\ r \in Nat /\ r' \in Int /\ lockedBalance \in Nat
          /\ balances[t][holder] \in Nat /\ balances'[t][holder] \in Int
          /\ t # token => r' = r
          /\ t = token => r' = IF to = "vault" THEN r + amount ELSE r - amount
      BY AmountsOf DEF Holders
    <2>2. balances'[t][holder] - balances[t][holder]
            = IF t = token /\ holder = "vault"
              THEN IF to = "vault" THEN amount ELSE -amount
              ELSE 0
      BY <2>1 DEF Holders
    <2> HIDE <1>1, <1>2
    <2>3. CASE holder = "vault" /\ t # Pass
      BY <1>1, <2>1, <2>2, <2>3 DEF Excess
    <2>4. CASE holder = "locker" /\ t = Pass
      BY <1>1, <2>1, <2>2, <2>4 DEF Excess
    <2>5. CASE ~(holder = "vault" /\ t # Pass) /\ ~(holder = "locker" /\ t = Pass)
      BY <1>1, <2>1, <2>2, <2>5 DEF Excess
    <2> QED BY <2>3, <2>4, <2>5
  <1> QED BY <1>3 DEF NothingLeaks

LEMMA OwnerLeaksNothing ==
  ASSUME Inv, ~closed, OwnerStep
  PROVE  NothingLeaks
  <1>0. /\ TypeOK /\ Usdc \in Tokens /\ Pass \in Tokens /\ Usdc # Pass
        /\ \A t \in Tokens : ReservedTrackedBalance(t) \in Nat /\ \A h \in Holders : balances[t][h] \in Nat
        /\ trackedUsdcBalance \in Nat /\ lockedBalance \in Nat
    BY AmountsOf, TokenNames DEF Inv
  <1>1. ASSUME NEW amount \in Amounts, Deposit(amount)
        PROVE  NothingLeaks
    <2> DEFINE raw == UsdcToPassRaw(amount)
    <2>1. amount \in Nat /\ raw \in Nat
      BY NumericBounds, PassRawNat
    <2>2. /\ Holds(Usdc, "owner", amount) /\ Holds(Pass, "owner", raw)
          /\ balances' = Moved(Moved(balances, Usdc, "owner", "vault", amount), Pass, "owner", "locker", raw)
          /\ trackedUsdcBalance' = trackedUsdcBalance + amount /\ lockedBalance' = lockedBalance + raw
          /\ trackedPosition' = trackedPosition
      BY <1>1 DEF Deposit, Pulled, TrackedAfterDeposit
    <2> HIDE DEF raw
    <2>3. \A t \in Tokens, h \in {"vault", "locker"} :
            balances'[t][h] = IF t = Usdc /\ h = "vault" THEN balances[t][h] + amount
                              ELSE IF t = Pass /\ h = "locker" THEN balances[t][h] + raw
                              ELSE balances[t][h]
      BY <1>0, <2>1, <2>2, TwoMoved DEF Holders
    <2> QED BY <1>0, <2>1, <2>2, <2>3 DEF NothingLeaks, Excess, ReservedTrackedBalance, Holders
  <1>2. ASSUME NEW amount \in Amounts, Withdraw(amount)
        PROVE  NothingLeaks
    <2> DEFINE raw == PassRawUnlocked(amount)
    <2>1. amount \in Nat /\ raw \in Nat
      BY <1>0, <1>2, NumericBounds, WithdrawalSplit, PassRawNat DEF Withdraw, WithdrawAccepted, PassRawUnlocked
    <2>2. /\ Holds(Usdc, "vault", amount) /\ Holds(Pass, "locker", raw)
          /\ balances' = Moved(Moved(balances, Usdc, "vault", "owner", amount), Pass, "locker", "owner", raw)
          /\ trackedUsdcBalance' = trackedUsdcBalance - amount /\ lockedBalance' = lockedBalance - raw
          /\ trackedPosition' = trackedPosition
      BY <1>2 DEF Withdraw, WithdrawAccepted
    <2> HIDE DEF raw
    <2>3. \A t \in Tokens, h \in {"vault", "locker"} :
            balances'[t][h] = IF t = Usdc /\ h = "vault" THEN balances[t][h] - amount
                              ELSE IF t = Pass /\ h = "locker" THEN balances[t][h] - raw
                              ELSE balances[t][h]
      BY <1>0, <2>1, <2>2, TwoMoved DEF Holders
    <2> QED BY <1>0, <2>1, <2>2, <2>3 DEF NothingLeaks, Excess, ReservedTrackedBalance, Holders
  <1>3. CASE Close
    <2>1. /\ Holds(Usdc, "vault", trackedUsdcBalance) /\ Holds(Pass, "locker", lockedBalance)
          /\ balances' = Moved(Moved(balances, Usdc, "vault", "owner", trackedUsdcBalance),
                               Pass, "locker", "owner", lockedBalance)
          /\ trackedUsdcBalance' = 0 /\ lockedBalance' = 0
          /\ trackedPosition' = [asset \in PositionAssets |-> 0]
      BY <1>0, <1>3 DEF Close, CloseAccepted, UsdcReturned, PassRawReleased
    <2>2. \A t \in Tokens, h \in {"vault", "locker"} :
            balances'[t][h] = IF t = Usdc /\ h = "vault" THEN balances[t][h] - trackedUsdcBalance
                              ELSE IF t = Pass /\ h = "locker" THEN balances[t][h] - lockedBalance
                              ELSE balances[t][h]
      BY <1>0, <2>1, TwoMoved DEF Holders
    <2> QED BY <1>0, <2>1, <2>2 DEF NothingLeaks, Excess, ReservedTrackedBalance, Holders
  <1> QED BY <1>1, <1>2, <1>3 DEF OwnerStep, RescueUntrackedToken, RescueNative, RescueAllowed

LEMMA TransfersLeakNothing ==
  ASSUME Inv, MarketStep
  PROVE  NothingLeaks
  <1>1. PICK token \in Tokens, from \in Holders, to \in Holders, amount \in Amounts :
           Trade(token, from, to, amount) \/ SendStray(token, from, to, amount)
    BY DEF MarketStep
  <1>2. /\ from # to /\ from \in {"owner", "market"} /\ Holds(token, from, amount)
        /\ balances' = Moved(balances, token, from, to, amount) /\ UNCHANGED accounting
        /\ amount \in Nat
    BY <1>1, NumericBounds DEF Trade, SendStray
  <1>3. \A t \in Tokens, h \in Holders :
          balances'[t][h] = IF t = token /\ h = from THEN balances[t][h] - amount
                            ELSE IF t = token /\ h = to THEN balances[t][h] + amount
                            ELSE balances[t][h]
    BY <1>2, MovedIsTransfer DEF Inv, TypeOK, Balances, Holds
  <1>4. \A t \in Tokens : /\ ReservedTrackedBalance(t) \in Nat
                          /\ ReservedTrackedBalance(t)' = ReservedTrackedBalance(t)
                          /\ \A h \in Holders : balances[t][h] \in Nat
    BY <1>2, AmountsOf DEF Inv, accounting, ReservedTrackedBalance
  <1>5. lockedBalance' = lockedBalance /\ lockedBalance \in Nat /\ Pass \in Tokens
    BY <1>2, TokenNames DEF Inv, TypeOK, accounting
  <1> QED BY <1>2, <1>3, <1>4, <1>5 DEF NothingLeaks, Excess, Holders

LEMMA SettlementLeaksNothing ==
  ASSUME Inv, SettlementStep
  PROVE  NothingLeaks
  <1>0. TypeOK /\ "market" \in Holders /\ "vault" \in Holders
    BY DEF Inv, Holders
  <1>1. ASSUME NEW amount \in Amounts, RecordRealizedProfit(amount) \/ RecordRealizedLoss(amount)
        PROVE  NothingLeaks
    BY <1>0, <1>1, NoLeakByOne, NumericBounds, TokenNames
    DEF RecordRealizedProfit, RecordRealizedLoss, ReservedTrackedBalance
  <1>2. ASSUME NEW asset \in PositionAssets, NEW amount \in Amounts,
               OpenPosition(asset, amount) \/ SettlePosition(asset, amount)
        PROVE  NothingLeaks
    BY <1>0, <1>2, NoLeakByOne, NumericBounds, TokenNames
    DEF OpenPosition, SettlePosition, SetTrackedPosition, ReservedTrackedBalance, TypeOK
  <1> QED BY <1>1, <1>2 DEF SettlementStep

\* Until it is closed nothing that others sent to the vault or the locker
\* leaves, with or without the harness's settlement calls.
THEOREM DustStays == SettlementSpec => DustUntouched
  <1>1. Inv /\ [SettlementNext]_vars => [~closed => NothingLeaks]_vars
    BY OwnerLeaksNothing, TransfersLeakNothing, SettlementLeaksNothing DEF SettlementNext, Next
  <1> QED BY <1>1, VaultInvariant, PTL DEF SettlementSpec, DustUntouched, NothingLeaks

-----------------------------------------------------------------------------
(* What the views promise *)

\* No token is created or destroyed, so no holder has more than the supply.
TokensConserved ==
    \A token \in Tokens :
        balances[token]["owner"] + balances[token]["vault"]
        + balances[token]["locker"] + balances[token]["market"] = Supply[token]

Ledgers == [Tokens -> [Holders -> Int]]
Total(b, token) == b[token]["owner"] + b[token]["vault"] + b[token]["locker"] + b[token]["market"]

LEMMA MovedConserves ==
  ASSUME NEW b \in Ledgers, NEW token \in Tokens, NEW n \in Int,
         NEW from \in Holders, NEW to \in Holders, from # to
  PROVE  /\ Moved(b, token, from, to, n) \in Ledgers
         /\ \A t \in Tokens : Total(Moved(b, token, from, to, n), t) = Total(b, t)
  <1> DEFINE row == [b[token] EXCEPT ![from] = @ - n, ![to] = @ + n]
  <1>1. b[token] \in [Holders -> Int]
    BY DEF Ledgers
  <1>2. /\ row \in [Holders -> Int]
        /\ \A h \in Holders : row[h] = IF h = from THEN b[token][h] - n
                                       ELSE IF h = to THEN b[token][h] + n
                                       ELSE b[token][h]
    BY <1>1
  <1>3. Moved(b, token, from, to, n) = [b EXCEPT ![token] = row]
    BY <1>1 DEF Moved, Ledgers
  <1> HIDE DEF row
  <1>4. row["owner"] + row["vault"] + row["locker"] + row["market"] = Total(b, token)
    BY <1>1, <1>2 DEF Holders, Total
  <1> QED BY <1>2, <1>3, <1>4 DEF Ledgers, Total

\* Every call moves tokens: one transfer, or two.
LEMMA StepConserves ==
  ASSUME Inv, [SettlementNext]_vars
  PROVE  \A token \in Tokens : Total(balances', token) = Total(balances, token)
  <1> DEFINE Kept == \A token \in Tokens : Total(balances', token) = Total(balances, token)
  <1> SUFFICES Kept
    OBVIOUS
  <1>0. /\ TypeOK /\ balances \in Ledgers
        /\ \A token \in Tokens, holder \in Holders : balances[token][holder] \in Nat
        /\ \A token \in Tokens : UntrackedExcess(token) \in Int
        /\ trackedUsdcBalance \in Nat /\ lockedBalance \in Nat
    <2>1. TypeOK /\ balances \in Ledgers
      BY DEF Inv, TypeOK, Ledgers
    <2>2. \A token \in Tokens, holder \in Holders : balances[token][holder] \in Nat
      BY <2>1 DEF TypeOK
    <2>3. \A token \in Tokens : UntrackedExcess(token) \in Int
      BY <2>1, <2>2, AmountsOf, TokenNames DEF UntrackedExcess, Above, Holders
    <2> QED BY <2>1, <2>2, <2>3 DEF TypeOK
  <1>1. ASSUME NEW token \in Tokens, NEW n \in Int, NEW from \in Holders, NEW to \in Holders,
               from # to, balances' = Moved(balances, token, from, to, n)
        PROVE  Kept
    BY <1>0, <1>1, MovedConserves
  <1>2. ASSUME NEW s \in Tokens, NEW n \in Int, NEW sFrom \in Holders, NEW sTo \in Holders,
               NEW t \in Tokens, NEW m \in Int, NEW tFrom \in Holders, NEW tTo \in Holders,
               sFrom # sTo, tFrom # tTo,
               balances' = Moved(Moved(balances, s, sFrom, sTo, n), t, tFrom, tTo, m)
        PROVE  Kept
    <2> DEFINE mid == Moved(balances, s, sFrom, sTo, n)
    <2>1. mid \in Ledgers /\ \A token \in Tokens : Total(mid, token) = Total(balances, token)
      BY <1>0, <1>2, MovedConserves
    <2>2. balances' = Moved(mid, t, tFrom, tTo, m)
      BY <1>2
    <2> HIDE DEF mid
    <2> QED BY <1>2, <2>1, <2>2, MovedConserves
  <1> HIDE DEF Kept
  <1> USE TokenNames
  <1>3. ASSUME NEW amount \in Amounts, Deposit(amount) \/ Withdraw(amount)
        PROVE  Kept
    <2>1. amount \in Nat
      BY NumericBounds
    <2>2. CASE Deposit(amount)
      BY <1>2, <2>1, <2>2, PassRawNat DEF Deposit, Pulled, Holders
    <2>3. CASE Withdraw(amount)
      <3>1. PassRawUnlocked(amount) \in Nat
        BY <1>0, <2>1, <2>3, WithdrawalSplit, PassRawNat DEF Withdraw, WithdrawAccepted, PassRawUnlocked
      <3> QED BY <1>2, <2>1, <2>3, <3>1 DEF Withdraw, Holders
    <2> QED BY <1>3, <2>2, <2>3
  <1>4. CASE Close
    <2>1. /\ trackedUsdcBalance \in Int /\ lockedBalance \in Int
          /\ balances' = Moved(Moved(balances, Usdc, "vault", "owner", trackedUsdcBalance),
                               Pass, "locker", "owner", lockedBalance)
      BY <1>0, <1>4 DEF Close, UsdcReturned, PassRawReleased
    <2>2. /\ "vault" \in Holders /\ "owner" \in Holders /\ "locker" \in Holders
          /\ "vault" # "owner" /\ "locker" # "owner"
      BY DEF Holders
    <2> QED BY <1>2, <2>1, <2>2
  <1>5. ASSUME NEW token \in Tokens \ {Native}, RescueUntrackedToken(token)
        PROVE  Kept
    <2>1. CASE balances' = Moved(balances, token, "vault", "owner", UntrackedExcess(token))
      BY <1>0, <1>1, <2>1 DEF Holders
    <2>2. CASE balances' = Moved(Moved(balances,
                              Pass, "locker", "owner", balances[Pass]["locker"] - lockedBalance),
                              Pass, "vault", "owner",
                              UntrackedExcess(Pass) - (balances[Pass]["locker"] - lockedBalance))
      <3>1. /\ balances[Pass]["locker"] - lockedBalance \in Int
            /\ UntrackedExcess(Pass) - (balances[Pass]["locker"] - lockedBalance) \in Int
        BY <1>0 DEF Holders
      <3> QED BY <1>2, <2>2, <3>1 DEF Holders
    <2> QED BY <1>5, <2>1, <2>2 DEF RescueUntrackedToken
  <1>6. CASE RescueNative
    <2>1. /\ balances[Native]["vault"] \in Int
          /\ balances' = Moved(balances, Native, "vault", "owner", balances[Native]["vault"])
      BY <1>0, <1>6 DEF RescueNative, Holders
    <2>2. "vault" \in Holders /\ "owner" \in Holders /\ "vault" # "owner"
      BY DEF Holders
    <2> QED BY <1>1, <2>1, <2>2
  <1>7. CASE MarketStep
    <2>1. PICK token \in Tokens, from \in Holders, to \in Holders, amount \in Amounts :
             Trade(token, from, to, amount) \/ SendStray(token, from, to, amount)
      BY <1>7 DEF MarketStep
    <2>2. from # to /\ balances' = Moved(balances, token, from, to, amount) /\ amount \in Int
      BY <2>1, NumericBounds DEF Trade, SendStray
    <2> QED BY <1>1, <2>1, <2>2
  <1>8. CASE SettlementStep
    <2>1. PICK token \in Tokens, amount \in Amounts :
             \/ balances' = Moved(balances, token, "market", "vault", amount)
             \/ balances' = Moved(balances, token, "vault", "market", amount)
      BY <1>8 DEF SettlementStep, RecordRealizedProfit, RecordRealizedLoss, OpenPosition, SettlePosition
    <2>2. amount \in Int
      BY NumericBounds
    <2>3. "vault" \in Holders /\ "market" \in Holders /\ "vault" # "market"
      BY DEF Holders
    <2> QED BY <1>1, <2>1, <2>2, <2>3
  <1>9. CASE UNCHANGED vars
    BY <1>9 DEF vars, Kept, Total
  <1> QED BY <1>3, <1>4, <1>5, <1>6, <1>7, <1>8, <1>9 DEF Kept, SettlementNext, Next, OwnerStep

LEMMA SupplyInvariant == SettlementSpec => [](Inv /\ TokensConserved)
  <1>1. Init => TokensConserved
    BY NumericBounds DEF Init, TokensConserved, Holders
  <1>2. Inv /\ TokensConserved /\ [SettlementNext]_vars => Inv' /\ TokensConserved'
    BY StepConserves, NextInv DEF TokensConserved, Total
  <1> QED BY <1>1, <1>2, InitInv, PTL DEF SettlementSpec

\* What is locked fits a word, so the principal is convertible to Pass.
LEMMA AtMostTheQuotient ==
  ASSUME NEW x \in Nat, NEW s \in Nat \ {0}, NEW m \in Nat, x * s <= m
  PROVE  x <= m \div s
  <1> DEFINE q == m \div s
  <1>1. q \in Nat /\ m < (q + 1) * s
    OBVIOUS
  <1> HIDE DEF q
  <1>2. SUFFICES ASSUME q + 1 <= x PROVE FALSE
    BY <1>1 DEF q
  <1>3. (q + 1) * s <= x * s
    BY <1>1, <1>2
  <1> QED BY <1>1, <1>3

LEMMA PrincipalIsConvertible ==
  ASSUME Inv, TokensConserved
  PROVE  ConvertibleToPass(principalBasis)
  <1>1. /\ TypeOK /\ principalBasis \in Nat /\ lockedBalance \in Nat
        /\ balances[Pass]["owner"] \in Nat /\ balances[Pass]["vault"] \in Nat
        /\ balances[Pass]["locker"] \in Nat /\ balances[Pass]["market"] \in Nat
    BY TokenNames DEF Inv, TypeOK, Holders
  <1>2. Supply[Pass] \in Nat /\ Supply[Pass] <= MaxUint /\ MaxUint \in Nat /\ Scale \in Nat \ {0}
    BY NumericBounds, TokenNames
  <1>3. lockedBalance <= Supply[Pass]
    BY <1>1, <1>2, TokenNames DEF Inv, ObligationsFunded, TokensConserved
  <1>4. CASE closed
    <2>1. principalBasis = 0
      BY <1>4 DEF Inv, LockMatchesPrincipal
    <2> QED BY <1>2, <2>1, AtMostTheQuotient DEF ConvertibleToPass
  <1>5. CASE ~closed
    <2>1. principalBasis * Scale <= MaxUint
      BY <1>1, <1>2, <1>3, <1>5 DEF Inv, LockMatchesPrincipal, UsdcToPassRaw
    <2> QED BY <1>1, <1>2, <2>1, AtMostTheQuotient DEF ConvertibleToPass
  <1> QED BY <1>4, <1>5

LEMMA AcceptedWhenWithdrawable ==
  ASSUME Inv, TokensConserved, NEW amount \in Nat \ {0}
  PROVE  (amount <= WithdrawableUsdc) <=> WithdrawAccepted(amount)
  <1>1. /\ TypeOK /\ principalBasis \in Nat /\ lockedBalance \in Nat /\ trackedUsdcBalance \in Nat
        /\ balances[Usdc]["vault"] \in Nat /\ balances[Pass]["locker"] \in Nat
    BY TokenNames DEF Inv, TypeOK, Holders
  <1>2. ASSUME amount <= WithdrawableUsdc
        PROVE  WithdrawAccepted(amount)
    <2>1. ~closed /\ amount <= trackedUsdcBalance
      BY <1>1, <1>2 DEF WithdrawableUsdc, RealizedProfit
    <2>2. PrincipalFree(amount)
      BY <1>1, <1>2, <2>1 DEF WithdrawableUsdc, PrincipalFree, PrincipalPart, ProfitPart, RealizedProfit
    <2>3. /\ PrincipalPart(amount) \in Nat
          /\ PrincipalPart(amount) <= principalBasis
      BY <1>1, <2>1, WithdrawalSplit
    <2>4. ConvertibleToPass(PrincipalPart(amount))
      <3>1. MaxUint \div Scale \in Int
        BY NumericBounds
      <3> QED BY <1>1, <2>3, <3>1, PrincipalIsConvertible DEF ConvertibleToPass
    <2>5. Holds(Usdc, "vault", amount)
      BY <1>1, <2>1 DEF Inv, ObligationsFunded, Holds
    <2>6. /\ PassRawUnlocked(amount) \in Nat
          /\ PassRawUnlocked(amount) <= lockedBalance
      BY <1>1, <2>1, <2>3, PassRawSub, PassRawNat DEF Inv, LockMatchesPrincipal, PassRawUnlocked
    <2>7. Holds(Pass, "locker", PassRawUnlocked(amount))
      BY <1>1, <2>6 DEF Inv, ObligationsFunded, Holds
    <2> QED BY <2>1, <2>2, <2>3, <2>4, <2>5, <2>6, <2>7 DEF WithdrawAccepted
  <1>3. ASSUME WithdrawAccepted(amount)
        PROVE  amount <= WithdrawableUsdc
    BY <1>1, <1>3 DEF WithdrawAccepted, WithdrawableUsdc, PrincipalFree,
                      PrincipalPart, ProfitPart, RealizedProfit
  <1> QED BY <1>2, <1>3

\* withdrawableUsdc is exact: a withdrawal is accepted if and only if it asks
\* for no more, whatever was deposited, lost, settled or sent before.
THEOREM WithdrawableIsExact == SettlementSpec => []WithdrawableIsHonest
  <1>1. Inv /\ TokensConserved => WithdrawableIsHonest
    BY AcceptedWhenWithdrawable, NumericBounds DEF WithdrawableIsHonest
  <1> QED BY <1>1, SupplyInvariant, PTL

\* Close is never refused while no position is open.
THEOREM OwnerCanLeave == SettlementSpec => []ExitNeverBlocked
  <1>1. Inv => ExitNeverBlocked
    BY DEF Inv, ObligationsFunded, ExitNeverBlocked, CloseAccepted, UsdcReturned,
           PassRawReleased, Holds, TypeOK, Holders
  <1> QED BY <1>1, VaultInvariant, PTL
=============================================================================
