------------------------ MODULE VaultAccountsProofs ------------------------
(***************************************************************************)
(* Proofs about the accounts of the local ledger, for every allowance and   *)
(* range, any set of orders and any settlement policy the domain accepts.   *)
(***************************************************************************)
EXTENDS VaultAccounts, TLAPS, FiniteSetTheorems

\* Fees are covered only because no command leaves less cash than is owed,
\* and amounts stay natural numbers only because fees are covered: the two
\* are inductive together.  So are the status and what it stands for.
Inv == AccountsTypeOK /\ FeesFunded /\ StatusMatchesExposure

-----------------------------------------------------------------------------
(* Amounts *)

\* The amounts of a command leave every account a natural number.
Natural ==
    /\ idle \in Nat /\ activeCash \in Nat /\ positionCost \in Nat /\ positionValue \in Nat
    /\ feeLiability \in Nat /\ deposits \in Nat /\ withdrawalsPaid \in Nat
    /\ feesAccrued \in Nat /\ feesPaid \in Nat
    /\ realizedPnl \in Int
    /\ orders \in [OrderIds -> Nat]
    /\ pendingWithdrawals \in [CommandIds -> Nat]

LEMMA TypeIsNatural ==
  AccountsTypeOK <=> Natural /\ status \in {"stopped", "running", "stopping"}
  BY DEF AccountsTypeOK, Natural

\* What a command may do to the amounts: it leaves them natural numbers, and
\* the fees covered and accounted for.
Sound == Natural /\ FeesFunded

LEMMA InitSound == AccountsInit => Sound
  BY DEF AccountsInit, Sound, Natural, FeesFunded

LEMMA SettlementIsNatural ==
  ASSUME NEW proceeds \in Amounts, SettleUnderAPolicy(proceeds)
  PROVE  \E fee, excess \in Nat : SettlePosition(proceeds, fee, excess)
  BY DEF SettleUnderAPolicy

\* One step per command: each takes from an account no more than its guard
\* has compared with it, and from cash no more than fees leave of it.
LEMMA CommandSound == ASSUME Sound, AnyPolicyCommand PROVE Sound'
  <1> USE DEF Sound, Natural, FeesFunded, fees, position
  <1> Amounts \subseteq Nat
    BY AmountsAreNatural
  <1>1. ASSUME NEW amount \in Amounts, Deposit(amount) PROVE Sound'
    BY <1>1 DEF Deposit
  <1>2. ASSUME NEW amount \in Amounts, Allocate(amount) PROVE Sound'
    BY <1>2 DEF Allocate, CanAllocate
  <1>3. ASSUME NEW amount \in Amounts, Deallocate(amount) PROVE Sound'
    BY <1>3 DEF Deallocate, CanDeallocate, Available
  <1>4. ASSUME NEW amount \in Amounts, PayFees(amount) PROVE Sound'
    BY <1>4 DEF PayFees, CanPayFees
  <1>5. ASSUME NEW amount \in Amounts, NEW id \in CommandIds, RequestWithdrawal(id, amount)
        PROVE  Sound'
    BY <1>5 DEF RequestWithdrawal, CanRequestWithdrawal
  <1>6. ASSUME NEW amount \in Amounts, NEW o \in OrderIds, ReserveBuy(o, amount) PROVE Sound'
    BY <1>6 DEF ReserveBuy, CanReserve, Available
  <1>7. ASSUME NEW id \in CommandIds, CancelWithdrawal(id) PROVE Sound'
    BY <1>7 DEF CancelWithdrawal, WithoutWithdrawal
  <1>8. ASSUME NEW id \in CommandIds, ConfirmWithdrawal(id) PROVE Sound'
    BY <1>8 DEF ConfirmWithdrawal, WithoutWithdrawal
  <1>9. ASSUME NEW o \in OrderIds, CancelOrder(o) PROVE Sound'
    BY <1>9 DEF CancelOrder, WithoutOrder
  <1>10. ASSUME NEW o \in OrderIds, FillBuy(o) PROVE Sound'
    BY <1>10 DEF FillBuy, WithoutOrder
  <1>11. ASSUME NEW value \in Amounts, MarkPosition(value) PROVE Sound'
    BY <1>11 DEF MarkPosition
  <1>12. CASE Start \/ Stop
    BY <1>12 DEF Start, Stop
  <1>13. ASSUME NEW proceeds \in Amounts, NEW fee \in Nat, NEW excess \in Nat,
                SettlePosition(proceeds, fee, excess)
         PROVE  Sound'
    BY <1>13 DEF SettlePosition
  <1> HIDE DEF Sound, Natural, FeesFunded, fees, position
  <1> QED
    BY <1>1, <1>2, <1>3, <1>4, <1>5, <1>6, <1>7, <1>8, <1>9, <1>10, <1>11, <1>12, <1>13,
       SettlementIsNatural
    DEF AnyPolicyCommand, Command

-----------------------------------------------------------------------------
(* The status *)

\* Nothing at stake, in the sense the status is about.
Flat == positionCost = 0 /\ NoOrders(orders)

\* The end of a command makes the status match, whatever the command asked
\* for, as long as it asks for "stopped" only when nothing is at stake.
LEMMA LeavesMatching ==
  ASSUME NEW asked \in {"stopped", "running", "stopping"}, Natural',
         Leaves(asked),
         asked = "stopped" => Flat',
         positionCost' = 0 => positionValue' = 0
  PROVE  /\ StatusMatchesExposure'
         /\ status' \in {"stopped", "running", "stopping"}
  BY DEF Natural, Leaves, OnceExited, Flat, NoOrders, StatusMatchesExposure

\* A stopped vault has nothing to reserve from, to fill or to cancel.
LEMMA CommandMatches ==
  ASSUME Inv, Sound', [AnyPolicyCommand]_accounts
  PROVE  StatusMatchesExposure' /\ status' \in {"stopped", "running", "stopping"}
  <1> /\ Natural
      /\ status \in {"stopped", "running", "stopping"}
      /\ status = "stopped" => Flat
      /\ positionCost = 0 => positionValue = 0
    BY TypeIsNatural DEF Inv, StatusMatchesExposure, Flat
  <1> Natural'
    BY DEF Sound
  <1>1. CASE Leaves(status) /\ UNCHANGED <<position, orders>>
    BY <1>1, LeavesMatching DEF position, Flat, NoOrders
  <1>2. ASSUME NEW o \in OrderIds, NEW amount \in Amounts,
               ReserveBuy(o, amount)
        PROVE  StatusMatchesExposure' /\ status' \in {"stopped", "running", "stopping"}
    BY <1>2, LeavesMatching DEF ReserveBuy, CanReserve, position
  <1>3. ASSUME NEW o \in OrderIds, CancelOrder(o) \/ FillBuy(o)
        PROVE  StatusMatchesExposure' /\ status' \in {"stopped", "running", "stopping"}
    <2>1. status # "stopped"
      BY <1>3 DEF CancelOrder, FillBuy, HasOrder, Flat, NoOrders
    <2>2. Leaves(status)
      BY <1>3 DEF CancelOrder, FillBuy
    <2>3. positionCost' = 0 => positionValue' = 0
      BY <1>3 DEF CancelOrder, FillBuy, HasOrder, position, Natural
    <2> QED BY <2>1, <2>2, <2>3, LeavesMatching
  <1>4. ASSUME NEW amount \in Amounts, MarkPosition(amount)
        PROVE  StatusMatchesExposure' /\ status' \in {"stopped", "running", "stopping"}
    <2>1. status # "stopped" /\ positionCost' # 0
      BY <1>4 DEF MarkPosition, HasPosition, Flat, Natural
    <2> QED BY <1>4, <2>1, LeavesMatching DEF MarkPosition
  <1>5. ASSUME NEW proceeds \in Amounts, NEW fee \in Nat, NEW excess \in Nat,
               SettlePosition(proceeds, fee, excess)
        PROVE  StatusMatchesExposure' /\ status' \in {"stopped", "running", "stopping"}
    <2>1. Flat' /\ positionValue' = 0
      BY <1>5 DEF SettlePosition, CanSettle, Flat, NoOrders
    <2> QED BY <1>5, <2>1, LeavesMatching DEF SettlePosition
  <1>6. CASE Start
    <2>1. Leaves("running") /\ positionCost' = positionCost /\ positionValue' = positionValue
      BY <1>6 DEF Start, position
    <2> QED BY <2>1, LeavesMatching
  <1>7. CASE Stop
    <2> DEFINE asked == IF positionCost > 0 \/ ~NoOrders(orders) THEN "stopping" ELSE "stopped"
    <2>1. Leaves(asked) /\ UNCHANGED <<position, orders>>
      BY <1>7 DEF Stop
    <2>2. asked = "stopped" => Flat'
      BY <2>1 DEF Flat, NoOrders, position, Natural
    <2>3. asked \in {"stopped", "running", "stopping"}
      OBVIOUS
    <2>4. positionCost' = 0 => positionValue' = 0
      BY <2>1 DEF position
    <2> HIDE DEF asked
    <2> QED BY <2>1, <2>2, <2>3, <2>4, LeavesMatching
  <1>8. CASE UNCHANGED accounts
    BY <1>8 DEF accounts, Inv, StatusMatchesExposure, NoOrders
  <1>9. ASSUME NEW amount \in Amounts, NEW id \in CommandIds,
               RequestWithdrawal(id, amount)
        PROVE  Leaves(status) /\ UNCHANGED <<position, orders>>
    BY <1>9 DEF RequestWithdrawal
  <1>10. ASSUME NEW amount \in Amounts,
                Deposit(amount) \/ Allocate(amount) \/ Deallocate(amount) \/ PayFees(amount)
         PROVE  Leaves(status) /\ UNCHANGED <<position, orders>>
    BY <1>10 DEF Deposit, Allocate, Deallocate, PayFees
  <1>11. ASSUME NEW id \in CommandIds, CancelWithdrawal(id) \/ ConfirmWithdrawal(id)
         PROVE  Leaves(status) /\ UNCHANGED <<position, orders>>
    BY <1>11 DEF CancelWithdrawal, ConfirmWithdrawal
  <1> QED
    BY <1>1, <1>2, <1>3, <1>4, <1>5, <1>6, <1>7, <1>8, <1>9, <1>10, <1>11,
       SettlementIsNatural
    DEF AnyPolicyCommand, Command

-----------------------------------------------------------------------------
(* The invariant *)

LEMMA InitInv == AccountsInit => Inv
  <1> SUFFICES ASSUME AccountsInit PROVE Inv
    OBVIOUS
  <1>1. Sound
    BY InitSound
  <1>2. status = "stopped" /\ StatusMatchesExposure
    BY DEF AccountsInit, StatusMatchesExposure, NoOrders
  <1> QED BY <1>1, <1>2, TypeIsNatural DEF Inv, Sound

LEMMA StepInv == Inv /\ [AnyPolicyCommand]_accounts => Inv'
  <1> SUFFICES ASSUME Inv, [AnyPolicyCommand]_accounts PROVE Inv'
    OBVIOUS
  <1>1. Sound
    BY TypeIsNatural DEF Inv, Sound
  <1>2. Sound'
    <2>1. CASE AnyPolicyCommand
      BY <1>1, <2>1, CommandSound
    <2>2. CASE UNCHANGED accounts
      BY <1>1, <2>2 DEF accounts, Sound, Natural, FeesFunded
    <2> QED BY <2>1, <2>2
  <1>3. StatusMatchesExposure' /\ status' \in {"stopped", "running", "stopping"}
    BY <1>2, CommandMatches
  <1> QED BY <1>2, <1>3 DEF Inv, Sound, Natural, AccountsTypeOK

\* The accounts stay well-typed, fees funded and the status true to what is
\* at stake, whatever settlement policy is used.
THEOREM AccountsInvariant == AnyPolicyAccounts => []Inv
  BY InitInv, StepInv, PTL DEF AnyPolicyAccounts

\* vault.ts never computes a negative amount: unsigned() has none to refuse.
THEOREM AccountsTypeCorrect == AnyPolicyAccounts => []AccountsTypeOK
  <1>1. Inv => AccountsTypeOK
    BY DEF Inv
  <1> QED BY <1>1, AccountsInvariant, PTL

\* Fees that were accrued are either paid or covered by cash, through every
\* reservation, mark and settlement (UNFUNDED_FEE_LIABILITY and
\* FEE_CONSERVATION of assertInvariant never refuse).
THEOREM FeesAreFunded == AnyPolicyAccounts => []FeesFunded
  <1>1. Inv => FeesFunded
    BY DEF Inv
  <1> QED BY <1>1, AccountsInvariant, PTL

\* A vault that reads stopped has nothing at stake, and one that reads
\* stopping has: the status never hangs after the last exit.
THEOREM StatusIsExposure == AnyPolicyAccounts => []StatusMatchesExposure
  <1>1. Inv => StatusMatchesExposure
    BY DEF Inv
  <1> QED BY <1>1, AccountsInvariant, PTL

-----------------------------------------------------------------------------
(* The server's policy *)

\* ZERO_FEE_FULL_SETTLEMENT is a policy the domain accepts.
LEMMA ServerIsAPolicy ==
  ASSUME Inv, NEW proceeds \in Amounts, SettleFully(proceeds)
  PROVE  SettleUnderAPolicy(proceeds)
  <1>1. activeCash \in Nat /\ feeLiability \in Nat /\ proceeds \in Nat /\ Allowance \in Nat
    BY AmountsAreNatural, TypeIsNatural DEF Inv, Natural
  <1>2. ExcessToIdle(proceeds) \in 0..activeCash + proceeds /\ 0 \in 0..proceeds
    BY <1>1 DEF ExcessToIdle, Above
  <1> QED BY <1>2 DEF SettleFully, SettleUnderAPolicy

LEMMA ServerStep == Inv /\ [ServerCommand]_accounts => [AnyPolicyCommand]_accounts
  BY ServerIsAPolicy DEF ServerCommand, AnyPolicyCommand

\* So what is proved of the accounts under any policy holds of the server's.
THEOREM ServerRunsTheAccounts == ServerAccounts => AnyPolicyAccounts
  BY ServerStep, InitInv, StepInv, PTL DEF ServerAccounts, AnyPolicyAccounts

-----------------------------------------------------------------------------
(* Sums *)

\* A set of numbers has a least one.
LEMMA LeastNumber ==
  ASSUME NEW T, T \subseteq Nat, T # {}
  PROVE  \E n \in T : \A m \in T : n <= m
  <1> DEFINE R == {ss \in Nat \X Nat : ss[1] < ss[2]}
  <1>1. IsWellFoundedOn(R, Nat)
    BY NatLessThanWellFounded, Zenon DEF OpToRel
  <1> HIDE DEF R
  <1>2. PICK n \in T : \A m \in T : ~(<<m, n>> \in R)
    BY <1>1, WFMin
  <1>3. \A m \in T : ~(m < n)
    BY <1>2 DEF R
  <1> QED BY <1>3

\* Induction over the subsets of a finite set, for a set of good ones.
LEMMA SubsetInduction ==
  ASSUME NEW D, IsFiniteSet(D), NEW Good, {} \in Good,
         \A T \in SUBSET D : T # {} /\ (\A x \in T : T \ {x} \in Good) => T \in Good
  PROVE  \A T \in SUBSET D : T \in Good
  <1> DEFINE Sizes == {n \in Nat : \E T \in SUBSET D : Cardinality(T) = n /\ T \notin Good}
  <1>1. \A T \in SUBSET D : IsFiniteSet(T) /\ Cardinality(T) \in Nat
    BY FS_Subset, FS_CardinalityType
  <1>2. ASSUME Sizes # {} PROVE FALSE
    <2>2. PICK n \in Sizes : \A m \in Sizes : n <= m
      BY <1>2, LeastNumber
    <2>3. n \in Nat
      OBVIOUS
    <2>4. PICK T \in SUBSET D : Cardinality(T) = n /\ T \notin Good
      BY <2>2
    <2>5. ASSUME NEW x \in T PROVE T \ {x} \in Good
      <3>1. T \ {x} \in SUBSET D /\ IsFiniteSet(T)
        BY <1>1
      <3>2. Cardinality(T \ {x}) = Cardinality(T) - 1
        BY <3>1, FS_RemoveElement
      <3>3. Cardinality(T \ {x}) \in Nat /\ Cardinality(T \ {x}) < n
        BY <1>1, <2>3, <2>4, <3>1, <3>2
      <3>4. ~(n <= Cardinality(T \ {x}))
        BY <2>3, <3>3
      <3> QED BY <2>2, <3>1, <3>3, <3>4
    <2> QED BY <2>4, <2>5
  <1> QED BY <1>1, <1>2

PartialSums(f) ==
    LET sums[T \in SUBSET DOMAIN f] ==
          IF T = {} THEN 0
          ELSE LET x == CHOOSE x \in T : TRUE IN f[x] + sums[T \ {x}]
    IN  sums

LEMMA SumIsPartial ==
  ASSUME NEW f
  PROVE  SumFunction(f) = PartialSums(f)[DOMAIN f]
  BY DEF SumFunction, SumFunctionOnSet, FoldFunctionOnSet, MapThenFoldSet, PartialSums

\* The sums of the subsets of a finite domain are what their definition says.
LEMMA SumsUnfold ==
  ASSUME NEW f, IsFiniteSet(DOMAIN f)
  PROVE  /\ PartialSums(f)[{}] = 0
         /\ \A T \in SUBSET DOMAIN f : T # {} =>
              \E x \in T : x = (CHOOSE y \in T : TRUE) /\ PartialSums(f)[T] = f[x] + PartialSums(f)[T \ {x}]
  <1> DEFINE D == DOMAIN f
             At(F, T) == IF T = {} THEN 0 ELSE LET x == CHOOSE x \in T : TRUE IN f[x] + F[T \ {x}]
             U(F) == [T \in SUBSET D |-> At(F, T)]
             UpTo(F, n) == \A T \in SUBSET D : Cardinality(T) <= n => F[T] = At(F, T)
             Sizes == {n \in Nat : \A F : ~UpTo(F, n)}
  <1>1. \A T \in SUBSET D : IsFiniteSet(T) /\ Cardinality(T) \in Nat /\ (Cardinality(T) = 0 <=> T = {})
    BY FS_Subset, FS_CardinalityType, FS_EmptySet
  <1>2. ASSUME NEW T \in SUBSET D, T # {}
        PROVE  LET x == CHOOSE x \in T : TRUE
               IN  x \in T /\ T \ {x} \in SUBSET D /\ Cardinality(T \ {x}) = Cardinality(T) - 1
    <2> DEFINE x == CHOOSE x \in T : TRUE
    <2>1. x \in T
      BY <1>2
    <2> HIDE DEF x
    <2>2. IsFiniteSet(T)
      BY <1>1
    <2>3. Cardinality(T \ {x}) = Cardinality(T) - 1
      BY <2>1, <2>2, FS_RemoveElement
    <2>4. x \in T /\ T \ {x} \in SUBSET D /\ Cardinality(T \ {x}) = Cardinality(T) - 1
      BY <2>1, <2>3
    <2> QED BY <2>4 DEF x
  <1>3. ASSUME Sizes # {} PROVE FALSE
    <2>2. PICK n \in Sizes : \A m \in Sizes : n <= m
      BY <1>3, LeastNumber
    <2>3. n \in Nat /\ (\A F : ~UpTo(F, n)) /\ \A m \in Nat : m < n => \E F : UpTo(F, m)
      <3> HIDE DEF UpTo
      <3>1. \A m \in Nat : m < n => m \notin Sizes
        BY <2>2
      <3> QED BY <2>2, <3>1
    <2>4. CASE n = 0
      <3> DEFINE Z == [T \in SUBSET D |-> 0]
      <3>1. UpTo(Z, 0)
        BY <1>1
      <3> QED BY <2>3, <2>4, <3>1
    <2>5. CASE n # 0
      <3>1. n - 1 \in Nat /\ n - 1 < n
        BY <2>3, <2>5
      <3>2. PICK F : UpTo(F, n - 1)
        BY <2>3, <3>1
      <3> DEFINE H == [T \in SUBSET D |-> IF Cardinality(T) <= n - 1 THEN F[T] ELSE At(F, T)]
      <3>3. ASSUME NEW T \in SUBSET D, Cardinality(T) <= n
            PROVE  H[T] = At(H, T)
        <4>1. At(H, T) = At(F, T)
          <5>1. CASE T = {}
            BY <5>1
          <5>2. CASE T # {}
            <6> DEFINE x == CHOOSE x \in T : TRUE
            <6>1. T \ {x} \in SUBSET D /\ Cardinality(T \ {x}) <= n - 1
              <7>1. T \ {x} \in SUBSET D /\ Cardinality(T \ {x}) = Cardinality(T) - 1
                BY <1>2, <5>2
              <7> HIDE DEF x
              <7> QED BY <7>1, <1>1, <3>3, <2>3
            <6>2. H[T \ {x}] = F[T \ {x}]
              BY <6>1
            <6>3. At(H, T) = f[x] + H[T \ {x}] /\ At(F, T) = f[x] + F[T \ {x}]
              BY <5>2
            <6> QED BY <6>2, <6>3
          <5> QED BY <5>1, <5>2
        <4>2. H[T] = At(F, T)
          BY <3>2
        <4> QED BY <4>1, <4>2
      <3> HIDE DEF H
      <3> QED BY <2>3, <3>3
    <2> QED BY <2>4, <2>5
  <1>4. Cardinality(D) \in Nat /\ \A T \in SUBSET D : Cardinality(T) <= Cardinality(D)
    BY FS_CardinalityType, FS_Subset
  <1>5. PICK F : UpTo(F, Cardinality(D))
    <2> HIDE DEF UpTo
    <2> QED BY <1>3, <1>4
  <1> DEFINE C == [T \in SUBSET D |-> F[T]]
  <1>6. C = U(C)
    <2>1. ASSUME NEW T \in SUBSET D PROVE C[T] = At(C, T)
      <3>1. C[T] = At(F, T)
        BY <1>4, <1>5
      <3>2. CASE T = {}
        BY <3>1, <3>2
      <3>3. CASE T # {}
        <4> DEFINE x == CHOOSE x \in T : TRUE
        <4>1. C[T \ {x}] = F[T \ {x}]
          BY <1>2, <3>3
        <4> QED BY <3>1, <3>3, <4>1
      <3> QED BY <3>2, <3>3
    <2> QED BY <2>1
  <1>7. PartialSums(f) = CHOOSE G : G = U(G)
    BY DEF PartialSums
  <1>8. PartialSums(f) = U(PartialSums(f))
    BY <1>6, <1>7
  <1>9. \A T \in SUBSET D : PartialSums(f)[T] = At(PartialSums(f), T)
    <2> DEFINE P == PartialSums(f)
    <2>1. P = U(P)
      BY <1>8
    <2>2. \A T \in SUBSET D : U(P)[T] = At(P, T)
      <3> HIDE DEF P, At
      <3> QED OBVIOUS
    <2> HIDE DEF P, U, At
    <2>3. \A T \in SUBSET D : P[T] = At(P, T)
      BY <2>1, <2>2
    <2> QED BY <2>3 DEF P
  <1>10. PartialSums(f)[{}] = 0
    BY <1>9
  <1>11. ASSUME NEW T \in SUBSET D, T # {}
         PROVE  \E x \in T : x = (CHOOSE y \in T : TRUE) /\ PartialSums(f)[T] = f[x] + PartialSums(f)[T \ {x}]
    <2> DEFINE x == CHOOSE y \in T : TRUE
    <2>1. x \in T
      BY <1>2, <1>11
    <2>2. PartialSums(f)[T] = f[x] + PartialSums(f)[T \ {x}]
      BY <1>9, <1>11
    <2> QED BY <2>1, <2>2
  <1> QED BY <1>10, <1>11

\* A sum of natural numbers is one, and only depends on what is summed.
LEMMA SumsAreNatural ==
  ASSUME NEW f, IsFiniteSet(DOMAIN f), \A x \in DOMAIN f : f[x] \in Nat
  PROVE  \A T \in SUBSET DOMAIN f : PartialSums(f)[T] \in Nat
  <1> DEFINE D == DOMAIN f
             Good == {T \in SUBSET D : PartialSums(f)[T] \in Nat}
  <1>1. {} \in Good
    BY SumsUnfold
  <1>2. ASSUME NEW T \in SUBSET D, T # {}, \A x \in T : T \ {x} \in Good
        PROVE  T \in Good
    <2>1. PICK x \in T : PartialSums(f)[T] = f[x] + PartialSums(f)[T \ {x}]
      BY <1>2, SumsUnfold
    <2>2. f[x] \in Nat /\ PartialSums(f)[T \ {x}] \in Nat
      BY <1>2
    <2> QED BY <2>1, <2>2
  <1>3. \A T \in SUBSET D : T # {} /\ (\A x \in T : T \ {x} \in Good) => T \in Good
    BY <1>2
  <1> HIDE DEF Good
  <1>4. \A T \in SUBSET D : T \in Good
    BY <1>1, <1>3, SubsetInduction
  <1> QED BY <1>4 DEF Good

LEMMA SumsAgree ==
  ASSUME NEW f, NEW g, IsFiniteSet(DOMAIN f), DOMAIN g = DOMAIN f
  PROVE  \A T \in SUBSET DOMAIN f : (\A x \in T : f[x] = g[x]) => PartialSums(f)[T] = PartialSums(g)[T]
  <1> DEFINE D == DOMAIN f
             Good == {T \in SUBSET D : (\A x \in T : f[x] = g[x]) => PartialSums(f)[T] = PartialSums(g)[T]}
  <1>1. {} \in Good
    BY SumsUnfold
  <1>2. ASSUME NEW T \in SUBSET D, T # {}, \A x \in T : T \ {x} \in Good
        PROVE  T \in Good
    <2> SUFFICES ASSUME \A x \in T : f[x] = g[x] PROVE PartialSums(f)[T] = PartialSums(g)[T]
      OBVIOUS
    <2>1. PICK x \in T : x = (CHOOSE y \in T : TRUE) /\ PartialSums(f)[T] = f[x] + PartialSums(f)[T \ {x}]
      BY <1>2, SumsUnfold
    <2>2. PICK y \in T : y = (CHOOSE z \in T : TRUE) /\ PartialSums(g)[T] = g[y] + PartialSums(g)[T \ {y}]
      BY <1>2, SumsUnfold
    <2>3. x = y
      BY <2>1, <2>2
    <2>4. PartialSums(f)[T \ {x}] = PartialSums(g)[T \ {x}]
      BY <1>2
    <2> QED BY <2>1, <2>2, <2>3, <2>4
  <1>3. \A T \in SUBSET D : T # {} /\ (\A x \in T : T \ {x} \in Good) => T \in Good
    BY <1>2
  <1> HIDE DEF Good
  <1>4. \A T \in SUBSET D : T \in Good
    BY <1>1, <1>3, SubsetInduction
  <1> QED BY <1>4 DEF Good

\* The order in which a set is summed does not matter.
LEMMA SumsSplit ==
  ASSUME NEW f, IsFiniteSet(DOMAIN f), \A x \in DOMAIN f : f[x] \in Nat
  PROVE  \A T \in SUBSET DOMAIN f : \A x \in T :
           PartialSums(f)[T] = f[x] + PartialSums(f)[T \ {x}]
  <1> DEFINE D == DOMAIN f
             P == PartialSums(f)
             Good == {T \in SUBSET D : \A x \in T : P[T] = f[x] + P[T \ {x}]}
  <1>1. {} \in Good
    OBVIOUS
  <1>2. ASSUME NEW T \in SUBSET D, T # {}, \A x \in T : T \ {x} \in Good
        PROVE  T \in Good
    <2> SUFFICES ASSUME NEW x \in T PROVE P[T] = f[x] + P[T \ {x}]
      OBVIOUS
    <2>1. PICK c \in T : P[T] = f[c] + P[T \ {c}]
      BY <1>2, SumsUnfold
    <2> HIDE DEF P
    <2>2. CASE x # c
      <3>1. P[T \ {c}] = f[x] + P[(T \ {c}) \ {x}]
        BY <1>2, <2>2
      <3>2. P[T \ {x}] = f[c] + P[(T \ {x}) \ {c}]
        BY <1>2, <2>2
      <3>3. (T \ {c}) \ {x} = (T \ {x}) \ {c}
        OBVIOUS
      <3>4. f[x] \in Nat /\ f[c] \in Nat /\ P[(T \ {x}) \ {c}] \in Nat
        <4>1. (T \ {x}) \ {c} \in SUBSET D
          OBVIOUS
        <4> QED BY <4>1, SumsAreNatural DEF P
      <3>5. PICK rest \in Nat : rest = P[(T \ {x}) \ {c}]
        BY <3>4
      <3>6. P[T] = f[c] + (f[x] + rest) /\ P[T \ {x}] = f[c] + rest
        BY <2>1, <3>1, <3>2, <3>3, <3>5
      <3>7. f[c] + (f[x] + rest) = f[x] + (f[c] + rest)
        BY <3>4
      <3> QED BY <3>6, <3>7
    <2> QED BY <2>1, <2>2
  <1>3. \A T \in SUBSET D : T # {} /\ (\A x \in T : T \ {x} \in Good) => T \in Good
    BY <1>2
  <1> HIDE DEF Good
  <1>4. \A T \in SUBSET D : T \in Good
    BY <1>1, <1>3, SubsetInduction
  <1> QED BY <1>4 DEF Good

\* What the accounts need of the sums of orders and withdrawals: how one entry
\* changes them, and that they are zero where every entry is.
LEMMA SumIsNatural ==
  ASSUME NEW D, IsFiniteSet(D), NEW f \in [D -> Nat]
  PROVE  SumFunction(f) \in Nat
  <1>1. DOMAIN f = D /\ \A x \in DOMAIN f : f[x] \in Nat
    OBVIOUS
  <1>2. PartialSums(f)[D] \in Nat
    BY <1>1, SumsAreNatural
  <1> QED BY <1>1, <1>2, SumIsPartial

LEMMA SumAfterChange ==
  ASSUME NEW D, IsFiniteSet(D), NEW f \in [D -> Nat], NEW g \in [D -> Nat],
         NEW x \in D, \A y \in D \ {x} : g[y] = f[y]
  PROVE  SumFunction(g) = SumFunction(f) - f[x] + g[x]
  <1>1. /\ DOMAIN f = D /\ \A y \in D : f[y] \in Nat
        /\ DOMAIN g = D /\ \A y \in D : g[y] \in Nat
    OBVIOUS
  <1>2. PartialSums(f)[D] = f[x] + PartialSums(f)[D \ {x}]
    BY <1>1, SumsSplit
  <1>3. PartialSums(g)[D] = g[x] + PartialSums(g)[D \ {x}]
    BY <1>1, SumsSplit
  <1>4. PartialSums(f)[D \ {x}] = PartialSums(g)[D \ {x}]
    BY <1>1, SumsAgree
  <1>5. PartialSums(f)[D \ {x}] \in Nat
    BY <1>1, SumsAreNatural
  <1>6. SumFunction(f) = PartialSums(f)[D] /\ SumFunction(g) = PartialSums(g)[D]
    BY <1>1, SumIsPartial
  <1> QED BY <1>1, <1>2, <1>3, <1>4, <1>5, <1>6

LEMMA SumOfZeros ==
  ASSUME NEW D, IsFiniteSet(D), NEW f \in [D -> Nat], \A x \in D : f[x] = 0
  PROVE  SumFunction(f) = 0
  <1> DEFINE Good == {T \in SUBSET D : PartialSums(f)[T] = 0}
  <1>0. DOMAIN f = D
    OBVIOUS
  <1>1. {} \in Good
    BY <1>0, SumsUnfold
  <1>2. ASSUME NEW T \in SUBSET D, T # {}, \A x \in T : T \ {x} \in Good
        PROVE  T \in Good
    <2>1. PICK x \in T : PartialSums(f)[T] = f[x] + PartialSums(f)[T \ {x}]
      BY <1>0, <1>2, SumsUnfold
    <2> QED BY <1>2, <2>1
  <1>3. \A T \in SUBSET D : T # {} /\ (\A x \in T : T \ {x} \in Good) => T \in Good
    BY <1>2
  <1> HIDE DEF Good
  <1>4. \A T \in SUBSET D : T \in Good
    BY <1>1, <1>3, SubsetInduction
  <1>5. PartialSums(f)[D] = 0
    BY <1>4 DEF Good
  <1> QED BY <1>0, <1>5, SumIsPartial

-----------------------------------------------------------------------------
(* The balances *)

\* What the balances need of the orders and withdrawals: natural sums, and
\* how the sums move with one order or one withdrawal.
LEMMA SumsOfAccounts ==
  ASSUME Natural
  PROVE  /\ Reserved \in Nat /\ Pending \in Nat
         /\ NoOrders(orders) => Reserved = 0
  BY OrdersAreFinite, SumIsNatural, SumOfZeros
  DEF Natural, NoOrders, Reserved, Pending

LEMMA ReservedAfterChange ==
  ASSUME Natural, NEW o \in OrderIds, NEW v \in Nat, orders' = [orders EXCEPT ![o] = v]
  PROVE  Reserved' = Reserved - orders[o] + v
  <1>1. /\ orders \in [OrderIds -> Nat] /\ orders' \in [OrderIds -> Nat] /\ orders'[o] = v
        /\ \A q \in OrderIds \ {o} : orders'[q] = orders[q]
    BY DEF Natural
  <1>2. SumFunction(orders') = SumFunction(orders) - orders[o] + orders'[o]
    <2>1. \A f, g \in [OrderIds -> Nat] : \A x \in OrderIds :
            (\A y \in OrderIds \ {x} : g[y] = f[y]) =>
              SumFunction(g) = SumFunction(f) - f[x] + g[x]
      BY OrdersAreFinite, SumAfterChange
    <2> QED BY <1>1, <2>1, Zenon
  <1> QED BY <1>1, <1>2 DEF Reserved

LEMMA PendingAfterChange ==
  ASSUME Natural, NEW id \in CommandIds, NEW v \in Nat,
         pendingWithdrawals' = [pendingWithdrawals EXCEPT ![id] = v]
  PROVE  Pending' = Pending - pendingWithdrawals[id] + v
  <1>1. /\ pendingWithdrawals \in [CommandIds -> Nat]
        /\ pendingWithdrawals' \in [CommandIds -> Nat] /\ pendingWithdrawals'[id] = v
        /\ \A other \in CommandIds \ {id} : pendingWithdrawals'[other] = pendingWithdrawals[other]
    BY DEF Natural
  <1>2. SumFunction(pendingWithdrawals') =
        SumFunction(pendingWithdrawals) - pendingWithdrawals[id] + pendingWithdrawals'[id]
    <2>1. \A f, g \in [CommandIds -> Nat] : \A x \in CommandIds :
            (\A y \in CommandIds \ {x} : g[y] = f[y]) =>
              SumFunction(g) = SumFunction(f) - f[x] + g[x]
      BY OrdersAreFinite, SumAfterChange
    <2> QED BY <1>1, <2>1, Zenon
  <1> QED BY <1>1, <1>2 DEF Pending

\* The sums after the commands that move them.
LEMMA SumsMove ==
  ASSUME Natural
  PROVE  /\ orders' = orders => Reserved' = Reserved
         /\ pendingWithdrawals' = pendingWithdrawals => Pending' = Pending
         /\ \A o \in OrderIds, amount \in Amounts :
              ReserveBuy(o, amount) => Reserved' = Reserved + amount
         /\ \A o \in OrderIds :
              CancelOrder(o) \/ FillBuy(o) => Reserved' = Reserved - orders[o]
         /\ \A id \in CommandIds, amount \in Amounts :
              ~IsPending(id) /\ RequestWithdrawal(id, amount) => Pending' = Pending + amount
         /\ \A id \in CommandIds :
              CancelWithdrawal(id) \/ ConfirmWithdrawal(id) =>
                Pending' = Pending - pendingWithdrawals[id]
  <1>1. orders' = orders => Reserved' = Reserved
    BY DEF Reserved
  <1>2. pendingWithdrawals' = pendingWithdrawals => Pending' = Pending
    BY DEF Pending
  <1>3. Reserved \in Nat /\ Pending \in Nat
    BY SumsOfAccounts
  <1>4. ASSUME NEW o \in OrderIds, NEW amount \in Amounts, ReserveBuy(o, amount)
        PROVE  Reserved' = Reserved + amount
    <2>1. orders[o] = 0 /\ orders' = [orders EXCEPT ![o] = amount] /\ amount \in Nat
      BY <1>4, AmountsAreNatural DEF ReserveBuy, CanReserve, HasOrder, Natural
    <2>2. Reserved' = Reserved - orders[o] + amount
      BY <2>1, ReservedAfterChange
    <2> QED BY <1>3, <2>1, <2>2
  <1>5. ASSUME NEW o \in OrderIds, CancelOrder(o) \/ FillBuy(o)
        PROVE  Reserved' = Reserved - orders[o]
    <2>1. orders[o] \in Nat /\ orders' = [orders EXCEPT ![o] = 0]
      BY <1>5 DEF CancelOrder, FillBuy, WithoutOrder, Natural
    <2>2. Reserved' = Reserved - orders[o] + 0
      BY <2>1, ReservedAfterChange
    <2> QED BY <1>3, <2>1, <2>2
  <1>6. ASSUME NEW id \in CommandIds, NEW amount \in Amounts,
               ~IsPending(id), RequestWithdrawal(id, amount)
        PROVE  Pending' = Pending + amount
    <2>1. /\ pendingWithdrawals[id] = 0 /\ amount \in Nat
          /\ pendingWithdrawals' = [pendingWithdrawals EXCEPT ![id] = amount]
      BY <1>6, AmountsAreNatural DEF RequestWithdrawal, IsPending, Natural
    <2>2. Pending' = Pending - pendingWithdrawals[id] + amount
      BY <2>1, PendingAfterChange
    <2> QED BY <1>3, <2>1, <2>2
  <1>7. ASSUME NEW id \in CommandIds, CancelWithdrawal(id) \/ ConfirmWithdrawal(id)
        PROVE  Pending' = Pending - pendingWithdrawals[id]
    <2>1. /\ pendingWithdrawals[id] \in Nat
          /\ pendingWithdrawals' = [pendingWithdrawals EXCEPT ![id] = 0]
      BY <1>7 DEF CancelWithdrawal, ConfirmWithdrawal, WithoutWithdrawal, Natural
    <2>2. Pending' = Pending - pendingWithdrawals[id] + 0
      BY <2>1, PendingAfterChange
    <2> QED BY <1>3, <2>1, <2>2
  <1> QED BY <1>1, <1>2, <1>4, <1>5, <1>6, <1>7

\* One step per command: what leaves one account comes to another, or is
\* booked as paid, gained or accrued.
LEMMA CommandConserves ==
  ASSUME Sound, EquityConserved, AnyPolicyCommand
  PROVE  EquityConserved'
  <1> DEFINE R == Reserved
             W == Pending
             Conserved == idle + (activeCash + R + positionValue - feeLiability) + W =
                          deposits - withdrawalsPaid + realizedPnl
                            + (positionValue - positionCost) - feesAccrued
  <1>1. Natural /\ Conserved
    BY DEF Sound, EquityConserved, Equity, ActiveNet
  <1>2. /\ idle \in Nat /\ activeCash \in Nat /\ positionCost \in Nat /\ positionValue \in Nat
        /\ feeLiability \in Nat /\ deposits \in Nat /\ withdrawalsPaid \in Nat
        /\ feesAccrued \in Nat /\ feesPaid \in Nat /\ realizedPnl \in Int
        /\ R \in Nat /\ W \in Nat
    BY <1>1, SumsOfAccounts DEF Natural
  <1>3. Amounts \subseteq Nat
    BY AmountsAreNatural
  <1>4. /\ orders' = orders => R' = R
        /\ pendingWithdrawals' = pendingWithdrawals => W' = W
    BY <1>1, SumsMove
  <1> HIDE DEF R, W
  <1>5. ASSUME NEW amount \in Amounts, Deposit(amount)
        PROVE  Conserved'
    BY <1>1, <1>2, <1>3, <1>4, <1>5 DEF Deposit, fees, position
  <1>6. ASSUME NEW amount \in Amounts, Allocate(amount) \/ Deallocate(amount)
        PROVE  Conserved'
    BY <1>1, <1>2, <1>3, <1>4, <1>6 DEF Allocate, Deallocate, fees, position
  <1>7. ASSUME NEW amount \in Amounts, PayFees(amount)
        PROVE  Conserved'
    BY <1>1, <1>2, <1>3, <1>4, <1>7 DEF PayFees, position
  <1>8. ASSUME NEW amount \in Amounts, NEW id \in CommandIds, ~IsPending(id),
               RequestWithdrawal(id, amount)
        PROVE  Conserved'
    <2>1. W' = W + amount
      BY <1>1, <1>8, SumsMove DEF W
    <2> QED BY <1>1, <1>2, <1>3, <1>4, <1>8, <2>1 DEF RequestWithdrawal, fees, position
  <1>9. ASSUME NEW amount \in Amounts, NEW o \in OrderIds, ReserveBuy(o, amount)
        PROVE  Conserved'
    <2>1. R' = R + amount
      BY <1>1, <1>9, SumsMove DEF R
    <2> QED BY <1>1, <1>2, <1>3, <1>4, <1>9, <2>1 DEF ReserveBuy, fees, position
  <1>10. ASSUME NEW id \in CommandIds, CancelWithdrawal(id) \/ ConfirmWithdrawal(id)
         PROVE  Conserved'
    <2>1. PICK pending \in Nat : pending = pendingWithdrawals[id]
      BY <1>1 DEF Natural
    <2>2. W' = W - pending
      BY <1>1, <1>10, <2>1, SumsMove DEF W
    <2> QED BY <1>1, <1>2, <1>4, <1>10, <2>1, <2>2
        DEF CancelWithdrawal, ConfirmWithdrawal, fees, position
  <1>11. ASSUME NEW o \in OrderIds, CancelOrder(o) \/ FillBuy(o)
         PROVE  Conserved'
    <2>1. PICK reserved \in Nat : reserved = orders[o]
      BY <1>1 DEF Natural
    <2>2. R' = R - reserved
      BY <1>1, <1>11, <2>1, SumsMove DEF R
    <2> QED BY <1>1, <1>2, <1>4, <1>11, <2>1, <2>2 DEF CancelOrder, FillBuy, fees, position
  <1>12. ASSUME NEW value \in Amounts, MarkPosition(value)
         PROVE  Conserved'
    BY <1>1, <1>2, <1>3, <1>4, <1>12 DEF MarkPosition, fees
  <1>13. ASSUME Start \/ Stop
         PROVE  Conserved'
    <2>1. UNCHANGED <<idle, activeCash, position, fees, deposits, withdrawalsPaid, realizedPnl,
                      orders, pendingWithdrawals>>
      BY <1>13 DEF Start, Stop
    <2> QED BY <1>1, <1>4, <2>1 DEF fees, position
  <1>14. ASSUME NEW proceeds \in Amounts, NEW fee \in Nat, NEW excess \in Nat,
                SettlePosition(proceeds, fee, excess)
         PROVE  Conserved'
    BY <1>1, <1>2, <1>3, <1>4, <1>14 DEF SettlePosition
  <1>15. Conserved'
    <2> HIDE DEF Conserved
    <2>1. Command => Conserved'
      BY <1>5, <1>6, <1>7, <1>8, <1>9, <1>10, <1>11, <1>12, <1>13 DEF Command
    <2>2. ASSUME NEW proceeds \in Amounts, SettleUnderAPolicy(proceeds)
          PROVE  Conserved'
      BY <1>14, <2>2, SettlementIsNatural
    <2> QED BY <2>1, <2>2 DEF AnyPolicyCommand
  <1> QED BY <1>15 DEF R, W, EquityConserved, Equity, ActiveNet

BalanceInv == Inv /\ EquityConserved

LEMMA InitBalance == AccountsInit => BalanceInv
  <1> SUFFICES ASSUME AccountsInit PROVE BalanceInv
    OBVIOUS
  <1>1. Inv /\ Natural
    BY InitInv, TypeIsNatural DEF Inv
  <1>2. Reserved = 0 /\ Pending = 0
    BY OrdersAreFinite, SumOfZeros, <1>1 DEF Natural, Reserved, Pending, AccountsInit
  <1>3. EquityConserved
    BY <1>2 DEF EquityConserved, Equity, ActiveNet, AccountsInit
  <1> QED BY <1>1, <1>3 DEF BalanceInv

LEMMA StepBalance == BalanceInv /\ [AnyPolicyCommand]_accounts => BalanceInv'
  <1> SUFFICES ASSUME BalanceInv, [AnyPolicyCommand]_accounts PROVE BalanceInv'
    OBVIOUS
  <1>1. Inv' /\ Sound
    BY StepInv, TypeIsNatural DEF BalanceInv, Inv, Sound
  <1>2. EquityConserved'
    <2>1. CASE AnyPolicyCommand
      BY <1>1, <2>1, CommandConserves DEF BalanceInv
    <2>2. CASE UNCHANGED accounts
      BY <2>2 DEF BalanceInv, EquityConserved, Equity, ActiveNet, Reserved, Pending, accounts
    <2> QED BY <2>1, <2>2
  <1> QED BY <1>1, <1>2 DEF BalanceInv

\* Money is neither made nor lost: for any orders, withdrawals, marks, fees
\* and policy the balances add up to what was paid in, paid out, gained and
\* accrued, and the active part never owes more than it has.
THEOREM BalancesAddUp == AnyPolicyAccounts => []AccountsBalance
  <1>1. BalanceInv => AccountsBalance
    <2> SUFFICES ASSUME BalanceInv PROVE ActiveNet >= 0
      BY DEF BalanceInv, Inv, AccountsBalance
    <2>1. Natural /\ FeesFunded
      BY TypeIsNatural DEF BalanceInv, Inv
    <2>2. Reserved \in Nat
      BY <2>1, SumsOfAccounts
    <2> QED BY <2>1, <2>2 DEF Natural, FeesFunded, ActiveNet
  <1> QED BY <1>1, InitBalance, StepBalance, PTL DEF AnyPolicyAccounts

\* From wherever another policy has led, the server's commands keep a vault
\* without a position within its allowance.
THEOREM AllowanceStands == AnyPolicyAccounts => StaysWithinAllowance
  <1>1. ASSUME Inv, ServerCommand, FlatWithinAllowance, positionCost' = 0
        PROVE  ActiveNet' <= Allowance
    <2> DEFINE R == Reserved
               Goal == activeCash' + R' + positionValue' - feeLiability' <= Allowance
    <2>1. /\ activeCash \in Nat /\ positionCost \in Nat /\ positionValue \in Nat
          /\ feeLiability \in Nat /\ feeLiability <= activeCash
          /\ Allowance \in Nat
      BY TypeIsNatural, AmountsAreNatural, <1>1 DEF Inv, Natural, FeesFunded
    <2>2. Natural /\ (positionCost = 0 => positionValue = 0)
      BY <1>1, TypeIsNatural DEF Inv, StatusMatchesExposure
    <2>3. R \in Nat /\ (NoOrders(orders) => R = 0)
      BY <2>2, SumsOfAccounts
    <2>4. positionCost = 0 => activeCash + R + positionValue - feeLiability <= Allowance
      BY <1>1 DEF FlatWithinAllowance, ActiveNet
    <2>5. orders' = orders => R' = R
      BY DEF Reserved
    <2>6. Amounts \subseteq Nat
      BY AmountsAreNatural
    <2>7. ASSUME NEW amount \in Amounts, Allocate(amount)
          PROVE  Goal
      <3>1. activeCash + R + positionValue - feeLiability + amount <= Allowance
        BY <2>7 DEF Allocate, CanAllocate, ActiveNet
      <3> HIDE DEF R
      <3> QED BY <2>1, <2>3, <2>5, <2>6, <2>7, <3>1 DEF Allocate, position, fees
    <2> HIDE DEF R
    <2>8. ASSUME NEW amount \in Amounts, Deposit(amount) \/ Deallocate(amount)
          PROVE  Goal
      BY <1>1, <2>1, <2>3, <2>4, <2>5, <2>6, <2>8 DEF Deposit, Deallocate, CanDeallocate, fees, position
    <2>9. ASSUME NEW amount \in Amounts, PayFees(amount)
          PROVE  Goal
      BY <1>1, <2>1, <2>3, <2>4, <2>5, <2>6, <2>9 DEF PayFees, position
    <2>10. ASSUME NEW id \in CommandIds, CancelWithdrawal(id) \/ ConfirmWithdrawal(id)
           PROVE  Goal
      BY <1>1, <2>1, <2>3, <2>4, <2>5, <2>10 DEF CancelWithdrawal, ConfirmWithdrawal, fees, position
    <2>11. ASSUME NEW id \in CommandIds, NEW amount \in Amounts, RequestWithdrawal(id, amount)
           PROVE  Goal
      BY <1>1, <2>1, <2>3, <2>4, <2>5, <2>11 DEF RequestWithdrawal, fees, position
    <2>12. ASSUME NEW amount \in Amounts, NEW o \in OrderIds, ReserveBuy(o, amount)
           PROVE  Goal
      <3>1. R' = R + amount
        BY <2>2, <2>12, SumsMove DEF R
      <3> QED BY <1>1, <2>1, <2>3, <2>4, <2>6, <2>12, <3>1 DEF ReserveBuy, fees, position
    <2>13. ASSUME NEW o \in OrderIds, CancelOrder(o)
           PROVE  Goal
      <3>1. PICK reserved \in Nat : reserved = orders[o]
        BY <2>2 DEF Natural
      <3>2. R' = R - reserved
        BY <2>2, <2>13, <3>1, SumsMove DEF R
      <3> QED BY <1>1, <2>1, <2>3, <2>4, <2>13, <3>1, <3>2 DEF CancelOrder, fees, position
    <2>14. ASSUME NEW o \in OrderIds, FillBuy(o)
           PROVE  FALSE
      BY <1>1, <2>1, <2>2, <2>14 DEF FillBuy, HasOrder, Natural
    <2>15. ASSUME NEW value \in Amounts, MarkPosition(value)
           PROVE  FALSE
      BY <1>1, <2>1, <2>15 DEF MarkPosition, HasPosition
    <2>16. ASSUME Start \/ Stop
           PROVE  Goal
      <3>1. UNCHANGED <<activeCash, position, fees, orders>>
        BY <2>16 DEF Start, Stop
      <3> QED BY <1>1, <2>4, <2>5, <3>1 DEF fees, position
    <2>17. ASSUME NEW proceeds \in Amounts, SettleFully(proceeds)
           PROVE  Goal
      <3>1. PICK excess : /\ excess = ExcessToIdle(proceeds)
                          /\ SettlePosition(proceeds, 0, excess)
        BY <2>17 DEF SettleFully
      <3>2. /\ activeCash' = activeCash + proceeds - excess
            /\ feeLiability' = feeLiability + 0 /\ positionValue' = 0
            /\ R' = R /\ R = 0
        BY <2>3, <2>5, <3>1 DEF SettlePosition, CanSettle
      <3>3. excess \in Nat /\ activeCash + proceeds - feeLiability - excess <= Allowance
        BY <2>1, <2>6, <3>1 DEF ExcessToIdle, Above
      <3> QED BY <2>1, <2>6, <3>2, <3>3
    <2>18. Goal
      <3> HIDE DEF Goal
      <3>1. Command => Goal
        BY <2>7, <2>8, <2>9, <2>10, <2>11, <2>12, <2>13, <2>14, <2>15, <2>16 DEF Command
      <3> QED BY <1>1, <2>17, <3>1 DEF ServerCommand
    <2> QED BY <2>18 DEF R, ActiveNet
  <1>2. Inv /\ [AnyPolicyCommand]_accounts =>
          [ServerCommand /\ FlatWithinAllowance => FlatWithinAllowance']_accounts
    BY <1>1 DEF FlatWithinAllowance
  <1> QED BY <1>2, AccountsInvariant, PTL DEF AnyPolicyAccounts, StaysWithinAllowance
=============================================================================
