CONSTANTS
    afEth = afEth
    afBtc = afBtc
    afOther = afOther
    PositionAssets <- MCPositionAssets
    StrayTokens <- MCStrayTokens
    Scale = 2
    MaxUint = 5
    Supply <- MCSupply
    Amounts = {1, 2, 3}
    Strays <- MCStrays
SPECIFICATION DeploymentSpec
INVARIANTS
    ProductionIsPlainCustody
    LockMatchesPrincipal
    ObligationsFunded
    PositionCountExact
    WithdrawableIsHonest
    ExitNeverBlocked
PROPERTIES
    DustUntouched
    OpenPositionsFreezeCapacity
    ProfitLeavesFirst
    PassFollowsPrincipal
