CONSTANTS
    w1 = w1
    w2 = w2
    order1 = order1
    CommandIds <- TwoIds
    OrderIds <- OneOrder
    Allowance = 2
    MaxInteger = 4
    Amounts = {0, 1, 2, 3, 4}
SYMMETRY IdSymmetry
SPECIFICATION AnyPolicyAccounts
INVARIANTS
    AccountsBalance
    StatusMatchesExposure
PROPERTIES
    StaysWithinAllowance
