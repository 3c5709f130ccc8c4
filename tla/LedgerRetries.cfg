CONSTANTS
    c1 = c1
    c2 = c2
    c3 = c3
    c4 = c4
    c5 = c5
    c6 = c6
    c7 = c7
    order1 = order1
    CommandIds <- SevenIds
    OrderIds <- OneOrder
    Allowance = 1
    MaxInteger = 4
    Amounts = {0, 1, 2}
    Commands <- SomeCommands
    HistoryLimit = 6
SYMMETRY IdSymmetry
SPECIFICATION Spec
PROPERTIES
    AppliesEachOnce
    RunsTheAccounts
    RejectionIsFinal
