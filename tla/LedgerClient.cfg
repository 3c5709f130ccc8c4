CONSTANTS
    c1 = c1
    c2 = c2
    d1 = d1
    left = left
    right = right
    CommandIds <- ThreeIds
    OrderIds <- NoOrderIds
    Allowance = 1
    MaxInteger = 6
    Amounts = {1, 2}
    Commands <- SomeCommands
    HistoryLimit = 3
    Tabs <- TwoTabs
    OwnIds <- OwnTwo
    MaxSessions = 2
SYMMETRY TabSymmetry
SPECIFICATION ClientSpec
INVARIANTS
    FateIsKnown
PROPERTIES
    ConfirmedIsShown
