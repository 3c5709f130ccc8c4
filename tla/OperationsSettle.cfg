CONSTANTS
    d = d
    a1 = a1
    b1 = b1
    c1 = c1
    e = e
    u = u
    t = t
    p = p
    o1 = o1
    o2 = o2
    NoBlock = NoBlock
    NoOwner = NoOwner
    Blocks <- LowBlocks
    Parent <- LowParent
    Height <- LowHeight
    Logs <- LowLogs
    Reverts <- LowReverts
    Owners <- OneOwner
    Ops <- TwoOps
    OpTx <- TwoOpsTx
    OpClaim <- TwoOpsClaim
    Origin = a1
    MaxBlocksPerSync = 1
    ReorgSearchLimit = 1
    SoftReadyDepth = 2
    MaxEvidenceBlocks = 3
    MaxJumps = 1
    MaxFaults = 1
    MaxDisturbances = 2
    Server = p
    Rank <- OtherFirst
    MaxTracked = 1
    MaxCalls = 1
CHECK_DEADLOCK FALSE
SPECIFICATION RuntimeSpec
INVARIANTS
    ReconciledIsProved
    CaughtUpIsReadable
    StopIsFinal
PROPERTIES
    CatchesUp
    OperationsSettle
