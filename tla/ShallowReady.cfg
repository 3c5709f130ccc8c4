CONSTANTS
    d = d
    a1 = a1
    a2 = a2
    b1 = b1
    b2 = b2
    e = e
    t = t
    u = u
    p = p
    q = q
    o1 = o1
    NoBlock = NoBlock
    NoOwner = NoOwner
    Blocks <- LowBlocks
    Parent <- LowParent
    Height <- LowHeight
    Logs <- LowLogs
    Reverts <- LowReverts
    Owners <- OneOwner
    Ops <- OneOp
    OpTx <- OneOpTx
    OpClaim <- OneOpClaim
    Origin = a1
    MaxBlocksPerSync = 3
    ReorgSearchLimit = 2
    SoftReadyDepth = 3
    MaxEvidenceBlocks = 3
    MaxJumps = 3
    MaxFaults = 0
    MaxDisturbances = 3
SPECIFICATION Spec
INVARIANT ReadyIsDeepEnough
