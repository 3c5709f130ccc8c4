CONSTANTS
    d = d
    a1 = a1
    a2 = a2
    b1 = b1
    b2 = b2
    e = e
    t = t
    u = u
    p = p
    q = q
    o1 = o1
    NoBlock = NoBlock
    NoOwner = NoOwner
    Blocks <- ForkBlocks
    Parent <- ForkParent
    Height <- ForkHeight
    Logs <- ForkLogs
    Reverts <- ForkReverts
    Owners <- TwoOwners
    Ops <- OneOp
    OpTx <- OneOpTx
    OpClaim <- OneOpClaim
    Origin = a2
    MaxBlocksPerSync = 2
    ReorgSearchLimit = 2
    SoftReadyDepth = 2
    MaxEvidenceBlocks = 3
    MaxJumps = 2
    MaxFaults = 1
    MaxDisturbances = 2
SYMMETRY OwnerSymmetry
SPECIFICATION Spec
INVARIANTS
    CanonicalPath
    HealthyIsComplete
    EventsOnCanonicalBlocks
    ConfirmedIsReady
    ReceiptsOnCanonicalBlocks
PROPERTIES
    TargetsAreKept
    OnlyTheOwnerWrites
    ConfirmedAtDepth
    ConfirmationStandsWithItsBlock
