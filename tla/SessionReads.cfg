CONSTANTS
    t1 = t1
    t2 = t2
    alice = alice
    bob = bob
    o1 = o1
    o2 = o2
    o3 = o3
    r1 = r1
    r2 = r2
    withdraw = withdraw
    deposit = deposit
    transfer = transfer
    approve = approve
    Tabs <- TwoTabs
    Accounts <- Both
    VaultOwner = alice
    Operations <- ThreeOperations
    Reads <- TwoReads
    VaultCalls <- VaultIntents
    Deposits <- Deposit
    PassTransfers <- Transfer
    Approvals <- Approve
    WalletShows <- Wanders
    JournalLimit = 2
    None = None
    Nobody = Nobody
    WrongChain = WrongChain
SYMMETRY AllSymmetry
SPECIFICATION Spec
CONSTRAINT Bounds
INVARIANTS
    KnownHashIsKept
PROPERTIES
    WatchedOperationStays
    ReadsShowTheWallet
    ConnectionStands
    SubmittedInOneSession
