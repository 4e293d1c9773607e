SPECIFICATION Spec
CONSTANTS
    alice = alice
    bob = bob
    dao = dao
    factory = factory
    s0 = s0
    s1 = s1
    s2 = s2
    s3 = s3
    s4 = s4
    dev = dev
    Holder <- Everyone
    Account <- SignersAndDao
    Factory = factory
    StreamAt <- StreamAddresses
    GovernorAt = {dao}
    Requests <- Singles
    Batches <- Mixed
    Transfers = {3}
    Wasm = {1, 2}
    Uploaded = {1}
    MaxBatchSize = 2
    WalkLimit = 2
    InitialFunds <- Funds
    U32Max = 3
    FallbackFee = 1
    MaxTime = 1
    MaxStreams = 3
    Authority = {dev}
    Bps = {}
    Seconds = {2}
    Rates = {1}
    FeeLimit = 3
    DefaultFee = 1
    DefaultMin = 1
    DefaultMax = 2
    DefaultRate = 2
    I128Max = 9
    U64Max = 5
INVARIANTS
    TypeOK
    RegistryExact
    PagesExact
    NoEntryNeglected
PROPERTIES
    CreatedFunded
    ImplementsLog
CHECK_DEADLOCK FALSE
