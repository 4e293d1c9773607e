SPECIFICATION ProtocolSpec
CONSTANTS
    alice = alice
    bob = bob
    dao = dao
    factory = factory
    s0 = s0
    s1 = s1
    dev = dev
    Holder <- Everyone
    Account <- Signers
    Factory = factory
    StreamAt <- StreamAddresses
    GovernorAt = {dao}
    Requests = {}
    Batches <- Pairs
    Transfers = {2}
    Wasm = {1}
    Uploaded = {1}
    MaxBatchSize = 2
    WalkLimit = 1
    InitialFunds <- Funds
    U32Max = 3
    FallbackFee = 1
    MaxTime = 4
    MaxStreams = 2
    Authority = {dev}
    Bps = {}
    Seconds = {}
    Rates = {}
    FeeLimit = 3
    DefaultFee = 1
    DefaultMin = 1
    DefaultMax = 3
    DefaultRate = 2
    I128Max = 5
    U64Max = 6
    Watched = 1
    Amounts = {1, 2}
    Extras = {1, 2}
    NewRecipients = {alice}
    SeqMax = 3
    PauseThreshold = 1
INVARIANTS
    IndexNamesRecipient
CHECK_DEADLOCK FALSE
