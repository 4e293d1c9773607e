SPECIFICATION Spec
CONSTANTS
    alice = alice
    bob = bob
    contract = contract
    Holder <- ToAnyone
    Account <- Accounts
    Self = contract
    Orders <- AllOrders
    InitialBalances <- PartAndFull
    Amounts = {0, 1, 3}
    Extras = {0, 2}
    NewRecipients <- ToAnyone
    Genesis = 1
    MaxTime = 5
    U64Max = 7
    I128Max = 9
    SeqMax = 4
    PauseThreshold = 2
INVARIANTS
    TypeOK
    StreamInv
    SolventIsPayable
    SettlementBlockedOnlyByEarlyPause
PROPERTIES
    FundingKept
    ClaimNeverShrinks
    PauseFreezesUntilEnd
    ResumeUnblocks
    SettledForGood
    SettlementDrains
    ChangesAreSequenced
CHECK_DEADLOCK FALSE
