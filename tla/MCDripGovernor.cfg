SPECIFICATION Spec
CONSTANTS
    ann = ann
    ben = ben
    vault = vault
    Address <- Addresses
    Account <- Accounts
    Bps = {0, 3, 4}
    Seconds = {0, 2, 6}
    Rates = {0, 2, 5}
    DefaultFee = 1
    DefaultMin = 1
    DefaultMax = 4
    DefaultRate = 3
    FeeLimit = 3
    I128Max = 12
    U64Max = 6
SYMMETRY Interchangeable
INVARIANTS
    TypeOK
    AdminCountExact
    NeverFrozen
    HandoverWorks
    PrincipalFits
PROPERTIES
    ImplementsGovernance
CHECK_DEADLOCK FALSE
