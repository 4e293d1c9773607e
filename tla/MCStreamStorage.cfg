SPECIFICATION Spec
CONSTANTS
    Sender = {alice, bob}
    Terms = {before, after}
    MaxWithdrawn = 2
    MaxTime = 2
INVARIANTS
    ReadsBack
    MirrorsAgree
PROPERTIES
    BegunForGood
CHECK_DEADLOCK FALSE
