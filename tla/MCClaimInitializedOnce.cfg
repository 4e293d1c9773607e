SPECIFICATION Spec
CONSTANTS
    Sender = {alice, bob}
    Terms = {before, after}
    MaxWithdrawn = 2
    MaxTime = 2
PROPERTIES
    InitializedOnce
CHECK_DEADLOCK FALSE
