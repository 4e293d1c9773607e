---------------------------- MODULE StreamMeter ----------------------------
(***************************************************************************)
(* What an open-ended stream promises, free of timestamps: a taxi meter.   *)
(* While the meter runs, every second is worth rate tokens; the sender may *)
(* freeze it, and nothing is ever earned while it is frozen.  The          *)
(* recipient draws what the meter shows from the escrow, the sender may    *)
(* add to the escrow or reclaim what is not yet earned, and closing the    *)
(* meter pays out what it shows, as far as the escrow reaches.             *)
(***************************************************************************)
EXTENDS Integers

CONSTANT MaxRate        \* bound on the price of a second

VARIABLES
    rate,       \* tokens per second
    clock,      \* seconds counted; negative until the start of the stream
    running,    \* the meter is not frozen
    open,       \* the stream is not settled
    escrow,     \* tokens held
    drawn       \* tokens paid to the recipient

meter == <<rate, clock, running, open, escrow, drawn>>

Shown == IF clock < 0 THEN 0 ELSE rate * clock
Due == IF Shown > drawn THEN Shown - drawn ELSE 0

MeterInit ==
    /\ rate \in 1 .. MaxRate
    /\ clock \in Int /\ escrow \in Nat
    /\ running = TRUE /\ open = TRUE
    /\ drawn = 0

Run == /\ open /\ running /\ clock' > clock
       /\ UNCHANGED <<rate, running, open, escrow, drawn>>

Freeze == /\ open /\ running /\ ~running'
          /\ UNCHANGED <<rate, clock, open, escrow, drawn>>

Thaw == /\ open /\ ~running /\ running'
        /\ UNCHANGED <<rate, clock, open, escrow, drawn>>

Draw == /\ open /\ drawn' > drawn
        /\ drawn' <= Shown
        /\ escrow' = escrow - (drawn' - drawn) /\ escrow' >= 0
        /\ UNCHANGED <<rate, clock, running, open>>

Fund == /\ escrow' > escrow
        /\ UNCHANGED <<rate, clock, running, open, drawn>>

Reclaim == /\ open /\ escrow' < escrow
           /\ escrow' = Due
           /\ UNCHANGED <<rate, clock, running, open, drawn>>

Close == /\ open /\ ~open'
         /\ drawn' = drawn + (IF Due < escrow THEN Due ELSE escrow)
         /\ escrow' = 0
         /\ UNCHANGED <<rate, clock, running>>

(* A closed meter may show anything: time passes and nobody looks.         *)
Idle == /\ ~open
        /\ clock' \in Int
        /\ UNCHANGED <<rate, running, open, escrow, drawn>>

MeterNext == Run \/ Freeze \/ Thaw \/ Draw \/ Fund \/ Reclaim \/ Close \/ Idle

MeterSpec == MeterInit /\ [][MeterNext]_meter
=============================================================================
