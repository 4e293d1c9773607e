------------------------- MODULE StreamProperties -------------------------
(* What a stream owes its two parties, stated over DripStream.             *)
EXTENDS DripStream

(* Seconds of streaming the recipient has been promised so far: the clock  *)
(* that stands still while the stream is paused.                           *)
Clock == (IF info.paused THEN info.pausedAt ELSE now) - info.start

Term == info.end - info.start

Entitlement == info.rate * (IF Bounded THEN Term ELSE AtLeast0(Clock))

(* What the recipient has and can still get hold of if the stream is       *)
(* settled at this moment.                                                 *)
Claim == paid + (IF info.cancelled THEN 0 ELSE SettledShare)

(* The tokens missing for a bounded stream to pay out its whole term.      *)
FundingGap == info.rate * Term - info.withdrawn - bal[Self]

(* A pause of a bounded stream that has outlasted the end of the stream.   *)
LapsedPause == info.paused /\ Bounded /\ info.pausedAt < info.end /\ now > info.end

(* Amounts stay within an i128: the product of rate and elapsed time, and  *)
(* what a payee would hold after receiving the whole escrow.               *)
Representable ==
    /\ info.rate * now <= I128Max
    /\ \A a \in Holder \ {Self} : bal[a] + bal[Self] <= I128Max

-----------------------------------------------------------------------------
(* The strengthening that makes the invariants below inductive: a pause    *)
(* never starts in the future, the end stays after the start, and paid is  *)
(* the withdrawn counter until the stream is settled.                      *)
PauseConsistent ==
    IF info.paused THEN info.pausedAt <= now ELSE info.pausedAt = 0

RangeConsistent == Bounded => info.start < info.end

WithdrawnWithin == info.withdrawn <= Entitlement

PaidMatches == ~info.cancelled => paid = info.withdrawn

(* Over its whole life the recipient side is never paid more than the rate *)
(* allows: the full term of a bounded stream (withdraw, cancel and         *)
(* force_cancel together), or the unpaused time of an open-ended one, no   *)
(* matter how pauses, resumes, extensions and withdrawals interleave.      *)
NeverOverpaid == paid <= Entitlement

StreamInv == /\ PauseConsistent
             /\ RangeConsistent
             /\ WithdrawnWithin
             /\ PaidMatches
             /\ NeverOverpaid

(* A bounded stream whose escrow covers its remaining term can pay what    *)
(* withdraw() computes as available, at every moment and however paused.   *)
SolventIsPayable ==
    Bounded /\ ~info.cancelled /\ FundingGap <= 0 => Owed <= bal[Self]

(* Without the clawback flag nothing a party does opens or widens the      *)
(* funding gap: withdrawals, pauses, resumes and paid extensions leave a   *)
(* stream that create_stream funded in full funded in full.                *)
FundingKept ==
    [][ Bounded /\ ~info.clawback /\ ~info'.cancelled
            => FundingGap' <= FundingGap ]_vars

(* No operation of either party, and no passage of time, takes back what   *)
(* the recipient has earned: the sender's clawback, cancel, pause and      *)
(* resume included.  The one exception is a pause that outlasted the end.  *)
ClaimNeverShrinks == [][ ~LapsedPause => Claim' >= Claim ]_vars

(* While a pause holds, the streamed total stands still, unless the stream *)
(* is settled, the pause outlasts the end of a bounded stream, or the      *)
(* sender extends a stream that was paused after its end: the extension    *)
(* then credits the time between the old end and the pause.                *)
PauseFreezesUntilEnd ==
    [][ info.paused /\ info'.paused /\ ~info'.cancelled
            /\ ~LapsedPause /\ ~LapsedPause' /\ info'.end = info.end
            => StreamedTotalView' = StreamedTotalView ]_vars

(* cancel() and force_cancel() can always settle a live stream whose       *)
(* amounts are representable, except while it is paused since before its   *)
(* start: initialize()'s time-range check keeps the release arithmetic     *)
(* from trapping in every other state.                                     *)
SettlementBlockedOnlyByEarlyPause ==
    ~info.cancelled /\ Representable /\ ~CanSettle
        => info.paused /\ info.pausedAt < info.start

(* Resuming always unblocks settlement.                                    *)
ResumeUnblocks ==
    [][ info.paused /\ ~info'.paused /\ Representable' => CanSettle' ]_vars

(* Settlement is final: afterwards no operation changes the stream, pays   *)
(* the recipient or moves tokens out of the contract.                      *)
SettledForGood ==
    [][ info.cancelled => /\ UNCHANGED <<info, eventSeq, paid>>
                          /\ bal'[Self] >= bal[Self] ]_vars

(* Settlement leaves nothing behind: what is not the recipient's share     *)
(* goes to the sender (unless the contract is its own recipient).          *)
SettlementDrains ==
    [][ ~info.cancelled /\ info'.cancelled /\ info.recipient # Self
            => bal'[Self] = 0 ]_vars

(* An event consumer that sees no gap in the sequence numbers has seen     *)
(* every change of the stream and every outflow of tokens.                 *)
ChangesAreSequenced ==
    [][ /\ eventSeq' \in {eventSeq, eventSeq + 1}
        /\ eventSeq' = eventSeq => /\ UNCHANGED <<info, paid>>
                                   /\ bal'[Self] >= bal[Self] ]_vars

-----------------------------------------------------------------------------
(* An open-ended stream is a meter: its clock is Clock, its escrow is what *)
(* the contract holds.  Every step of the contract is a step of the meter, *)
(* so a pause never earns anything and a resume never moves the clock.     *)
Meter == INSTANCE StreamMeter WITH
    MaxRate <- I128Max,
    rate <- info.rate, clock <- Clock,
    running <- ~info.paused, open <- ~info.cancelled,
    escrow <- bal[Self], drawn <- paid

ImplementsMeter == Meter!MeterSpec

-----------------------------------------------------------------------------
(* Claims of the repository that the code does not keep.                   *)

(* README, Security Considerations: paused time does not count toward the  *)
(* streamed balance, a pause freezes the clock.                            *)
PauseFreezesStreamed ==
    [][ info.paused /\ info'.paused /\ ~info'.cancelled
            => StreamedTotalView' = StreamedTotalView ]_vars

(* docs/architecture.md: force_cancel lets the recipient settle            *)
(* unilaterally once a pause has lasted thirty days.                       *)
EscapeHatchOpens ==
    /\ info.paused /\ ~info.cancelled /\ CanSign(info.recipient)
    /\ now - info.pausedAt >= PauseThreshold
    /\ Representable
    => CanSettle
=============================================================================
