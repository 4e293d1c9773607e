------------------------- MODULE StreamMeterProofs -------------------------
(* What pauses and settlements do, and that an open-ended stream is the    *)
(* meter of StreamMeter, for all values of the constants.                  *)
EXTENDS StreamStepProofs

-----------------------------------------------------------------------------
(* While a pause holds, the streamed total stands still.                   *)

LEMMA FreezeStep ==
    ASSUME TypeOK, TypeOK', StreamInv, [OpenNext]_vars,
           info.paused, info'.paused, ~info'.cancelled,
           ~LapsedPause, ~LapsedPause', info'.end = info.end
    PROVE  StreamedTotalView' = StreamedTotalView
<1> USE FieldsTyped
<1>1. /\ info'.start = info.start /\ info'.rate = info.rate
      /\ info'.pausedAt = info.pausedAt /\ info'.cancelled = info.cancelled
      /\ now' >= now /\ now' \in Nat
    <2> USE DEF TypeOK, StreamInfo
    <2>1. ~Resume /\ ~Settle /\ \A extra \in Extras : ~ExtendDuration(extra)
        <3>1. ~Resume /\ ~Settle
            BY DEF Resume, Settle
        <3>2. ASSUME NEW extra \in Extras, ExtendDuration(extra) PROVE FALSE
            BY <3>2, InputAssumption, TimeAssumption DEF ExtendDuration
        <3> QED BY <3>1, <3>2
    <2>2. ASSUME NEW amount \in Amounts, Withdraw(amount)
          PROVE  /\ info'.start = info.start /\ info'.rate = info.rate
                 /\ info'.pausedAt = info.pausedAt /\ now' = now
                 /\ info'.cancelled = info.cancelled
        BY <2>2 DEF Withdraw
    <2>3. ASSUME NEW new \in NewRecipients, now' = now,
                 info' = [info EXCEPT !.recipient = new]
          PROVE  /\ info'.start = info.start /\ info'.rate = info.rate
                 /\ info'.pausedAt = info.pausedAt
                 /\ info'.cancelled = info.cancelled
        BY <2>3
    <2> QED BY <2>1, <2>2, <2>3, StepKinds
<1>2. info.pausedAt <= now /\ (Bounded => info.start < info.end)
    BY DEF StreamInv, PauseConsistent, RangeConsistent
<1>3. EffectiveNow' = EffectiveNow
    BY <1>1, <1>2 DEF EffectiveNow, Bounded, LapsedPause
<1>4. CASE (now < info.start) = (now' < info.start)
    BY <1>1, <1>3, <1>4 DEF StreamedTotalView, StreamedOk, Streamed
<1>5. CASE now < info.start /\ now' >= info.start
    <2>1. EffectiveNow' = info.pausedAt /\ info.pausedAt < info.start
        BY <1>1, <1>2, <1>5 DEF EffectiveNow, Bounded, LapsedPause
    <2>2. ~StreamedOk'
        BY <1>1, <1>5, <2>1 DEF StreamedOk
    <2> QED BY <1>5, <2>2 DEF StreamedTotalView, Streamed
<1> QED BY <1>1, <1>4, <1>5

(* A pause freezes what has been streamed until it outlasts the end.       *)
THEOREM PausesFreeze == Spec => PauseFreezesUntilEnd
<1>1. TypeOK /\ TypeOK' /\ StreamInv /\ [Next]_vars
        => [ info.paused /\ info'.paused /\ ~info'.cancelled
                /\ ~LapsedPause /\ ~LapsedPause' /\ info'.end = info.end
                => StreamedTotalView' = StreamedTotalView ]_vars
    BY FreezeStep, NextOpens
<1> QED BY <1>1, TypeCorrect, PaymentsBounded, PTL DEF Spec, PauseFreezesUntilEnd

-----------------------------------------------------------------------------
(* Settlement empties the contract.                                        *)

LEMMA SettleEmpties ==
    ASSUME TypeOK, Settle, info.recipient # Self
    PROVE  bal'[Self] = 0
<1>0. /\ Self \in Holder /\ info.sender # Self
      /\ bal[Self] \in Nat /\ DOMAIN bal = Holder
    BY AddressAssumption, I128MaxAssumption DEF TypeOK, StreamInfo
<1>1. /\ SettledShare \in Nat /\ SettledRefund \in Nat
      /\ SettledShare + SettledRefund = bal[Self]
    BY SettleSplits DEF Settle
<1>2. AfterShare[Self] = bal[Self] - SettledShare /\ DOMAIN AfterShare = Holder
    BY <1>0, <1>1 DEF AfterShare, Move
<1>3. bal'[Self] = AfterShare[Self] - SettledRefund
    BY <1>0, <1>1, <1>2 DEF Settle, Move
<1> QED BY <1>0, <1>1, <1>2, <1>3

(* cancel() and force_cancel() leave nothing in the contract.              *)
THEOREM SettlementsDrain == Spec => SettlementDrains
<1> DEFINE Drained == ~info.cancelled /\ info'.cancelled /\ info.recipient # Self
                        => bal'[Self] = 0
<1>1. TypeOK /\ [Next]_vars => [Drained]_vars
    <2> SUFFICES ASSUME TypeOK, [Next]_vars, ~info.cancelled, info'.cancelled,
                        info.recipient # Self
                 PROVE  bal'[Self] = 0
        OBVIOUS
    <2>1. Settle
        BY NextOpens, StepKinds
        DEF Resume, ExtendDuration, Withdraw, TypeOK, StreamInfo
    <2> QED BY <2>1, SettleEmpties
<1> QED BY <1>1, TypeCorrect, PTL DEF Spec, SettlementDrains

-----------------------------------------------------------------------------
(* Resuming always unblocks settlement: the pause no longer lies before    *)
(* the start, and SettlementBlockedOnlyByEarlyPause covers the rest.       *)
THEOREM ResumesUnblock == Spec => ResumeUnblocks
<1> DEFINE Unblocked == info.paused /\ ~info'.paused /\ Representable' => CanSettle'
<1>1. /\ TypeOK /\ TypeOK' /\ StreamInv'
      /\ SettlementBlockedOnlyByEarlyPause' /\ [Next]_vars
      => [Unblocked]_vars
    <2> SUFFICES ASSUME TypeOK, [Next]_vars, info.paused, ~info'.paused
                 PROVE  ~info'.cancelled
        BY DEF SettlementBlockedOnlyByEarlyPause
    <2>1. Resume
        BY NextOpens, StepKinds
        DEF ExtendDuration, Withdraw, Settle, TypeOK, StreamInfo
    <2> QED BY <2>1 DEF Resume, Live, TypeOK, StreamInfo
<1> QED BY <1>1, TypeCorrect, PaymentsBounded, SettlementAvailable,
           PTL DEF Spec, ResumeUnblocks

-----------------------------------------------------------------------------
(* A stream with an end that is funded for its term, among others.         *)

LEMMA TermsKept ==
    ASSUME TypeOK, [OpenNext]_vars
    PROVE  /\ info'.clawback = info.clawback /\ (Bounded' <=> Bounded)
           /\ info.cancelled => info'.cancelled
           /\ info'.sender = info.sender
<1> USE FieldsTyped DEF Bounded
<1>1. CASE Resume
    <2>1. now - info.pausedAt >= 0
        BY <1>1 DEF Resume
    <2>2. /\ info'.clawback = info.clawback /\ info'.cancelled = info.cancelled
          /\ info'.sender = info.sender
          /\ info'.end = IF info.end > 0 THEN info.end + (now - info.pausedAt)
                                         ELSE info.end
        BY <1>1 DEF Resume, ResumedEnd, TypeOK, StreamInfo
    <2> QED BY <2>1, <2>2
<1>2. ASSUME NEW extra \in Extras, ExtendDuration(extra)
      PROVE  /\ info'.clawback = info.clawback /\ (Bounded' <=> Bounded)
             /\ info.cancelled => info'.cancelled
             /\ info'.sender = info.sender
    <2>1. extra \in Nat
        BY InputAssumption, TimeAssumption
    <2> QED BY <1>2, <2>1 DEF ExtendDuration, TypeOK, StreamInfo
<1> QED BY <1>1, <1>2, StepKinds DEF Withdraw, Settle, TypeOK, StreamInfo

(* Settling it pays the recipient all that was streamed.                   *)
LEMMA FundedSettles ==
    ASSUME TypeOK, StreamInv, [OpenNext]_vars, Bounded, FundingGap <= 0,
           ~info.cancelled, info'.cancelled, info.recipient # Self
    PROVE  paid' >= Streamed /\ bal'[Self] = 0
<1>1. Settle
    BY StepKinds DEF Resume, ExtendDuration, Withdraw, TypeOK, StreamInfo
<1>2. Owed <= bal[Self]
    <2>1. Streamed <= Entitlement /\ Entitlement = info.rate * Term
          /\ Entitlement \in Nat /\ info.withdrawn <= Entitlement
        BY StreamedWithin DEF StreamInv, Entitlement, WithdrawnWithin
    <2> QED BY <2>1, FieldsTyped, ReleaseTyped DEF FundingGap, Owed, AtLeast0
<1>3. SettledShare = Owed
    BY <1>2, FieldsTyped, ReleaseTyped DEF SettledShare, Lesser
<1>4. paid' = paid + Owed /\ paid = info.withdrawn
    BY <1>1, <1>3 DEF Settle, StreamInv, PaidMatches
<1>5. paid' >= Streamed
    BY <1>4, FieldsTyped, ReleaseTyped DEF Owed, AtLeast0
<1> QED BY <1>1, <1>5, SettleEmpties

(* Its release arithmetic fails only while it is paused from before its    *)
(* start, as long as its escrow and withdrawals together fit an i128.      *)
LEMMA FundedComputes ==
    ASSUME TypeOK, StreamInv, Bounded, FundingGap <= 0,
           info.withdrawn + bal[Self] <= I128Max,
           ~(info.paused /\ info.pausedAt < info.start)
    PROVE  StreamedOk
<1> USE FieldsTyped, ReleaseTyped, I128MaxAssumption
<1> SUFFICES ASSUME now >= info.start
             PROVE  /\ EffectiveNow >= info.start
                    /\ info.rate * (EffectiveNow - info.start) <= I128Max
    BY DEF StreamedOk
<1>1. EffectiveNow >= info.start /\ EffectiveNow - info.start <= Term
    BY DEF EffectiveNow, Bounded, Term, StreamInv, PauseConsistent, RangeConsistent
<1>2. info.rate * (EffectiveNow - info.start) <= info.rate * Term
    BY <1>1, ProductMonotone
<1>3. info.rate * Term <= info.withdrawn + bal[Self]
      /\ info.rate * Term \in Int /\ info.rate * (EffectiveNow - info.start) \in Int
    BY DEF FundingGap
<1> QED BY <1>1, <1>2, <1>3

(* A step that initializes a stream and gives it an escrow.                *)
LEMMA BornFunded ==
    ASSUME NEW o \in Order, ValidOrder(o), now' \in Genesis .. MaxTime,
           bal' \in [Holder -> 0 .. I128Max],
           info' = NewStream(o), eventSeq' = 0, paid' = 0
    PROVE  /\ TypeOK' /\ StreamInv'
           /\ Bounded' /\ bal'[Self] >= o.rate * (o.end - o.start)
                => FundingGap' <= 0
<1>1. /\ o.rate \in 1 .. I128Max /\ o.start \in Nat /\ o.end \in Nat
    BY I128MaxAssumption, TimeAssumption DEF ValidOrder, Order
<1>2. /\ info'.withdrawn = 0 /\ info'.pausedAt = 0 /\ ~info'.paused
      /\ info'.rate = o.rate /\ info'.start = o.start /\ info'.end = o.end
      /\ info'.end > 0 => info'.end > info'.start
    BY DEF ValidOrder, NewStream
<1>3. info' \in StreamInfo
    BY <1>1, TimeAssumption, I128MaxAssumption DEF NewStream, StreamInfo, Order
<1>4. TypeOK'
    BY <1>3, TimeAssumption DEF TypeOK
<1>5. PauseConsistent' /\ RangeConsistent'
    BY <1>2 DEF PauseConsistent, RangeConsistent, Bounded
<1> DEFINE worth == IF o.end > 0 THEN o.end - o.start
                    ELSE IF now' - o.start < 0 THEN 0 ELSE now' - o.start
<1>6. /\ worth \in Nat /\ o.rate * worth \in Nat
    <2>1. worth \in Nat
        BY <1>1, TimeAssumption DEF ValidOrder
    <2> HIDE DEF worth
    <2> QED BY <1>1, <2>1
<1>7. Entitlement' = o.rate * worth
    BY <1>2 DEF Entitlement, Bounded, Term, Clock, AtLeast0
<1>8. StreamInv'
    BY <1>2, <1>5, <1>6, <1>7
    DEF StreamInv, WithdrawnWithin, PaidMatches, NeverOverpaid
<1>9. Bounded' /\ bal'[Self] >= o.rate * (o.end - o.start) => FundingGap' <= 0
    <2>1. o.rate * (o.end - o.start) \in Int /\ bal'[Self] \in Int
        BY <1>1, AddressAssumption, I128MaxAssumption
    <2> QED BY <1>2, <2>1 DEF FundingGap, Term
<1> QED BY <1>4, <1>8, <1>9

-----------------------------------------------------------------------------
(* The meter.                                                              *)

(* An open-ended stream that is not its own recipient stays one.           *)
OpenInvariant == ~Bounded /\ info.recipient # Self

OnlyOpenOrders == /\ \A o \in Orders : o.end = 0 /\ o.recipient # Self
                  /\ Self \notin NewRecipients

LEMMA StaysOpen ==
    ASSUME TypeOK, OnlyOpenOrders, OpenInvariant, [Next]_vars
    PROVE  OpenInvariant'
<1> USE DEF OpenInvariant, OnlyOpenOrders, Bounded, TypeOK, StreamInfo
<1>1. CASE Resume
    BY <1>1 DEF Resume, ResumedEnd
<1>2. ASSUME NEW extra \in Extras, ExtendDuration(extra) PROVE FALSE
    BY <1>2 DEF ExtendDuration
<1>3. ASSUME NEW amount \in Amounts, Withdraw(amount) PROVE OpenInvariant'
    BY <1>3 DEF Withdraw
<1>4. CASE Settle
    BY <1>4 DEF Settle
<1> QED BY <1>1, <1>2, <1>3, <1>4, NextOpens, StepKinds

(* When the release arithmetic succeeds it agrees with the meter.          *)
LEMMA MeterShows ==
    ASSUME TypeOK, StreamInv, OpenInvariant, StreamedOk
    PROVE  Meter!Shown = Streamed
<1> USE FieldsTyped, ReleaseTyped
<1>1. EffectiveNow = Clock + info.start
    BY DEF EffectiveNow, Clock, OpenInvariant
<1>2. CASE now < info.start
    <2>1. Clock < 0
        BY <1>2 DEF Clock, StreamInv, PauseConsistent
    <2> QED BY <1>2, <2>1 DEF Meter!Shown, Streamed
<1>3. CASE now >= info.start
    <2>1. Clock >= 0
        BY <1>1, <1>3 DEF StreamedOk
    <2> QED BY <1>1, <1>3, <2>1 DEF Meter!Shown, Streamed
<1> QED BY <1>2, <1>3

LEMMA MeterStarts == OnlyOpenOrders /\ Init => Meter!MeterInit /\ OpenInvariant
<1> SUFFICES ASSUME OnlyOpenOrders, Init PROVE Meter!MeterInit /\ OpenInvariant
    OBVIOUS
<1>1. TypeOK
    BY InitTyped
<1>2. /\ ~info.paused /\ ~info.cancelled /\ paid = 0
      /\ info.end = 0 /\ info.recipient # Self
    BY DEF Init, NewStream, OnlyOpenOrders
<1> QED BY <1>1, <1>2, FieldsTyped, ReleaseTyped, I128MaxAssumption
        DEF Meter!MeterInit, OpenInvariant, Bounded, TypeOK, StreamInfo

LEMMA MeterSteps ==
    ASSUME TypeOK, TypeOK', StreamInv, OpenInvariant, [Next]_vars
    PROVE  Meter!MeterNext \/ UNCHANGED Meter!meter
<1> USE FieldsTyped
<1>0. /\ info.sender \in Account /\ Account \subseteq Holder /\ Self \in Holder
      /\ Self \notin Account /\ info.recipient \in Holder
      /\ info.recipient # Self /\ DOMAIN bal = Holder
    BY AddressAssumption DEF TypeOK, StreamInfo, OpenInvariant
<1>a. Clock \in Int /\ Owed \in Nat /\ Streamed \in Int
    BY ReleaseTyped
<1>b. ~info.cancelled => paid = info.withdrawn
    BY DEF StreamInv, PaidMatches
<1>c. StreamedOk => Meter!Shown = Streamed
    BY MeterShows
<1>d. StreamedOk /\ ~info.cancelled => Meter!Due = Owed
    BY <1>a, <1>b, <1>c DEF Meter!Due, Owed, AtLeast0
<1>1. ASSUME NEW amount \in Amounts, Withdraw(amount) PROVE Meter!Draw
    <2> DEFINE sent == Lesser(amount, Owed)
    <2>1. sent \in Nat /\ sent > 0 /\ sent <= Owed
        BY <1>1, <1>a, InputAssumption, I128MaxAssumption DEF Withdraw, Lesser
    <2>2. /\ info'.start = info.start /\ info'.pausedAt = info.pausedAt
          /\ info'.paused = info.paused /\ info'.rate = info.rate
          /\ ~info'.cancelled /\ ~info.cancelled
          /\ now' = now /\ paid' = paid + sent /\ StreamedOk
        BY <1>1 DEF Withdraw, Live, TypeOK, StreamInfo
    <2>3. bal'[Self] = bal[Self] - sent /\ sent <= bal[Self]
        BY <1>0, <1>1, <2>1 DEF Withdraw, CanMove, Move
    <2>4. paid + Owed = Streamed
        BY <1>a, <1>b, <2>1, <2>2 DEF Owed, AtLeast0
    <2>5. Clock' = Clock
        BY <2>2 DEF Clock
    <2> QED BY <1>a, <1>c, <2>1, <2>2, <2>3, <2>4, <2>5 DEF Meter!Draw
<1>2. ASSUME ~info.cancelled, Settle PROVE Meter!Close
    <2>1. /\ info'.start = info.start /\ info'.pausedAt = info.pausedAt
          /\ info'.paused = info.paused /\ info'.rate = info.rate
          /\ info'.cancelled /\ now' = now /\ StreamedOk
          /\ paid' = paid + SettledShare
        BY <1>2 DEF Settle, CanSettle, TypeOK, StreamInfo
    <2>2. bal'[Self] = 0
        BY <1>0, <1>2, SettleEmpties
    <2>3. SettledShare = IF Meter!Due < bal[Self] THEN Meter!Due ELSE bal[Self]
        BY <1>2, <1>a, <1>d, <2>1 DEF SettledShare, Lesser
    <2>4. Clock' = Clock
        BY <2>1 DEF Clock
    <2> QED BY <1>2, <2>1, <2>2, <2>3, <2>4 DEF Meter!Close
<1>3. ASSUME Pause PROVE Meter!Freeze
    <2>1. /\ info'.start = info.start /\ info'.pausedAt = now
          /\ info'.paused /\ ~info.paused /\ info'.rate = info.rate
          /\ ~info'.cancelled /\ ~info.cancelled
          /\ now' = now /\ paid' = paid /\ bal' = bal
        BY <1>3 DEF Pause, Live, TypeOK, StreamInfo
    <2> QED BY <2>1 DEF Meter!Freeze, Clock
<1>4. ASSUME Resume PROVE Meter!Thaw
    <2>1. /\ info'.start = info.start + (now - info.pausedAt)
          /\ ~info'.paused /\ info.paused /\ info'.rate = info.rate
          /\ ~info'.cancelled /\ ~info.cancelled
          /\ now' = now /\ paid' = paid /\ bal' = bal
        BY <1>4 DEF Resume, ResumedStart, Live, TypeOK, StreamInfo
    <2> QED BY <2>1 DEF Meter!Thaw, Clock
<1>5. ASSUME NEW from \in Account, NEW amount \in Amounts, amount > 0,
             bal' = Move(bal, from, Self, amount),
             info' = info, now' = now, paid' = paid
      PROVE  Meter!Fund
    <2>1. bal'[Self] = bal[Self] + amount /\ amount \in Nat
        BY <1>0, <1>5, InputAssumption, I128MaxAssumption DEF Move
    <2> QED BY <1>5, <2>1 DEF Meter!Fund, Clock
<1>6. CASE Clawback
    <2>1. /\ info' = info /\ now' = now /\ paid' = paid
          /\ StreamedOk /\ ~info.cancelled
          /\ bal' = Move(bal, Self, info.sender, ClawbackAmount)
        BY <1>6 DEF Clawback, Live
    <2>2. ClawbackAmount \in Nat
        BY <1>a DEF ClawbackAmount, AtLeast0
    <2>3. bal'[Self] = bal[Self] - ClawbackAmount
        BY <1>0, <2>1, <2>2 DEF Move
    <2>4. ASSUME ClawbackAmount = 0 PROVE UNCHANGED Meter!meter
        <3>1. bal'[Self] = bal[Self]
            BY <1>0, <2>3, <2>4 DEF TypeOK
        <3> QED BY <2>1, <3>1 DEF Meter!meter, Clock
    <2>5. CASE ClawbackAmount > 0
        <3>1. bal'[Self] = Meter!Due /\ bal'[Self] < bal[Self]
            BY <1>a, <1>d, <2>1, <2>3, <2>5 DEF ClawbackAmount, AtLeast0
        <3> QED BY <2>1, <3>1 DEF Meter!Reclaim, Meter!MeterNext, Clock
    <2> QED BY <2>2, <2>4, <2>5
<1>7. ASSUME NEW new \in NewRecipients, TransferRecipient(new)
      PROVE  UNCHANGED Meter!meter
    <2>1. /\ info'.start = info.start /\ info'.pausedAt = info.pausedAt
          /\ info'.paused = info.paused /\ info'.rate = info.rate
          /\ info'.cancelled = info.cancelled
          /\ now' = now /\ paid' = paid /\ bal' = bal
        BY <1>7 DEF TransferRecipient, TypeOK, StreamInfo
    <2> QED BY <2>1 DEF Meter!meter, Clock
<1>8. CASE Tick
    <2>1. /\ now' \in Nat /\ now' > now
          /\ info' = info /\ paid' = paid /\ bal' = bal
        BY <1>8, TimeAssumption DEF Tick, TypeOK
    <2>2. CASE info.cancelled
        BY <2>1, <2>2 DEF Meter!Idle, Meter!MeterNext, Clock
    <2>3. ASSUME ~info.cancelled, info.paused PROVE UNCHANGED Meter!meter
        BY <2>1, <2>3 DEF Meter!meter, Clock
    <2>4. CASE ~info.cancelled /\ ~info.paused
        BY <2>1, <2>4 DEF Meter!Run, Meter!MeterNext, Clock
    <2> QED BY <2>2, <2>3, <2>4
<1>9. ASSUME UNCHANGED vars PROVE UNCHANGED Meter!meter
    BY <1>9 DEF vars, Meter!meter, Clock
<1>10. ASSUME NEW extra \in Extras, ExtendDuration(extra) PROVE FALSE
    BY <1>10 DEF ExtendDuration, OpenInvariant
<1>11. CASE Cancel \/ ForceCancel
    BY <1>2, <1>11 DEF Cancel, ForceCancel, Live, Meter!MeterNext
<1>12. ASSUME NEW amount \in Amounts, TopUp(amount) PROVE Meter!Fund
    BY <1>0, <1>5, <1>12 DEF TopUp
<1>13. ASSUME NEW from \in Account, NEW amount \in Amounts, Deposit(from, amount)
       PROVE  Meter!Fund
    BY <1>5, <1>13 DEF Deposit
<1> QED BY <1>1, <1>3, <1>4, <1>6, <1>7, <1>8, <1>9, <1>10, <1>11, <1>12, <1>13
        DEF Next, Operation, Meter!MeterNext

(* Open-ended streams implement the meter: nothing is earned while paused, *)
(* a resume loses nothing, clawback leaves exactly what is due and closing *)
(* pays exactly what is due, as far as the escrow reaches.                 *)
THEOREM OpenStreamsAreMeters == ASSUME OnlyOpenOrders PROVE Spec => ImplementsMeter
<1>1. Init => Meter!MeterInit /\ OpenInvariant
    BY MeterStarts
<1>2. TypeOK /\ OpenInvariant /\ [Next]_vars => OpenInvariant'
    BY StaysOpen
<1>3. TypeOK /\ TypeOK' /\ StreamInv /\ OpenInvariant /\ [Next]_vars
        => [Meter!MeterNext]_(Meter!meter)
    BY MeterSteps
<1> QED BY <1>1, <1>2, <1>3, TypeCorrect, PaymentsBounded,
           PTL DEF Spec, ImplementsMeter, Meter!MeterSpec
=============================================================================
