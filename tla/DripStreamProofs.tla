------------------------- MODULE DripStreamProofs -------------------------
(* What holds of a stream for every value of the constants.                *)
EXTENDS StreamProperties, TLAPS

-----------------------------------------------------------------------------
(* Facts about the operators the handlers are built from.                  *)

(* A transfer that succeeds, or carries nothing, leaves balances typed.    *)
LEMMA MoveTyped ==
    ASSUME NEW b \in [Holder -> 0 .. I128Max], NEW from \in Holder,
           NEW to \in Holder, NEW amt,
           amt > 0 => CanMove(b, from, to, amt), amt \in Nat
    PROVE  Move(b, from, to, amt) \in [Holder -> 0 .. I128Max]
<1> SUFFICES ASSUME NEW a \in Holder
             PROVE  b[a] - (IF a = from THEN amt ELSE 0)
                         + (IF a = to THEN amt ELSE 0) \in 0 .. I128Max
    BY DEF Move
<1> QED BY I128MaxAssumption DEF CanMove

(* The release arithmetic works on integers and owes nothing negative.     *)
LEMMA ReleaseTyped ==
    ASSUME TypeOK
    PROVE  /\ EffectiveNow \in Int /\ Streamed \in Int
           /\ Owed \in Nat /\ Owed <= AtLeast0(Streamed)
           /\ Clock \in Int /\ Term \in Int /\ now \in Nat
<1>0. /\ now \in Nat /\ info.start \in Nat /\ info.end \in Nat
      /\ info.pausedAt \in Nat /\ info.rate \in Nat /\ info.withdrawn \in Nat
    BY TimeAssumption, I128MaxAssumption DEF TypeOK, StreamInfo
<1>1. EffectiveNow \in Int /\ Clock \in Int /\ Term \in Int
    BY <1>0 DEF EffectiveNow, Bounded, Clock, Term
<1>2. Streamed \in Int
    BY <1>0, <1>1 DEF Streamed
<1> QED BY <1>0, <1>1, <1>2 DEF Owed, AtLeast0

(* Settlement splits the whole escrow in two.                              *)
LEMMA SettleSplits ==
    ASSUME TypeOK, CanSettle
    PROVE  /\ SettledShare \in Nat /\ SettledRefund \in Nat
           /\ SettledShare <= Owed
           /\ SettledShare + SettledRefund = bal[Self]
           /\ AfterShare \in [Holder -> 0 .. I128Max]
           /\ Move(AfterShare, Self, info.sender, SettledRefund)
                \in [Holder -> 0 .. I128Max]
<1>0. /\ Self \in Holder /\ info.recipient \in Holder /\ info.sender \in Holder
      /\ bal \in [Holder -> 0 .. I128Max] /\ bal[Self] \in Nat
    BY I128MaxAssumption, AddressAssumption DEF TypeOK, StreamInfo
<1>1. /\ SettledShare \in Nat /\ SettledRefund \in Nat /\ SettledShare <= Owed
      /\ SettledShare + SettledRefund = bal[Self]
    BY <1>0, ReleaseTyped DEF SettledShare, SettledRefund, Lesser, AtLeast0
<1>2. AfterShare \in [Holder -> 0 .. I128Max]
    BY <1>0, <1>1, MoveTyped DEF AfterShare, CanSettle
<1>3. Move(AfterShare, Self, info.sender, SettledRefund)
        \in [Holder -> 0 .. I128Max]
    BY <1>0, <1>1, <1>2, MoveTyped DEF CanSettle
<1> QED BY <1>1, <1>2, <1>3

-----------------------------------------------------------------------------
(* Every reachable state is typed: balances, counters and timestamps never *)
(* leave the ranges their machine integers have, whatever is called.       *)

LEMMA InitTyped == Init => TypeOK
<1> SUFFICES ASSUME Init PROVE TypeOK
    OBVIOUS
<1>1. PICK o \in Orders :
        /\ ValidOrder(o)
        /\ info = NewStream(o)
    BY DEF Init
<1>2. o \in Order /\ o.rate > 0
    BY <1>1, InputAssumption DEF ValidOrder
<1>3. o.rate \in 1 .. I128Max
    BY <1>2, I128MaxAssumption DEF Order
<1>4. info \in StreamInfo
    BY <1>1, <1>2, <1>3, TimeAssumption, I128MaxAssumption
    DEF NewStream, StreamInfo, Order
<1> QED BY <1>4, TimeAssumption, InputAssumption DEF Init, TypeOK

LEMMA WithdrawTyped ==
    ASSUME TypeOK, NEW amount \in Amounts, Withdraw(amount)
    PROVE  TypeOK'
<1> DEFINE sent == Lesser(amount, Owed)
<1>0. amount \in Int /\ Self \in Holder /\ info.recipient \in Holder
      /\ bal \in [Holder -> 0 .. I128Max]
    BY InputAssumption, I128MaxAssumption, AddressAssumption DEF TypeOK, StreamInfo
<1>1. sent \in Nat
    BY <1>0, ReleaseTyped DEF Lesser, Withdraw
<1>2. bal' \in [Holder -> 0 .. I128Max]
    BY <1>0, <1>1, MoveTyped DEF Withdraw
<1>3. info' \in StreamInfo
    BY <1>1, I128MaxAssumption DEF Withdraw, TypeOK, StreamInfo
<1>4. eventSeq' \in 0 .. SeqMax /\ paid' \in Nat /\ now' = now
    BY <1>1, TimeAssumption DEF Withdraw, NextEvent, TypeOK
<1> QED BY <1>2, <1>3, <1>4 DEF TypeOK

LEMMA SettleTyped == TypeOK /\ Settle => TypeOK'
<1> SUFFICES ASSUME TypeOK, Settle PROVE TypeOK'
    OBVIOUS
<1>1. bal' \in [Holder -> 0 .. I128Max] /\ SettledShare \in Nat
    BY SettleSplits DEF Settle
<1>2. info' \in StreamInfo
    BY DEF Settle, TypeOK, StreamInfo
<1>3. eventSeq' \in 0 .. SeqMax /\ paid' \in Nat /\ now' = now
    BY <1>1, TimeAssumption DEF Settle, NextEvent, TypeOK
<1> QED BY <1>1, <1>2, <1>3 DEF TypeOK

(* Among others, too, a step keeps the stream typed.                       *)
LEMMA OpenTyped == TypeOK /\ [OpenNext]_vars => TypeOK'
<1> SUFFICES ASSUME TypeOK, [OpenNext]_vars PROVE TypeOK'
    OBVIOUS
<1> USE I128MaxAssumption, TimeAssumption
<1>0. /\ Self \in Holder /\ Account \subseteq Holder /\ info.sender \in Holder
      /\ bal \in [Holder -> 0 .. I128Max]
    BY AddressAssumption DEF TypeOK, StreamInfo
<1>1. ASSUME NEW amount \in Amounts, Withdraw(amount) PROVE TypeOK'
    BY <1>1, WithdrawTyped
<1>2. ASSUME Cancel \/ ForceCancel PROVE TypeOK'
    BY <1>2, SettleTyped DEF Cancel, ForceCancel
<1>3. CASE Pause
    <2>1. now \in 0 .. U64Max
        BY DEF TypeOK
    <2>2. info' \in StreamInfo
        BY <1>3, <2>1 DEF Pause, TypeOK, StreamInfo
    <2> QED BY <1>3, <2>2 DEF Pause, NextEvent, TypeOK
<1>4. CASE Resume
    <2> DEFINE shift == now - info.pausedAt
    <2>1. /\ info.start \in Nat /\ info.end \in Nat
          /\ now \in Nat /\ info.pausedAt \in Nat
        BY DEF TypeOK, StreamInfo
    <2>2. /\ ResumedStart(shift) \in 0 .. U64Max
          /\ ResumedEnd(shift) \in 0 .. U64Max
        BY <1>4, <2>1 DEF Resume, ResumedStart, ResumedEnd
    <2>3. info' = [info EXCEPT !.start = ResumedStart(shift),
                               !.end = ResumedEnd(shift),
                               !.paused = FALSE, !.pausedAt = 0]
        BY <1>4 DEF Resume
    <2>4. PICK start \in 0 .. U64Max, end \in 0 .. U64Max :
            info' = [[info EXCEPT !.start = start, !.end = end]
                        EXCEPT !.paused = FALSE, !.pausedAt = 0]
        BY <2>2, <2>3, Zenon
    <2>5. [info EXCEPT !.start = start, !.end = end] \in StreamInfo
        BY DEF TypeOK, StreamInfo
    <2>6. 0 \in 0 .. U64Max
        OBVIOUS
    <2>7. info' \in StreamInfo
        BY <2>4, <2>5, <2>6 DEF StreamInfo
    <2> QED BY <1>4, <2>7 DEF Resume, NextEvent, TypeOK
<1>5. ASSUME NEW amount \in Amounts, TopUp(amount) PROVE TypeOK'
    <2>1. bal' \in [Holder -> 0 .. I128Max]
        BY <1>0, <1>5, MoveTyped, InputAssumption DEF TopUp
    <2> QED BY <1>5, <2>1 DEF TopUp, NextEvent, TypeOK
<1>6. ASSUME NEW extra \in Extras, ExtendDuration(extra) PROVE TypeOK'
    <2>1. extra \in Nat /\ extra * info.rate \in Nat
        BY InputAssumption DEF TypeOK, StreamInfo
    <2>2. bal' \in [Holder -> 0 .. I128Max]
        BY <1>0, <1>6, <2>1, MoveTyped DEF ExtendDuration
    <2>3. info' \in StreamInfo
        BY <1>6, <2>1 DEF ExtendDuration, TypeOK, StreamInfo
    <2> QED BY <1>6, <2>2, <2>3 DEF ExtendDuration, NextEvent, TypeOK
<1>7. CASE Clawback
    <2>1. ClawbackAmount \in Nat
        BY <1>0, ReleaseTyped DEF ClawbackAmount, AtLeast0
    <2>2. bal' \in [Holder -> 0 .. I128Max]
        BY <1>0, <1>7, <2>1, MoveTyped DEF Clawback
    <2> QED BY <1>7, <2>2 DEF Clawback, NextEvent, TypeOK
<1>8. ASSUME NEW new \in NewRecipients, TransferRecipient(new) PROVE TypeOK'
    <2>1. info' \in StreamInfo
        BY <1>8, AddressAssumption DEF TransferRecipient, TypeOK, StreamInfo
    <2> QED BY <1>8, <2>1 DEF TransferRecipient, NextEvent, TypeOK
<1>9. CASE Elsewhere
    BY <1>9 DEF Elsewhere, TypeOK
<1>10. CASE Tick
    BY <1>10 DEF Tick, TypeOK
<1>11. CASE UNCHANGED vars
    BY <1>11 DEF vars, TypeOK
<1> QED BY <1>1, <1>2, <1>3, <1>4, <1>5, <1>6, <1>7, <1>8, <1>9, <1>10, <1>11
        DEF OpenNext, Operation

(* A direct deposit is one of the things that happen elsewhere.            *)
LEMMA NextOpens == TypeOK /\ [Next]_vars => [OpenNext]_vars
<1> SUFFICES ASSUME TypeOK, NEW from \in Account, NEW amount \in Amounts,
                    Deposit(from, amount)
             PROVE  Elsewhere
    BY DEF Next, OpenNext
<1>1. /\ from \in Holder /\ Self \in Holder /\ amount \in Nat
      /\ bal \in [Holder -> 0 .. I128Max] /\ from # Self
    BY AddressAssumption, InputAssumption, I128MaxAssumption DEF TypeOK, Deposit
<1>2. bal' \in [Holder -> 0 .. I128Max]
    BY <1>1, MoveTyped DEF Deposit
<1>3. bal'[Self] = bal[Self] + amount
    BY <1>1, I128MaxAssumption DEF Deposit, Move
<1> QED BY <1>1, <1>2, <1>3, I128MaxAssumption DEF Deposit, Elsewhere

LEMMA NextTyped == TypeOK /\ [Next]_vars => TypeOK'
BY NextOpens, OpenTyped

THEOREM TypeCorrect == Spec => []TypeOK
<1> QED BY InitTyped, NextTyped, PTL DEF Spec

-----------------------------------------------------------------------------
(* The recipient is never paid more than the stream entitles it to.        *)

LEMMA ProductMonotone ==
    ASSUME NEW r \in Nat, NEW x \in Int, NEW y \in Int, x <= y
    PROVE  r * x <= r * y
OBVIOUS

LEMMA FieldsTyped ==
    ASSUME TypeOK
    PROVE  /\ now \in Nat /\ info.start \in Nat /\ info.end \in Nat
           /\ info.pausedAt \in Nat /\ info.rate \in Nat \ {0}
           /\ info.withdrawn \in Nat /\ paid \in Nat
           /\ info.paused \in BOOLEAN /\ info.cancelled \in BOOLEAN
           /\ bal[Self] \in Nat
BY TimeAssumption, I128MaxAssumption, AddressAssumption DEF TypeOK, StreamInfo

(* The streamed total stays below the entitlement: the release arithmetic  *)
(* never counts past the end, nor past the pause of an open-ended stream.  *)
LEMMA StreamedWithin ==
    ASSUME TypeOK, PauseConsistent, RangeConsistent
    PROVE  Streamed <= Entitlement /\ Entitlement \in Nat
<1> DEFINE worth == IF Bounded THEN Term ELSE AtLeast0(Clock)
<1>1. worth \in Nat
    BY FieldsTyped DEF Term, Clock, AtLeast0, RangeConsistent, Bounded
<1>2. Entitlement = info.rate * worth
    BY DEF Entitlement
<1>3. info.rate * worth \in Nat
    BY <1>1, FieldsTyped
<1>4. CASE now < info.start
    BY <1>2, <1>3, <1>4, FieldsTyped DEF Streamed
<1>5. CASE now >= info.start
    <2>1. EffectiveNow - info.start <= worth /\ EffectiveNow \in Nat
        BY <1>5, FieldsTyped
        DEF EffectiveNow, Term, Clock, AtLeast0, Bounded, PauseConsistent
    <2>2. info.rate * (EffectiveNow - info.start) <= info.rate * worth
        BY <2>1, <1>1, FieldsTyped, ProductMonotone
    <2>3. Streamed = info.rate * (EffectiveNow - info.start)
        BY <1>5, FieldsTyped DEF Streamed
    <2> QED BY <1>2, <1>3, <2>2, <2>3
<1> QED BY <1>4, <1>5, FieldsTyped

(* What a stream's record can undergo in one step, apart from its balance. *)
LEMMA StepKinds ==
    ASSUME TypeOK, [OpenNext]_vars
    PROVE  \/ /\ info' = info /\ paid' = paid
              /\ now' \in Nat /\ now' >= now
           \/ /\ now' = now /\ paid' = paid /\ ~info.cancelled
              /\ \E new \in NewRecipients : info' = [info EXCEPT !.recipient = new]
           \/ /\ now' = now /\ paid' = paid /\ ~info.cancelled /\ ~info.paused
              /\ info' = [info EXCEPT !.paused = TRUE, !.pausedAt = now]
           \/ Resume
           \/ \E extra \in Extras : ExtendDuration(extra)
           \/ \E amount \in Amounts : Withdraw(amount)
           \/ ~info.cancelled /\ Settle
<1>1. now \in Nat /\ now' \in Nat
    BY OpenTyped, FieldsTyped, TimeAssumption DEF TypeOK
<1> QED BY <1>1 DEF OpenNext, Operation, vars, Live, Cancel, ForceCancel,
                    Pause, TopUp, Clawback, TransferRecipient, Elsewhere, Tick

LEMMA InitInv == Init => StreamInv
<1> SUFFICES ASSUME Init PROVE StreamInv
    OBVIOUS
<1>1. TypeOK
    BY InitTyped
<1>2. /\ info.withdrawn = 0 /\ paid = 0 /\ info.pausedAt = 0 /\ ~info.paused
      /\ info.end > 0 => info.end > info.start
    BY DEF Init, ValidOrder, NewStream
<1>3. PauseConsistent /\ RangeConsistent
    BY <1>2 DEF PauseConsistent, RangeConsistent, Bounded
<1>4. Entitlement \in Nat
    BY <1>1, <1>3, StreamedWithin
<1> QED BY <1>2, <1>3, <1>4
        DEF StreamInv, WithdrawnWithin, PaidMatches, NeverOverpaid

(* Steps that pay nobody: the entitlement does not shrink.                 *)
LEMMA QuietInv ==
    ASSUME TypeOK, TypeOK', StreamInv,
           info'.withdrawn = info.withdrawn, paid' = paid,
           info'.rate = info.rate, info'.cancelled = info.cancelled,
           PauseConsistent', RangeConsistent', Bounded' = Bounded,
           Bounded => Term' >= Term, ~Bounded => Clock' >= Clock
    PROVE  StreamInv'
<1> DEFINE worth == IF Bounded THEN Term ELSE AtLeast0(Clock)
<1>1. worth \in Int /\ worth' \in Int /\ worth' >= worth
    <2>1. Term \in Int /\ Clock \in Int /\ Term' \in Int /\ Clock' \in Int
        BY FieldsTyped DEF TypeOK, StreamInfo, Term, Clock, ReleaseTyped
    <2> QED BY <2>1 DEF AtLeast0
<1>2. Entitlement' >= Entitlement
    BY <1>1, ProductMonotone, FieldsTyped DEF Entitlement
<1>3. Entitlement \in Int /\ Entitlement' \in Int
    BY <1>1, FieldsTyped DEF Entitlement
<1> QED BY <1>2, <1>3, FieldsTyped
        DEF StreamInv, WithdrawnWithin, PaidMatches, NeverOverpaid

LEMMA OpenInv == TypeOK /\ StreamInv /\ [OpenNext]_vars => StreamInv'
<1> SUFFICES ASSUME TypeOK, StreamInv, [OpenNext]_vars PROVE StreamInv'
    OBVIOUS
<1>0. TypeOK'
    BY OpenTyped
<1> USE FieldsTyped
<1> USE DEF Clock, Term, Bounded, PauseConsistent, RangeConsistent
<1>1. CASE info' = info /\ paid' = paid /\ now' \in Nat /\ now' >= now
    BY <1>0, <1>1, QuietInv DEF StreamInv
<1>2. ASSUME now' = now, paid' = paid, ~info.cancelled, NEW new \in NewRecipients,
             info' = [info EXCEPT !.recipient = new]
      PROVE  StreamInv'
    <2>1. /\ info'.start = info.start /\ info'.end = info.end
          /\ info'.pausedAt = info.pausedAt /\ info'.paused = info.paused
          /\ info'.withdrawn = info.withdrawn /\ info'.rate = info.rate
          /\ info'.cancelled = info.cancelled
        BY <1>2 DEF TypeOK, StreamInfo
    <2> QED BY <1>0, <1>2, <2>1, QuietInv DEF StreamInv
<1>3. ASSUME now' = now, paid' = paid, ~info.cancelled, ~info.paused,
             info' = [info EXCEPT !.paused = TRUE, !.pausedAt = now]
      PROVE  StreamInv'
    <2>1. /\ info'.start = info.start /\ info'.end = info.end
          /\ info'.pausedAt = now /\ info'.paused
          /\ info'.withdrawn = info.withdrawn /\ info'.rate = info.rate
          /\ info'.cancelled = info.cancelled
        BY <1>3 DEF TypeOK, StreamInfo
    <2> QED BY <1>0, <1>3, <2>1, QuietInv DEF StreamInv
<1>4. CASE Resume
    <2> DEFINE shift == now - info.pausedAt
    <2>1. /\ info'.start = info.start + shift
          /\ info'.end = (IF info.end > 0 THEN info.end + shift ELSE info.end)
          /\ info'.pausedAt = 0 /\ ~info'.paused
          /\ info'.withdrawn = info.withdrawn /\ info'.rate = info.rate
          /\ info'.cancelled = info.cancelled
          /\ shift >= 0 /\ info.paused
          /\ now' = now /\ paid' = paid
        BY <1>4 DEF Resume, ResumedStart, ResumedEnd, TypeOK, StreamInfo
    <2>2. Bounded' = Bounded /\ (Bounded => Term' = Term)
        BY <2>1
    <2>3. Clock' = Clock
        BY <2>1
    <2>4. PauseConsistent' /\ RangeConsistent'
        BY <2>1 DEF StreamInv
    <2> QED BY <1>0, <2>1, <2>2, <2>3, <2>4, QuietInv
<1>5. ASSUME NEW extra \in Extras, ExtendDuration(extra) PROVE StreamInv'
    <2>1. /\ info'.start = info.start /\ info'.end = info.end + extra
          /\ info'.pausedAt = info.pausedAt /\ info'.paused = info.paused
          /\ info'.withdrawn = info.withdrawn /\ info'.rate = info.rate
          /\ info'.cancelled = info.cancelled
          /\ info.end > 0 /\ extra \in Nat
          /\ now' = now /\ paid' = paid
        BY <1>5, InputAssumption, TimeAssumption
        DEF ExtendDuration, TypeOK, StreamInfo
    <2> QED BY <1>0, <2>1, QuietInv DEF StreamInv
<1>6. ASSUME NEW amount \in Amounts, Withdraw(amount) PROVE StreamInv'
    <2> DEFINE sent == Lesser(amount, Owed)
    <2>1. /\ info'.start = info.start /\ info'.end = info.end
          /\ info'.pausedAt = info.pausedAt /\ info'.paused = info.paused
          /\ info'.withdrawn = info.withdrawn + sent /\ info'.rate = info.rate
          /\ info'.cancelled = info.cancelled /\ ~info.cancelled
          /\ now' = now /\ paid' = paid + sent /\ Owed # 0
        BY <1>6 DEF Withdraw, Live, TypeOK, StreamInfo
    <2>2. Entitlement' = Entitlement
        BY <2>1 DEF Entitlement
    <2>3. sent <= Owed /\ sent \in Int
        BY InputAssumption, I128MaxAssumption, ReleaseTyped DEF Lesser
    <2>4. info.withdrawn + Owed = Streamed
        BY <2>1, ReleaseTyped DEF Owed, AtLeast0
    <2>5. Streamed <= Entitlement /\ Entitlement \in Nat /\ Streamed \in Int
        BY StreamedWithin, ReleaseTyped DEF StreamInv
    <2>6. info'.withdrawn <= Entitlement' /\ paid' = info'.withdrawn
        BY <2>1, <2>2, <2>3, <2>4, <2>5, ReleaseTyped DEF StreamInv, PaidMatches
    <2>7. PauseConsistent' /\ RangeConsistent'
        BY <2>1 DEF StreamInv
    <2> QED BY <2>6, <2>7 DEF StreamInv, WithdrawnWithin, PaidMatches, NeverOverpaid
<1>7. CASE ~info.cancelled /\ Settle
    <2>1. /\ info'.start = info.start /\ info'.end = info.end
          /\ info'.pausedAt = info.pausedAt /\ info'.paused = info.paused
          /\ info'.withdrawn = info.withdrawn /\ info'.rate = info.rate
          /\ info'.cancelled
          /\ now' = now /\ paid' = paid + SettledShare
        BY <1>7 DEF Settle, TypeOK, StreamInfo
    <2>2. Entitlement' = Entitlement
        BY <2>1 DEF Entitlement
    <2>3. SettledShare \in Nat /\ SettledShare <= Owed
        BY <1>7, SettleSplits DEF Settle
    <2>4. Streamed <= Entitlement /\ Entitlement \in Nat /\ Streamed \in Int
        BY StreamedWithin, ReleaseTyped DEF StreamInv
    <2>5. paid' <= Entitlement'
        BY <1>7, <2>1, <2>2, <2>3, <2>4, ReleaseTyped
        DEF StreamInv, PaidMatches, WithdrawnWithin, Owed, AtLeast0
    <2>6. PauseConsistent' /\ RangeConsistent'
        BY <2>1 DEF StreamInv
    <2> QED BY <2>1, <2>2, <2>5, <2>6
            DEF StreamInv, WithdrawnWithin, PaidMatches, NeverOverpaid
<1> QED BY <1>1, <1>2, <1>3, <1>4, <1>5, <1>6, <1>7, StepKinds

LEMMA NextInv == TypeOK /\ StreamInv /\ [Next]_vars => StreamInv'
BY NextOpens, OpenInv

(* withdraw, cancel and force_cancel together never pay the recipient more *)
(* than the rate allows, whatever the order of pauses, resumes, extensions *)
(* and partial withdrawals.                                                *)
THEOREM PaymentsBounded == Spec => []StreamInv
<1> QED BY InitTyped, NextTyped, InitInv, NextInv, PTL DEF Spec

(* A stream that covers its remaining term covers what is withdrawable.    *)
THEOREM SolventStreamsPay == Spec => []SolventIsPayable
<1>1. TypeOK /\ StreamInv => SolventIsPayable
    <2> SUFFICES ASSUME TypeOK, StreamInv, Bounded, FundingGap <= 0
                 PROVE  Owed <= bal[Self]
        BY DEF SolventIsPayable
    <2>1. Streamed <= Entitlement /\ Entitlement = info.rate * Term
          /\ Entitlement \in Nat /\ info.withdrawn <= Entitlement
        BY StreamedWithin DEF StreamInv, Entitlement, WithdrawnWithin
    <2> QED BY <2>1, FieldsTyped, ReleaseTyped DEF FundingGap, Owed, AtLeast0
<1> QED BY <1>1, TypeCorrect, PaymentsBounded, PTL
=============================================================================
