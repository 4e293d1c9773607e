------------------------- MODULE StreamStepProofs -------------------------
(* What a single step of a stream may never do, for all values of the      *)
(* constants: the action properties of StreamProperties.                   *)
EXTENDS DripStreamProofs

-----------------------------------------------------------------------------
(* How the escrow moves.                                                   *)

LEMMA EscrowPays ==
    ASSUME TypeOK, NEW to \in Account, NEW amt \in Nat
    PROVE  Move(bal, Self, to, amt)[Self] = bal[Self] - amt
BY AddressAssumption, FieldsTyped DEF Move, TypeOK

LEMMA EscrowReceives ==
    ASSUME TypeOK, NEW from \in Account, NEW amt \in Nat
    PROVE  Move(bal, from, Self, amt)[Self] = bal[Self] + amt
BY AddressAssumption, FieldsTyped DEF Move, TypeOK

-----------------------------------------------------------------------------
(* What happens elsewhere leaves the stream alone and its escrow no less.  *)
LEMMA ElsewhereAdds ==
    ASSUME TypeOK, Elsewhere
    PROVE  /\ info' = info /\ now' = now /\ paid' = paid /\ eventSeq' = eventSeq
           /\ bal'[Self] \in Nat /\ bal'[Self] >= bal[Self]
BY AddressAssumption, I128MaxAssumption DEF Elsewhere

LEMMA FundingStep ==
    ASSUME TypeOK, [OpenNext]_vars, Bounded, ~info.clawback, ~info'.cancelled
    PROVE  FundingGap' <= FundingGap
<1> DEFINE Kept == Bounded /\ ~info.clawback /\ ~info'.cancelled
                        => FundingGap' <= FundingGap
<1>1. Kept
    <2> USE FieldsTyped DEF FundingGap, Term
    <2>0. info.sender \in Account
        BY DEF TypeOK, StreamInfo
    <2>1. ASSUME NEW amount \in Amounts, Withdraw(amount) PROVE Kept
        <3> DEFINE sent == Lesser(amount, Owed)
        <3>1. sent \in Nat
            BY <2>1, InputAssumption, I128MaxAssumption, ReleaseTyped
            DEF Withdraw, Lesser
        <3>2. bal'[Self] = bal[Self] - sent
            BY <2>1, <3>1, EscrowPays DEF Withdraw, CanSign
        <3>3. /\ info'.start = info.start /\ info'.end = info.end
              /\ info'.rate = info.rate /\ info'.withdrawn = info.withdrawn + sent
            BY <2>1 DEF Withdraw, TypeOK, StreamInfo
        <3> QED BY <3>1, <3>2, <3>3
    <2>2. CASE Cancel \/ ForceCancel
        BY <2>2 DEF Cancel, ForceCancel, Settle, TypeOK, StreamInfo
    <2>3. CASE Pause
        <3>1. /\ info'.start = info.start /\ info'.end = info.end
              /\ info'.rate = info.rate /\ info'.withdrawn = info.withdrawn
              /\ bal' = bal
            BY <2>3 DEF Pause, TypeOK, StreamInfo
        <3> QED BY <3>1
    <2>4. CASE Resume
        <3> DEFINE shift == now - info.pausedAt
        <3>1. /\ info'.start = info.start + shift
              /\ Bounded => info'.end = info.end + shift
              /\ info'.rate = info.rate /\ info'.withdrawn = info.withdrawn
              /\ bal' = bal
            BY <2>4 DEF Resume, ResumedStart, ResumedEnd, TypeOK, StreamInfo
        <3>2. Bounded => Term' = Term
            BY <3>1
        <3> QED BY <3>1, <3>2
    <2>5. ASSUME NEW amount \in Amounts, TopUp(amount) PROVE Kept
        <3>1. amount \in Nat
            BY <2>5, InputAssumption, I128MaxAssumption DEF TopUp
        <3>2. bal'[Self] = bal[Self] + amount /\ info' = info
            BY <2>0, <2>5, <3>1, EscrowReceives DEF TopUp
        <3> QED BY <3>1, <3>2
    <2>6. ASSUME NEW extra \in Extras, ExtendDuration(extra) PROVE Kept
        <3>1. extra \in Nat /\ extra * info.rate \in Nat
            BY InputAssumption, TimeAssumption
        <3>2. bal'[Self] = bal[Self] + extra * info.rate
            BY <2>0, <2>6, <3>1, EscrowReceives DEF ExtendDuration
        <3>3. /\ info'.start = info.start /\ info'.end = info.end + extra
              /\ info'.rate = info.rate /\ info'.withdrawn = info.withdrawn
            BY <2>6 DEF ExtendDuration, TypeOK, StreamInfo
        <3>4. info.rate * (info.end + extra - info.start)
                = info.rate * (info.end - info.start) + extra * info.rate
            BY <3>1
        <3> QED BY <3>1, <3>2, <3>3, <3>4
    <2>7. CASE Clawback
        BY <2>7 DEF Clawback
    <2>8. ASSUME NEW new \in NewRecipients, TransferRecipient(new) PROVE Kept
        <3>1. /\ info'.start = info.start /\ info'.end = info.end
              /\ info'.rate = info.rate /\ info'.withdrawn = info.withdrawn
              /\ bal' = bal
            BY <2>8 DEF TransferRecipient, TypeOK, StreamInfo
        <3> QED BY <3>1
    <2>9. CASE Elsewhere
        <3>1. info' = info /\ bal'[Self] \in Nat /\ bal'[Self] >= bal[Self]
            BY <2>9, ElsewhereAdds
        <3> QED BY <3>1
    <2>10. CASE Tick \/ UNCHANGED vars
        BY <2>10 DEF Tick, vars
    <2> QED BY <2>1, <2>2, <2>3, <2>4, <2>5, <2>6, <2>7, <2>8, <2>9, <2>10
            DEF OpenNext, Operation
<1> QED BY <1>1

(* Without the clawback flag no operation widens the gap between escrow    *)
(* and term, so that a stream funded in full stays funded in full.         *)
THEOREM FundingNeverEroded == Spec => FundingKept
<1> DEFINE Kept == Bounded /\ ~info.clawback /\ ~info'.cancelled
                        => FundingGap' <= FundingGap
<1>1. TypeOK /\ [Next]_vars => [Kept]_vars
    BY FundingStep, NextOpens
<1> QED BY <1>1, TypeCorrect, PTL DEF Spec, FundingKept

LEMMA FinalStep ==
    ASSUME TypeOK, [OpenNext]_vars, info.cancelled
    PROVE  UNCHANGED <<info, eventSeq, paid>> /\ bal'[Self] >= bal[Self]
<1>1. CASE Elsewhere
    BY <1>1, ElsewhereAdds
<1>2. CASE Tick \/ UNCHANGED vars
    BY <1>2, FieldsTyped DEF Tick, vars
<1>3. ~Operation
    BY DEF Operation, Live, Withdraw, Cancel, ForceCancel, Pause, Resume,
           TopUp, ExtendDuration, Clawback, TransferRecipient
<1> QED BY <1>1, <1>2, <1>3 DEF OpenNext

(* After settlement nothing changes the stream, pays the recipient or      *)
(* takes tokens out of the contract, deposits made by mistake included.    *)
THEOREM SettlementFinal == Spec => SettledForGood
<1> DEFINE Final == info.cancelled => /\ UNCHANGED <<info, eventSeq, paid>>
                                      /\ bal'[Self] >= bal[Self]
<1>1. TypeOK /\ [Next]_vars => [Final]_vars
    BY FinalStep, NextOpens
<1> QED BY <1>1, TypeCorrect, PTL DEF Spec, SettledForGood

-----------------------------------------------------------------------------
(* What the recipient has earned is never taken back.                      *)

(* A longer time at the same rate is worth at least as much.               *)
LEMMA OwedGrows ==
    ASSUME TypeOK, TypeOK', info'.rate = info.rate,
           info'.withdrawn = info.withdrawn,
           now >= info.start =>
               \/ EffectiveNow <= info.start
               \/ /\ now' >= info'.start
                  /\ EffectiveNow' - info'.start >= EffectiveNow - info.start
    PROVE  Owed' >= Owed
<1>1. /\ EffectiveNow \in Int /\ EffectiveNow' \in Int
      /\ info'.start \in Nat /\ now' \in Nat
    BY FieldsTyped, ReleaseTyped, TimeAssumption
    DEF TypeOK, StreamInfo, EffectiveNow, Bounded
<1> DEFINE spent == EffectiveNow - info.start
           later == EffectiveNow' - info'.start
<1>2. Streamed \in Int /\ Streamed' \in Int /\ Owed \in Nat /\ Owed' \in Nat
    BY <1>1, FieldsTyped DEF Streamed, Owed, AtLeast0
<1>3. CASE now < info.start
    BY <1>2, <1>3, FieldsTyped DEF Streamed, Owed, AtLeast0
<1>4. CASE now >= info.start /\ EffectiveNow <= info.start
    <2>1. info.rate * spent <= info.rate * 0
        BY <1>1, <1>4, ProductMonotone, FieldsTyped
    <2>2. Streamed <= 0
        BY <1>1, <1>4, <2>1, FieldsTyped DEF Streamed
    <2> QED BY <1>2, <2>2, FieldsTyped DEF Owed, AtLeast0
<1>5. CASE now >= info.start /\ EffectiveNow > info.start
    <2>1. info.rate * spent <= info.rate * later
        BY <1>1, <1>5, ProductMonotone, FieldsTyped
    <2>2. Streamed = info.rate * spent /\ Streamed' = info.rate * later
        BY <1>1, <1>5, FieldsTyped DEF Streamed
    <2>3. Streamed <= Streamed'
        BY <2>1, <2>2
    <2> QED BY <1>2, <2>3, FieldsTyped DEF Owed, AtLeast0
<1> QED BY <1>1, <1>3, <1>4, <1>5, FieldsTyped

(* Steps that pay nobody preserve the claim when neither what is owed nor  *)
(* the escrow shrinks.                                                     *)
LEMMA ClaimFollows ==
    ASSUME TypeOK, paid' = paid, info'.cancelled = info.cancelled,
           Owed' \in Nat, bal'[Self] \in Nat,
           Owed' >= Owed, bal'[Self] >= bal[Self] \/ bal'[Self] >= Owed
    PROVE  Claim' >= Claim
BY FieldsTyped, ReleaseTyped DEF Claim, SettledShare, Lesser

LEMMA ClaimStep ==
    ASSUME TypeOK, TypeOK', StreamInv, [OpenNext]_vars, ~LapsedPause
    PROVE  Claim' >= Claim
<1> USE FieldsTyped, ReleaseTyped
<1>0. info.sender \in Account /\ bal'[Self] \in Nat
    BY I128MaxAssumption, AddressAssumption DEF TypeOK, StreamInfo
<1>a. Owed' \in Nat
    BY TimeAssumption, I128MaxAssumption
    DEF TypeOK, StreamInfo, Owed, AtLeast0, Streamed, EffectiveNow, Bounded
<1>1. ASSUME NEW amount \in Amounts, Withdraw(amount) PROVE Claim' >= Claim
    <2> DEFINE sent == Lesser(amount, Owed)
    <2>1. sent \in Nat /\ sent <= Owed /\ Owed # 0
        BY <1>1, InputAssumption, I128MaxAssumption DEF Withdraw, Lesser
    <2>2. bal'[Self] = bal[Self] - sent
        BY <1>1, <2>1, EscrowPays DEF Withdraw, CanSign
    <2>3. /\ info'.start = info.start /\ info'.end = info.end
          /\ info'.pausedAt = info.pausedAt /\ info'.paused = info.paused
          /\ info'.rate = info.rate /\ info'.withdrawn = info.withdrawn + sent
          /\ ~info'.cancelled /\ ~info.cancelled
          /\ now' = now /\ paid' = paid + sent
        BY <1>1 DEF Withdraw, Live, TypeOK, StreamInfo
    <2>4. Streamed' = Streamed
        BY <2>3 DEF Streamed, EffectiveNow, Bounded
    <2>5. Owed' = Owed - sent
        BY <2>1, <2>3, <2>4 DEF Owed, AtLeast0
    <2> QED BY <2>1, <2>2, <2>3, <2>5 DEF Claim, SettledShare, Lesser
<1>2. CASE Cancel \/ ForceCancel
    <2>1. /\ info'.cancelled /\ ~info.cancelled
          /\ paid' = paid + SettledShare
        BY <1>2 DEF Cancel, ForceCancel, Settle, Live, TypeOK, StreamInfo
    <2>2. SettledShare \in Nat
        BY DEF SettledShare, Lesser
    <2> QED BY <2>1, <2>2 DEF Claim
<1>3. CASE Pause
    <2>1. /\ info'.start = info.start /\ info'.end = info.end
          /\ info'.pausedAt = now /\ info'.paused /\ ~info.paused
          /\ info'.rate = info.rate /\ info'.withdrawn = info.withdrawn
          /\ info'.cancelled = info.cancelled
          /\ now' = now /\ paid' = paid /\ bal' = bal
        BY <1>3 DEF Pause, TypeOK, StreamInfo
    <2>2. Owed' = Owed
        BY <2>1 DEF Owed, Streamed, EffectiveNow, Bounded
    <2> QED BY <1>0, <1>a, <2>1, <2>2, ClaimFollows
<1>4. CASE Resume
    <2> DEFINE shift == now - info.pausedAt
    <2>1. /\ info'.start = info.start + shift
          /\ info'.end = (IF info.end > 0 THEN info.end + shift ELSE info.end)
          /\ info'.pausedAt = 0 /\ ~info'.paused /\ info.paused
          /\ info'.rate = info.rate /\ info'.withdrawn = info.withdrawn
          /\ info'.cancelled = info.cancelled
          /\ now' = now /\ paid' = paid /\ bal' = bal
        BY <1>4 DEF Resume, ResumedStart, ResumedEnd, Bounded, TypeOK, StreamInfo
    <2>2. info.pausedAt <= now /\ (Bounded => info.start < info.end)
        BY <2>1 DEF StreamInv, PauseConsistent, RangeConsistent
    <2>3. \/ EffectiveNow <= info.start
          \/ /\ now' >= info'.start
             /\ EffectiveNow' - info'.start >= EffectiveNow - info.start
        <3>1. CASE Bounded /\ now > info.end
            BY <2>1, <2>2, <3>1 DEF EffectiveNow, Bounded, LapsedPause
        <3>2. CASE ~(Bounded /\ now > info.end)
            BY <2>1, <2>2, <3>2 DEF EffectiveNow, Bounded
        <3> QED BY <3>1, <3>2
    <2>4. Owed' >= Owed
        BY <2>1, <2>3, OwedGrows
    <2> QED BY <1>0, <1>a, <2>1, <2>4, ClaimFollows
<1>5. ASSUME NEW amount \in Amounts, TopUp(amount) PROVE Claim' >= Claim
    <2>1. amount \in Nat
        BY <1>5, InputAssumption, I128MaxAssumption DEF TopUp
    <2>2. /\ bal'[Self] = bal[Self] + amount
          /\ info' = info /\ now' = now /\ paid' = paid
        BY <1>0, <1>5, <2>1, EscrowReceives DEF TopUp
    <2>3. Owed' = Owed
        BY <2>2 DEF Owed, Streamed, EffectiveNow, Bounded
    <2> QED BY <1>0, <1>a, <2>1, <2>2, <2>3, ClaimFollows
<1>6. ASSUME NEW extra \in Extras, ExtendDuration(extra) PROVE Claim' >= Claim
    <2>1. extra \in Nat /\ extra * info.rate \in Nat
        BY InputAssumption, TimeAssumption
    <2>2. bal'[Self] = bal[Self] + extra * info.rate
        BY <1>0, <1>6, <2>1, EscrowReceives DEF ExtendDuration
    <2>3. /\ info'.start = info.start /\ info'.end = info.end + extra
          /\ info'.pausedAt = info.pausedAt /\ info'.paused = info.paused
          /\ info'.rate = info.rate /\ info'.withdrawn = info.withdrawn
          /\ info'.cancelled = info.cancelled /\ info.end > 0
          /\ now' = now /\ paid' = paid
        BY <1>6 DEF ExtendDuration, Bounded, TypeOK, StreamInfo
    <2>4. EffectiveNow' >= EffectiveNow
        BY <2>1, <2>3 DEF EffectiveNow, Bounded, LapsedPause
    <2>5. EffectiveNow' \in Int
        BY <2>1, <2>3 DEF EffectiveNow, Bounded
    <2>6. Owed' >= Owed
        BY <2>3, <2>4, <2>5, OwedGrows
    <2> QED BY <1>0, <1>a, <2>1, <2>2, <2>3, <2>6, ClaimFollows
<1>7. CASE Clawback
    <2>1. /\ info' = info /\ now' = now /\ paid' = paid
          /\ bal' = Move(bal, Self, info.sender, ClawbackAmount)
        BY <1>7 DEF Clawback
    <2>2. ClawbackAmount \in Nat
        BY DEF ClawbackAmount, AtLeast0
    <2>3. bal'[Self] = bal[Self] - ClawbackAmount
        BY <1>0, <2>1, <2>2, EscrowPays
    <2>4. bal'[Self] >= bal[Self] \/ bal'[Self] >= Owed
        BY <2>3 DEF ClawbackAmount, AtLeast0
    <2>5. Owed' = Owed
        BY <2>1 DEF Owed, Streamed, EffectiveNow, Bounded
    <2> QED BY <1>0, <1>a, <2>1, <2>4, <2>5, ClaimFollows
<1>8. ASSUME NEW new \in NewRecipients, TransferRecipient(new)
      PROVE  Claim' >= Claim
    <2>1. /\ info'.start = info.start /\ info'.end = info.end
          /\ info'.pausedAt = info.pausedAt /\ info'.paused = info.paused
          /\ info'.rate = info.rate /\ info'.withdrawn = info.withdrawn
          /\ info'.cancelled = info.cancelled
          /\ now' = now /\ paid' = paid /\ bal' = bal
        BY <1>8 DEF TransferRecipient, TypeOK, StreamInfo
    <2>2. Owed' = Owed
        BY <2>1 DEF Owed, Streamed, EffectiveNow, Bounded
    <2> QED BY <1>0, <1>a, <2>1, <2>2, ClaimFollows
<1>9. CASE Elsewhere
    <2>1. /\ info' = info /\ now' = now /\ paid' = paid
          /\ bal'[Self] >= bal[Self]
        BY <1>9, ElsewhereAdds
    <2>2. Owed' = Owed
        BY <2>1 DEF Owed, Streamed, EffectiveNow, Bounded
    <2> QED BY <1>0, <1>a, <2>1, <2>2, ClaimFollows
<1>10. CASE Tick
    <2>1. /\ now' \in Nat /\ now' > now
          /\ info' = info /\ paid' = paid /\ bal' = bal
        BY <1>10, TimeAssumption DEF Tick, TypeOK
    <2>2. EffectiveNow' >= EffectiveNow /\ EffectiveNow' \in Int
        BY <2>1 DEF EffectiveNow, Bounded, StreamInv, PauseConsistent
    <2>3. Owed' >= Owed
        BY <2>1, <2>2, OwedGrows
    <2> QED BY <1>0, <1>a, <2>1, <2>3, ClaimFollows
<1>11. CASE UNCHANGED vars
    <2>1. info' = info /\ now' = now /\ paid' = paid /\ bal' = bal
        BY <1>11 DEF vars
    <2>2. Owed' = Owed
        BY <2>1 DEF Owed, Streamed, EffectiveNow, Bounded
    <2> QED BY <1>0, <1>a, <2>1, <2>2, ClaimFollows
<1> QED BY <1>1, <1>2, <1>3, <1>4, <1>5, <1>6, <1>7, <1>8, <1>9, <1>10, <1>11
        DEF OpenNext, Operation

(* No operation of either party and no passage of time takes back what the *)
(* recipient could obtain by a settlement, save after a lapsed pause.      *)
THEOREM EarnedIsKept == Spec => ClaimNeverShrinks
<1>1. TypeOK /\ TypeOK' /\ StreamInv /\ [Next]_vars
        => [~LapsedPause => Claim' >= Claim]_vars
    BY ClaimStep, NextOpens
<1> QED BY <1>1, TypeCorrect, PaymentsBounded, PTL DEF Spec, ClaimNeverShrinks

-----------------------------------------------------------------------------
LEMMA SequencedStep ==
    ASSUME TypeOK, [OpenNext]_vars
    PROVE  /\ eventSeq' \in {eventSeq, eventSeq + 1}
           /\ eventSeq' = eventSeq => /\ UNCHANGED <<info, paid>>
                                      /\ bal'[Self] >= bal[Self]
<1>1. CASE Elsewhere
    BY <1>1, ElsewhereAdds
<1>2. CASE Tick \/ UNCHANGED vars
    BY <1>2, FieldsTyped DEF Tick, vars
<1>3. CASE Operation
    <2>1. NextEvent
        BY <1>3 DEF Operation, Withdraw, Cancel, ForceCancel, Settle, Pause,
           Resume, TopUp, ExtendDuration, Clawback, TransferRecipient
    <2>2. eventSeq \in Nat
        BY TimeAssumption DEF TypeOK
    <2> QED BY <2>1, <2>2 DEF NextEvent
<1> QED BY <1>1, <1>2, <1>3 DEF OpenNext

(* An event consumer that sees no gap has seen every change and outflow.   *)
THEOREM EventsComplete == Spec => ChangesAreSequenced
<1> DEFINE Sequenced ==
        /\ eventSeq' \in {eventSeq, eventSeq + 1}
        /\ eventSeq' = eventSeq => /\ UNCHANGED <<info, paid>>
                                   /\ bal'[Self] >= bal[Self]
<1>1. TypeOK /\ [Next]_vars => [Sequenced]_vars
    BY SequencedStep, NextOpens
<1> QED BY <1>1, TypeCorrect, PTL DEF Spec, ChangesAreSequenced

(* A live stream with representable amounts can be settled by cancel, and  *)
(* by force_cancel once allowed, unless it was paused before its start.    *)
THEOREM SettlementAvailable == Spec => []SettlementBlockedOnlyByEarlyPause
<1>1. TypeOK /\ StreamInv => SettlementBlockedOnlyByEarlyPause
    <2> SUFFICES ASSUME TypeOK, StreamInv, Representable,
                        ~(info.paused /\ info.pausedAt < info.start)
                 PROVE  CanSettle
        BY DEF SettlementBlockedOnlyByEarlyPause
    <2> USE FieldsTyped, ReleaseTyped, I128MaxAssumption
    <2>1. StreamedOk
        <3> SUFFICES ASSUME now >= info.start
                     PROVE  /\ EffectiveNow >= info.start
                            /\ info.rate * (EffectiveNow - info.start) <= I128Max
            BY DEF StreamedOk
        <3>1. EffectiveNow >= info.start /\ EffectiveNow - info.start <= now
            BY DEF EffectiveNow, Bounded, StreamInv, PauseConsistent, RangeConsistent
        <3>2. info.rate * (EffectiveNow - info.start) <= info.rate * now
            BY <3>1, ProductMonotone
        <3>3. /\ info.rate * now <= I128Max /\ info.rate * now \in Int
              /\ info.rate * (EffectiveNow - info.start) \in Int
            BY DEF Representable
        <3> QED BY <3>1, <3>2, <3>3
    <2>2. /\ info.recipient \in Holder /\ info.sender \in Account
          /\ Self \in Holder /\ Account \subseteq Holder /\ Self \notin Account
          /\ \A a \in Holder : bal[a] \in Nat
          /\ DOMAIN bal = Holder
        BY AddressAssumption DEF TypeOK, StreamInfo
    <2>3. /\ SettledShare \in Nat /\ SettledRefund \in Nat
          /\ SettledShare + SettledRefund = bal[Self]
        BY <2>2 DEF SettledShare, SettledRefund, Lesser, AtLeast0
    <2>4. \A a \in Holder \ {Self} : bal[a] + bal[Self] <= I128Max
        BY DEF Representable
    <2>5. CanMove(bal, Self, info.recipient, SettledShare)
        BY <2>2, <2>3, <2>4, AddressAssumption DEF CanMove
    <2>6. /\ AfterShare[Self] >= SettledRefund
          /\ AfterShare[info.sender] + SettledRefund <= I128Max
          /\ AfterShare[Self] \in Nat
        BY <2>2, <2>3, <2>4 DEF AfterShare, Move
    <2>7. CanMove(AfterShare, Self, info.sender, SettledRefund)
        BY <2>3, <2>6 DEF CanMove
    <2> QED BY <2>1, <2>5, <2>7 DEF CanSettle
<1> QED BY <1>1, TypeCorrect, PaymentsBounded, PTL
=============================================================================
