---------------------------- MODULE DripStream ----------------------------
(***************************************************************************)
(* One payment stream: the contract of contracts/stream.  A sender escrows *)
(* tokens in the contract and they become the recipient's at rate tokens   *)
(* per second.                                                             *)
(*                                                                         *)
(* An invocation that returns an error or traps is rolled back by the host *)
(* with every write and transfer it made, so it is a stuttering step here: *)
(* the guards of an action are the early returns, the checked operations   *)
(* and the failing transfers of its handler.  require_auth succeeds for an *)
(* account that signs and never for the contract's own address.            *)
(***************************************************************************)
EXTENDS Integers, StreamTerms

CONSTANTS
    Self,               \* the stream contract's own address
    Orders,             \* what initialize() may be called with
    InitialBalances,    \* balances the token may hold at that moment
    Amounts,            \* i128 arguments of withdraw, top_up and deposits
    Extras,             \* u64 arguments of extend_duration
    NewRecipients,      \* arguments of transfer_recipient
    Genesis,            \* ledger time of initialize()
    MaxTime,            \* bound: the last ledger time considered
    SeqMax,             \* largest event sequence number
    PauseThreshold      \* PAUSE_THRESHOLD_SECS

ASSUME AddressAssumption ==
    /\ Account \subseteq Holder /\ Self \in Holder \ Account
    /\ NewRecipients \subseteq Holder
ASSUME TimeAssumption ==
    /\ U64Max \in Nat /\ SeqMax \in Nat /\ PauseThreshold \in Nat
    /\ MaxTime \in 0 .. U64Max /\ Genesis \in 0 .. MaxTime
ASSUME InputAssumption ==
    /\ Orders \subseteq Order
    /\ InitialBalances \subseteq [Holder -> 0 .. I128Max]
    /\ Amounts \subseteq -I128Max .. I128Max
    /\ Extras \subseteq 0 .. U64Max

VARIABLES
    now,        \* ledger timestamp
    info,       \* the stored StreamInfo; flags unpacked, token left implicit
    bal,        \* the token's balances
    eventSeq,   \* the last event sequence number allocated
    paid        \* history: all that was ever transferred to the recipient

vars == <<now, info, bal, eventSeq, paid>>

TypeOK ==
    /\ now \in Genesis .. MaxTime
    /\ info \in StreamInfo
    /\ bal \in [Holder -> 0 .. I128Max]
    /\ eventSeq \in 0 .. SeqMax
    /\ paid \in Nat

-----------------------------------------------------------------------------
(* Release arithmetic.  A definition X_Fault is what X would be after a    *)
(* plausible slip in the code; nothing uses it but the mutation runs that  *)
(* show which property notices the slip.                                   *)

AtLeast0(x) == IF x < 0 THEN 0 ELSE x
Lesser(x, y) == IF x < y THEN x ELSE y

Bounded == info.end > 0

(* Faults: the end is not clamped to; the pause does not stop the clock.   *)
EffectiveNow_NoClamp == IF info.paused THEN info.pausedAt ELSE now
EffectiveNow_NoPause == IF Bounded /\ now > info.end THEN info.end ELSE now

(* The moment up to which tokens have been released.                       *)
EffectiveNow ==
    IF Bounded /\ now > info.end THEN info.end
    ELSE IF info.paused THEN info.pausedAt
    ELSE now

(* streamed_amount returns a value: neither the u64 subtraction nor the    *)
(* i128 product overflows.                                                 *)
StreamedOk ==
    now >= info.start => /\ EffectiveNow >= info.start
                         /\ info.rate * (EffectiveNow - info.start) <= I128Max

Streamed ==
    IF now < info.start THEN 0 ELSE info.rate * (EffectiveNow - info.start)

(* Fault: what was withdrawn already is not deducted.                      *)
Owed_Gross == AtLeast0(Streamed)

(* math::withdrawable, which cancel, force_cancel and clawback repeat.     *)
Owed == AtLeast0(Streamed - info.withdrawn)

(* The read-only entry points: a cancelled stream and an overflow read 0.  *)
WithdrawableView == IF info.cancelled \/ ~StreamedOk THEN 0 ELSE Owed
StreamedTotalView == IF info.cancelled \/ ~StreamedOk THEN 0 ELSE Streamed

-----------------------------------------------------------------------------
(* The handlers.                                                           *)

CanSign(address) == address \in Account

(* assert_not_cancelled, and the fault of leaving it out.                  *)
Live_Unchecked == TRUE
Live == ~info.cancelled                                     \* StreamCancelled

(* Faults: an unchecked addition; a handler that publishes no event.       *)
NextEvent_Unchecked == eventSeq' = eventSeq + 1
NextEvent_Silent == eventSeq' = eventSeq

(* next_sequence: checked_add, so at the largest number the caller traps.  *)
NextEvent == /\ eventSeq < SeqMax
             /\ eventSeq' = eventSeq + 1

Init ==
    /\ now = Genesis
    /\ \E o \in Orders : ValidOrder(o) /\ info = NewStream(o)
    /\ bal \in InitialBalances
    /\ eventSeq = 0
    /\ paid = 0

Withdraw(amount) ==
    LET sent == Lesser(amount, Owed) IN
    /\ amount > 0                                           \* InvalidAmount
    /\ Live
    /\ CanSign(info.recipient)
    /\ StreamedOk                                           \* ArithmeticOverflow
    /\ Owed # 0                                             \* NothingToWithdraw
    /\ info.withdrawn + sent <= I128Max                     \* ArithmeticOverflow
    /\ CanMove(bal, Self, info.recipient, sent)
    /\ info' = [info EXCEPT !.withdrawn = @ + sent]
    /\ bal' = Move(bal, Self, info.recipient, sent)
    /\ paid' = paid + sent
    /\ NextEvent
    /\ UNCHANGED now

(* Faults: the share is not capped by the balance; the refund forgets that *)
(* part of the streamed total has left the contract before.                *)
SettledShare_Uncapped == Owed
SettledRefund_Streamed == AtLeast0(bal[Self] - Streamed)

(* What cancel and force_cancel share once they are allowed: the recipient *)
(* gets what is owed as far as the balance reaches, then the sender gets   *)
(* the rest, in two transfers, each skipped when it has nothing to carry.  *)
SettledShare == Lesser(Owed, bal[Self])
SettledRefund == AtLeast0(bal[Self] - SettledShare)

AfterShare == Move(bal, Self, info.recipient, SettledShare)

CanSettle ==
    /\ StreamedOk                                           \* ArithmeticOverflow
    /\ SettledShare > 0 => CanMove(bal, Self, info.recipient, SettledShare)
    /\ SettledRefund > 0 => CanMove(AfterShare, Self, info.sender, SettledRefund)

Settle ==
    /\ CanSettle
    /\ info' = [info EXCEPT !.cancelled = TRUE]
    /\ bal' = Move(AfterShare, Self, info.sender, SettledRefund)
    /\ paid' = paid + SettledShare
    /\ NextEvent
    /\ UNCHANGED now

Cancel ==
    /\ Live
    /\ CanSign(info.sender)
    /\ Settle

(* Fault: the saturating subtraction has its operands swapped.             *)
PauseThresholdMet_Swapped == AtLeast0(info.pausedAt - now) >= PauseThreshold
PauseThresholdMet == AtLeast0(now - info.pausedAt) >= PauseThreshold

ForceCancel ==
    /\ Live
    /\ info.paused                                          \* NotPaused
    /\ PauseThresholdMet                                    \* PauseThresholdNotMet
    /\ CanSign(info.recipient)
    /\ Settle

Pause ==
    /\ Live
    /\ ~info.paused                                         \* AlreadyPaused
    /\ CanSign(info.sender)
    /\ StreamedOk                                           \* ArithmeticOverflow
    /\ info' = [info EXCEPT !.paused = TRUE, !.pausedAt = now]
    /\ NextEvent
    /\ UNCHANGED <<now, bal, paid>>

(* Faults: only the end is shifted; only the start is shifted.             *)
ResumedStart_Kept(shift) == info.start
ResumedEnd_Kept(shift) == info.end

(* The start and, of a bounded stream, the end move on by the time the     *)
(* pause lasted; both additions trap on overflow.                          *)
ResumedStart(shift) == info.start + shift
ResumedEnd(shift) == IF Bounded THEN info.end + shift ELSE info.end

Resume ==
    LET shift == now - info.pausedAt IN
    /\ Live
    /\ info.paused                                          \* NotPaused
    /\ CanSign(info.sender)
    /\ shift >= 0
    /\ ResumedStart(shift) <= U64Max
    /\ ResumedEnd(shift) <= U64Max
    /\ info' = [info EXCEPT !.start = ResumedStart(shift),
                            !.end = ResumedEnd(shift),
                            !.paused = FALSE, !.pausedAt = 0]
    /\ NextEvent
    /\ UNCHANGED <<now, bal, paid>>

TopUp(amount) ==
    /\ amount > 0                                           \* InvalidAmount
    /\ CanSign(info.sender)
    /\ Live
    /\ CanMove(bal, info.sender, Self, amount)
    /\ bal' = Move(bal, info.sender, Self, amount)
    /\ NextEvent
    /\ UNCHANGED <<now, info, paid>>

ExtendDuration(extra) ==
    LET deposit == extra * info.rate IN
    /\ extra # 0                                            \* InvalidTimeRange
    /\ Live
    /\ CanSign(info.sender)
    /\ Bounded                                              \* InvalidTimeRange
    /\ deposit <= I128Max                                   \* ArithmeticOverflow
    /\ CanMove(bal, info.sender, Self, deposit)
    /\ info.end + extra <= U64Max                           \* ArithmeticOverflow
    /\ bal' = Move(bal, info.sender, Self, deposit)
    /\ info' = [info EXCEPT !.end = @ + extra]
    /\ NextEvent
    /\ UNCHANGED <<now, paid>>

(* Fault: the sender reclaims the recipient's share as well.               *)
ClawbackAmount_All == bal[Self]
ClawbackAmount == AtLeast0(bal[Self] - Owed)

Clawback ==
    /\ Live
    /\ info.clawback                                        \* ClawbackDisabled
    /\ CanSign(info.sender)
    /\ StreamedOk                                           \* ArithmeticOverflow
    /\ ClawbackAmount > 0 => CanMove(bal, Self, info.sender, ClawbackAmount)
    /\ bal' = Move(bal, Self, info.sender, ClawbackAmount)
    /\ NextEvent
    /\ UNCHANGED <<now, info, paid>>

TransferRecipient(new) ==
    /\ Live
    /\ CanSign(info.recipient)
    /\ info' = [info EXCEPT !.recipient = new]
    /\ NextEvent
    /\ UNCHANGED <<now, bal, paid>>

(* Environment: anyone may send the contract tokens directly, which is how *)
(* the factory funds it, and the ledger closes at a later time.            *)
Deposit(from, amount) ==
    /\ amount > 0
    /\ CanMove(bal, from, Self, amount)
    /\ bal' = Move(bal, from, Self, amount)
    /\ UNCHANGED <<now, info, eventSeq, paid>>

Tick ==
    /\ now' \in (now + 1) .. MaxTime
    /\ UNCHANGED <<info, bal, eventSeq, paid>>

(* What the contract does when it is called.                               *)
Operation ==
    \/ \E amount \in Amounts : Withdraw(amount)
    \/ Cancel
    \/ ForceCancel
    \/ Pause
    \/ Resume
    \/ \E amount \in Amounts : TopUp(amount)
    \/ \E extra \in Extras : ExtendDuration(extra)
    \/ Clawback
    \/ \E new \in NewRecipients : TransferRecipient(new)

Next ==
    \/ Operation
    \/ \E from \in Account, amount \in Amounts : Deposit(from, amount)
    \/ Tick

Spec == Init /\ [][Next]_vars

-----------------------------------------------------------------------------
(* The same contract among others.  Tokens move in any way that takes none *)
(* out of this contract, many transfers at a time: the factory funds a     *)
(* batch, another stream settles, its recipient may be this contract.      *)
Elsewhere ==
    /\ bal' \in [Holder -> 0 .. I128Max]
    /\ bal'[Self] >= bal[Self]
    /\ UNCHANGED <<now, info, eventSeq, paid>>

OpenNext == Operation \/ Elsewhere \/ Tick
=============================================================================
