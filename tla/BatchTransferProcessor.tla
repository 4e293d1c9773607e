----------------------- MODULE BatchTransferProcessor -----------------------
(***************************************************************************)
(* The contract of src/batch_transfer_processor.rs: it adds up a batch of  *)
(* amounts behind a lock it sets and clears again.  The lock is kept in    *)
(* the instance storage; a call that returns an error is rolled back.      *)
(***************************************************************************)
EXTENDS Integers, Sequences

CONSTANTS
    BatchInputs,        \* sequences of u64 it is called with
    MaxAmounts,         \* 100
    BatchU64Max         \* largest u64

ASSUME BatchAssumption ==
    /\ MaxAmounts \in Nat /\ BatchU64Max \in Nat
    /\ BatchInputs \subseteq Seq(0 .. BatchU64Max)

VARIABLES
    locked,             \* B_Lock
    batch,              \* history: what the last call was given
    outcome             \* and what it returned

batchVars == <<locked, batch, outcome>>

(* The total after each amount, as long as it fits; -1 once it has not.    *)
Running(amounts) ==
    LET total[n \in 0 .. Len(amounts)] ==
            IF n = 0 THEN 0
            ELSE IF total[n - 1] = -1 \/ total[n - 1] + amounts[n] > BatchU64Max
                 THEN -1
                 ELSE total[n - 1] + amounts[n]
    IN  total

(* Fault: a loop that stops one amount early.                              *)
Total_Short(amounts) ==
    Running(amounts)[IF Len(amounts) = 0 THEN 0 ELSE Len(amounts) - 1]
Total(amounts) == Running(amounts)[Len(amounts)]

(* What a call does: the values it stores at B_Lock, in order, and what it *)
(* returns.  A processor found locked stores nothing.                      *)
Refused == [stores |-> <<>>, result |-> <<"ProcessorLocked">>]

(* Otherwise the lock is stored first, and cleared where the call returns. *)
(* Fault: the successful path returns without clearing it.                 *)
Answered_Held(result) ==
    [stores |-> IF result[1] = "Ok" THEN <<TRUE>> ELSE <<TRUE, FALSE>>,
     result |-> result]
Answered(result) == [stores |-> <<TRUE, FALSE>>, result |-> result]

Call(amounts) ==
    IF locked THEN Refused
    ELSE IF Len(amounts) > MaxAmounts THEN Answered(<<"BatchTooLarge">>)
    ELSE IF Total(amounts) = -1 THEN Answered(<<"CalculationOverflow">>)
    ELSE Answered(<<"Ok", Total(amounts)>>)

(* The lock once the invocation is over: the host keeps what a call that   *)
(* succeeds stored last, and undoes what one that fails stored.            *)
LockAfter(call) ==
    IF call.result[1] = "Ok" THEN call.stores[Len(call.stores)] ELSE locked

BatchInit == locked = FALSE /\ batch = <<>> /\ outcome = <<"Ok", 0>>

ProcessBatch(amounts) ==
    /\ batch' = amounts
    /\ outcome' = Call(amounts).result
    /\ locked' = LockAfter(Call(amounts))

BatchNext == \E amounts \in BatchInputs : ProcessBatch(amounts)

BatchSpec == BatchInit /\ [][BatchNext]_batchVars

-----------------------------------------------------------------------------
(* The sums of the first n amounts, in integers of any size.               *)
Sums(amounts) ==
    LET sum[n \in 0 .. Len(amounts)] ==
            IF n = 0 THEN 0 ELSE sum[n - 1] + amounts[n]
    IN  sum

(* The lock outlives the call that stored it, so each call has to leave it *)
(* free for the next.  After any calls, failed ones included, the answer   *)
(* depends on the batch alone: its sum if that fits and the batch is not   *)
(* too large, an error that says why otherwise, and never that the         *)
(* processor is locked.                                                    *)
OutcomeExact ==
    LET sum == Sums(batch)[Len(batch)] IN
    outcome = IF Len(batch) > MaxAmounts THEN <<"BatchTooLarge">>
              ELSE IF sum > BatchU64Max THEN <<"CalculationOverflow">>
              ELSE <<"Ok", sum>>
=============================================================================
