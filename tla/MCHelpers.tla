----------------------------- MODULE MCHelpers -----------------------------
(* The two calculators of the repository side by side; they share nothing. *)
EXTENDS YieldRebate, BatchTransferProcessor, SequencesExt

(* A rate below, at, within and above the limits.                          *)
SomeRates == {-1, 0, 1, 3, 4}

SmallBatches == BoundedSeq({0, 2, 5}, 4)

Init == RebateInit /\ BatchInit

Next == \/ RebateNext /\ UNCHANGED batchVars
        \/ BatchNext /\ UNCHANGED rebateVars

Spec == Init /\ [][Next]_<<rebateVars, batchVars>>
=============================================================================
