---------------------------- MODULE TokenLedger ----------------------------
(***************************************************************************)
(* The token contract a stream settles in, as far as the stream relies on  *)
(* it.  The contract itself is not part of the repository: the stream      *)
(* reaches it through soroban_sdk's token::Client, whose balance() is the  *)
(* value of the balance function and whose transfer() traps, and so undoes *)
(* the whole invocation, unless CanMove holds.                             *)
(***************************************************************************)
EXTENDS Integers

CONSTANT I128Max    \* largest balance a holder can have

ASSUME I128MaxAssumption == I128Max \in Nat

(***************************************************************************)
(* transfer(from, to, amt) succeeds: the amount is not negative, the payer *)
(* covers it, and the payee's balance still fits.                          *)
(***************************************************************************)
CanMove(b, from, to, amt) ==
    /\ amt \in 0 .. b[from]
    /\ to = from \/ b[to] + amt <= I128Max

Move(b, from, to, amt) ==
    [a \in DOMAIN b |->
        b[a] - (IF a = from THEN amt ELSE 0) + (IF a = to THEN amt ELSE 0)]
=============================================================================
