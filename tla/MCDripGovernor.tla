-------------------------- MODULE MCDripGovernor --------------------------
(* Two accounts, a contract that never signs, and a handful of parameter   *)
(* values for TLC.                                                         *)
EXTENDS DripGovernor, TLC

CONSTANTS ann, ben, vault

Accounts == {ann, ben}
Addresses == Accounts \cup {vault}
Interchangeable == Permutations(Accounts)
=============================================================================
