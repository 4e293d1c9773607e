-------------------------- MODULE MCStreamStorage --------------------------
(* Two senders, two sets of terms, and every layout of an older contract.  *)
EXTENDS StreamStorage
=============================================================================
