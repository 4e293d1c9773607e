---------------------------- MODULE StreamTerms ----------------------------
(***************************************************************************)
(* The terms of a stream: the arguments of initialize(), which of them it  *)
(* accepts and the record it stores.  Streams are deployed by the factory  *)
(* or directly, so both DripStream and DripFactory build on this module.   *)
(***************************************************************************)
EXTENDS Integers, TokenLedger

CONSTANTS
    Holder,     \* addresses: whatever can hold the token
    Account,    \* those of them that can sign
    U64Max      \* largest timestamp

(* The sender is somebody who can sign, as in every call of the factory.   *)
(* initialize() does not ask for it; a stream deployed directly for a      *)
(* sender that cannot sign does what others do when its sender is idle.    *)
Order == [sender : Account, recipient : Holder, rate : -I128Max .. I128Max,
          start : 0 .. U64Max, end : 0 .. U64Max, clawback : BOOLEAN]

StreamInfo ==
    [sender : Account, recipient : Holder, rate : 1 .. I128Max,
     start : 0 .. U64Max, end : 0 .. U64Max, withdrawn : 0 .. I128Max,
     pausedAt : 0 .. U64Max, paused : BOOLEAN, clawback : BOOLEAN,
     cancelled : BOOLEAN]

(* initialize() accepts an order.                                          *)
ValidOrder(o) == /\ o.rate > 0                              \* InvalidAmount
                 /\ o.end > 0 => o.end > o.start            \* InvalidTimeRange

(* The StreamInfo that initialize() stores for it.                         *)
NewStream(o) ==
    [sender |-> o.sender, recipient |-> o.recipient, rate |-> o.rate,
     start |-> o.start, end |-> o.end, withdrawn |-> 0, pausedAt |-> 0,
     paused |-> FALSE, clawback |-> o.clawback, cancelled |-> FALSE]
=============================================================================
