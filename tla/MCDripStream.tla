--------------------------- MODULE MCDripStream ---------------------------
(* Small streams for TLC: two signing addresses, a handful of seconds.   *)
EXTENDS StreamProperties

CONSTANTS alice, bob, contract

Accounts == {alice, bob}

(* A stream from alice, to bob or to herself.                              *)
OrderOf(recipients, rates, starts, ends) ==
    [sender : {alice}, recipient : recipients, rate : rates,
     start : starts, end : ends, clawback : BOOLEAN]

(* Well-formed and malformed terms, backdated and future starts.           *)
AllOrders == OrderOf({bob}, {0, 1, 2}, {0, 2}, {0, 1, 2, 3, 4})
OpenOrders == OrderOf({bob}, {1, 2}, {0, 2}, {0})
OpenOrStarted == OrderOf({bob}, {1, 2}, {0, 2}, {0, 3})

Holdings(escrows) ==
    {[a \in Accounts \cup {contract} |->
        IF a = alice THEN 4 ELSE IF a = bob THEN 0 ELSE e] : e \in escrows}

PartAndFull == Holdings({2, 6})
Escrowed == Holdings({4})

ToAnyone == Accounts \cup {contract}
=============================================================================
