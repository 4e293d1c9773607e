--------------------------- MODULE MCDripProtocol ---------------------------
(* Two streams that alice creates for bob in one batch, the first of them  *)
(* open-ended; the second is followed.                                     *)
EXTENDS DripProtocol

CONSTANTS alice, bob, dao, factory, s0, s1, dev

Streams == <<s0, s1>>
StreamAddresses == [i \in 0 .. MaxStreams - 1 |-> Streams[i + 1]]

Signers == {alice, bob}
Everyone == Signers \cup {dao, factory, s0, s1}

Funds == [a \in Everyone |-> IF a = alice THEN 5 ELSE 0]

Ask(to, deposit, rate, start, end) ==
    [recipient |-> to, deposit |-> deposit, rate |-> rate,
     start |-> start, end |-> end]

(* Over-funded, funded exactly, short of the term and open-ended, each     *)
(* after an open-ended stream in the same batch.                           *)
Terms == {Ask(bob, 4, 1, 1, 4), Ask(bob, 2, 2, 1, 2), Ask(bob, 3, 2, 0, 3),
          Ask(bob, 1, 1, 1, 0)}
Pairs == {<<Ask(bob, 1, 1, 0, 0), r>> : r \in Terms}
=============================================================================
