--------------------------- MODULE MCDripFactory ---------------------------
(* A factory with up to three streams, one governor, two senders.          *)
EXTENDS DripFactory

CONSTANTS alice, bob, dao, factory, s0, s1, s2, s3, s4, dev

Streams == <<s0, s1, s2, s3, s4>>
StreamAddresses == [i \in 0 .. MaxStreams - 1 |-> Streams[i + 1]]

Everyone == {alice, bob, dao, factory} \cup {Streams[i] : i \in 1 .. MaxStreams}
Signers == {alice, bob}
SignersAndDao == Signers \cup {dao}

Funds == [a \in Everyone |-> IF a = alice THEN 3 ELSE IF a = bob THEN 2 ELSE 0]

Ask(to, deposit, rate, start, end) ==
    [recipient |-> to, deposit |-> deposit, rate |-> rate,
     start |-> start, end |-> end]

(* Funded for the term and not, backdated and not, open-ended, malformed.  *)
Singles == {Ask(bob, d, r, s, e) :
              d \in {0, 2}, r \in {0, 1, 2}, s \in {0, 1}, e \in {0, 1, 3}}

(* Batches whose second request fails on its own, on what the first took   *)
(* from the sender, or not at all; a batch too large and an empty one.     *)
Mixed == {<<>>,
          <<Ask(bob, 2, 1, 1, 3), Ask(alice, 1, 1, 1, 0)>>,
          <<Ask(bob, 2, 1, 1, 3), Ask(bob, 2, 1, 1, 3)>>,
          <<Ask(bob, 1, 1, 1, 0), Ask(bob, 2, 2, 1, 3)>>,
          <<Ask(bob, 1, 1, 1, 0), Ask(s0, 1, 1, 1, 2), Ask(bob, 1, 1, 1, 2)>>}

(* One well-formed stream at a time, or two.                               *)
Plain == {Ask(bob, 1, 1, 0, 0)}
Pairs == {<<Ask(bob, 1, 1, 0, 0), Ask(bob, 1, 1, 0, 0)>>}
RichFunds == [a \in Everyone |-> IF a = alice THEN MaxStreams ELSE 0]
=============================================================================
