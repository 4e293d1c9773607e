------------------------- MODULE DripFactoryProofs -------------------------
(* The factory's invariants, for any requests, batches of any length, any  *)
(* number of streams and any governor parameters.                          *)
EXTENDS DripFactory, WellFoundedInduction, SequenceTheorems, TLAPS

-----------------------------------------------------------------------------
(* Induction by the least counterexample.                                  *)

LEMMA LeastElement ==
    ASSUME NEW T \in SUBSET Nat, T # {}
    PROVE  \E m \in T : \A n \in T : m <= n
<1> DEFINE R == {ss \in Nat \X Nat : ss[1] < ss[2]}
<1>1. IsWellFoundedOn(R, Nat)
    BY NatLessThanWellFounded DEF OpToRel
<1>2. PICK x \in T : \A y \in T : ~ (<<y, x>> \in R)
    <2> HIDE DEF R
    <2> QED BY <1>1, WFMin
<1>3. ASSUME NEW y \in T PROVE x <= y
    <2>1. x \in Nat /\ y \in Nat /\ <<y, x>> \notin R
        BY <1>2
    <2>2. <<y, x>> \in Nat \X Nat /\ <<y, x>>[1] = y /\ <<y, x>>[2] = x
        BY <2>1
    <2>3. ~ (y < x)
        BY <2>1, <2>2
    <2> QED BY <2>1, <2>3
<1> QED BY <1>3

(* A batch is what its requests make of the book one after another.        *)
LEMMA BatchUnfolds ==
    ASSUME NEW sender, NEW requests \in Seq(Request), NEW clawback
    PROVE  LET after == BookAfter(sender, requests, clawback)
           IN  /\ after[0] = Book
               /\ \A n \in 1 .. Len(requests) :
                     after[n] = Created(after[n - 1], sender, requests[n], clawback)
<1> DEFINE Then(b, n) == Created(b, sender, requests[n], clawback)
           Ok(g, m) == g = [n \in 0 .. m |-> IF n = 0 THEN Book ELSE Then(g[n - 1], n)]
           Bad == {m \in Nat : ~ \E g : Ok(g, m)}
           N == Len(requests)
           after == BookAfter(sender, requests, clawback)
<1>0. N \in Nat
    OBVIOUS
<1>1. after = CHOOSE g : Ok(g, N)
    BY DEF BookAfter
<1> HIDE DEF Then, N, after
<1>2. Bad = {}
    <2> SUFFICES ASSUME Bad # {} PROVE FALSE
        OBVIOUS
    <2>1. PICK m \in Bad : \A n \in Bad : m <= n
        BY LeastElement
    <2>2. m # 0
        <3>1. Ok([n \in 0 .. 0 |-> Book], 0)
            OBVIOUS
        <3> QED BY <3>1
    <2>3. m \in Nat /\ m - 1 \in Nat /\ m - 1 < m
        BY <2>2
    <2>4. m - 1 \notin Bad
        <3> HIDE DEF Bad
        <3> QED BY <2>1, <2>3
    <2>5. PICK g : Ok(g, m - 1)
        BY <2>3, <2>4
    <2> DEFINE h == [n \in 0 .. m |-> IF n < m THEN g[n] ELSE Then(g[m - 1], m)]
    <2>6. ASSUME NEW n \in 0 .. m
          PROVE  h[n] = IF n = 0 THEN Book ELSE Then(h[n - 1], n)
        <3>1. CASE n = m
            BY <2>2, <2>3, <3>1
        <3>2. CASE n # m
            <4>1. n \in 0 .. m - 1 /\ h[n] = g[n] /\ (n # 0 => h[n - 1] = g[n - 1])
                BY <2>3, <3>2
            <4>2. g[n] = IF n = 0 THEN Book ELSE Then(g[n - 1], n)
                BY <2>5, <4>1
            <4> QED BY <4>1, <4>2
        <3> QED BY <3>1, <3>2
    <2>7. Ok(h, m)
        <3> DEFINE k == [n \in 0 .. m |-> IF n = 0 THEN Book ELSE Then(h[n - 1], n)]
        <3>1. \A n \in 0 .. m : h[n] = k[n]
            BY <2>6
        <3>2. h = k
            BY <3>1
        <3> QED BY <3>2
    <2> QED BY <2>1, <2>7
<1>3. \E g : Ok(g, N)
    BY <1>0, <1>2
<1>4. Ok(after, N)
    BY <1>1, <1>3
<1>5. after[0] = Book /\ \A n \in 1 .. N : after[n] = Then(after[n - 1], n)
    BY <1>0, <1>4
<1> QED BY <1>5 DEF Then, N, after

-----------------------------------------------------------------------------
(* A book whose registry is exact: the part of the state that creating     *)
(* streams changes.  Ids are bound to StreamAt, so that they are distinct. *)
IdsOf(b) == 0 .. b.registry.count - 1

ExactIndex(index, ids) ==
    /\ index \in Seq(ids) /\ Increasing(index)
    /\ {index[i] : i \in 1 .. Len(index)} = ids

ExactRegistry(b) ==
    /\ b.registry.count \in 0 .. MaxStreams
    /\ b.registry.addr = [i \in IdsOf(b) |-> StreamAt[i]]
    /\ DOMAIN b.deployed = {StreamAt[i] : i \in IdsOf(b)}
    /\ \A a \in DOMAIN b.deployed : b.deployed[a] \in Order
    /\ b.registry.bySender = [a \in Holder |-> b.registry.bySender[a]]
    /\ b.registry.byRecipient = [a \in Holder |-> b.registry.byRecipient[a]]
    /\ \A a \in Holder :
          /\ ExactIndex(b.registry.bySender[a],
                        {id \in IdsOf(b) : b.deployed[StreamAt[id]].sender = a})
          /\ ExactIndex(b.registry.byRecipient[a],
                        {id \in IdsOf(b) : b.deployed[StreamAt[id]].recipient = a})

LEMMA AppendExact ==
    ASSUME NEW N \in Nat, NEW ids \in SUBSET (0 .. N - 1), NEW index,
           ExactIndex(index, ids)
    PROVE  ExactIndex(Append(index, N), ids \cup {N})
<1> DEFINE more == Append(index, N)
<1>1. /\ index \in Seq(ids) /\ Len(index) \in Nat
      /\ \A i \in 1 .. Len(index) : index[i] \in ids
    BY DEF ExactIndex
<1>2. /\ more \in Seq(ids \cup {N}) /\ Len(more) = Len(index) + 1
      /\ more[Len(index) + 1] = N
      /\ \A i \in 1 .. Len(index) : more[i] = index[i]
    BY <1>1
<1> HIDE DEF more
<1>3. Increasing(more)
    <2> SUFFICES ASSUME NEW i \in 1 .. Len(more), NEW j \in 1 .. Len(more), i < j
                 PROVE  more[i] < more[j]
        BY DEF Increasing
    <2>0. i \in 1 .. Len(index)
        BY <1>1, <1>2
    <2>1. more[i] = index[i] /\ index[i] \in 0 .. N - 1
        BY <1>1, <1>2, <2>0
    <2>2. CASE j = Len(index) + 1
        BY <1>2, <2>1, <2>2
    <2>3. CASE j # Len(index) + 1
        <3>1. j \in 1 .. Len(index)
            BY <1>1, <1>2, <2>3
        <3> QED BY <1>2, <2>0, <2>1, <3>1 DEF ExactIndex, Increasing
    <2> QED BY <2>2, <2>3
<1>4. {more[i] : i \in 1 .. Len(more)} = ids \cup {N}
    <2>1. ASSUME NEW x \in ids PROVE \E i \in 1 .. Len(more) : more[i] = x
        <3>1. PICK i \in 1 .. Len(index) : index[i] = x
            BY <2>1 DEF ExactIndex
        <3> QED BY <1>1, <1>2, <3>1
    <2>2. Len(index) + 1 \in 1 .. Len(more)
        BY <1>1, <1>2
    <2>3. \A i \in 1 .. Len(more) : more[i] \in ids \cup {N}
        BY <1>1, <1>2
    <2> QED BY <1>2, <2>1, <2>2, <2>3
<1> QED BY <1>2, <1>3, <1>4 DEF ExactIndex, more

(* What can be said of a stream that a call has just created.              *)
WellBorn(o, funds) ==
    LET term == IF o.end > 0 THEN o.end - o.start ELSE 1 IN
    /\ o \in Order /\ ValidOrder(o)
    /\ term > 0 /\ o.start >= now
    /\ funds >= o.rate * term

LEMMA WellBornMore ==
    ASSUME NEW o, NEW funds \in Int, NEW more \in Int, more >= funds,
           WellBorn(o, funds)
    PROVE  WellBorn(o, more)
<1> DEFINE term == IF o.end > 0 THEN o.end - o.start ELSE 1
<1>1. /\ o.rate \in Int /\ o.start \in Int /\ o.end \in Int
    BY I128MaxAssumption, FactoryBoundAssumption DEF WellBorn, Order
<1>2. o.rate * term \in Int
    BY <1>1
<1>3. more >= o.rate * term
    BY <1>2 DEF WellBorn
<1> QED BY <1>3 DEF WellBorn

BalancesOf(b) == b.bal \in [Holder -> 0 .. I128Max]

LEMMA CreateMoves ==
    ASSUME NEW b, BalancesOf(b), ExactRegistry(b),
           NEW sender \in Account, NEW r \in Request, NEW clawback \in BOOLEAN,
           CanCreate(b, sender, r, clawback)
    PROVE  LET address == StreamAt[b.registry.count]
               c == Created(b, sender, r, clawback)
           IN  /\ BalancesOf(c)
               /\ c.bal[Factory] = b.bal[Factory]
               /\ c.bal[address] = b.bal[address] + r.deposit
               /\ \A a \in Holder \ {sender, address, Factory} : c.bal[a] = b.bal[a]
<1> DEFINE N == b.registry.count
           address == StreamAt[N]
           pulled == Pulled(b, sender, r)
           c == Created(b, sender, r, clawback)
<1>1. /\ N \in 0 .. MaxStreams - 1 /\ r.deposit \in 1 .. I128Max
    BY FactoryBoundAssumption, I128MaxAssumption
    DEF CanCreate, ExactRegistry, ValidRequest, Request
<1>2. /\ address \in Holder /\ address # sender /\ address # Factory
      /\ sender \in Holder /\ Factory \in Holder /\ sender # Factory
    BY <1>1, FactoryAddressAssumption
<1>3. /\ r.deposit <= b.bal[sender] /\ b.bal[Factory] + r.deposit <= I128Max
      /\ pulled[address] + r.deposit <= I128Max
    BY <1>2 DEF CanCreate, CanPull, CanMove
<1>4. /\ DOMAIN b.bal = Holder /\ \A a \in Holder : b.bal[a] \in 0 .. I128Max
    BY DEF BalancesOf
<1>5. pulled = [a \in Holder |->
                  b.bal[a] - (IF a = sender THEN r.deposit ELSE 0)
                           + (IF a = Factory THEN r.deposit ELSE 0)]
    BY <1>4 DEF Pulled, Move
<1>6. c.bal = [a \in Holder |->
                 pulled[a] - (IF a = Factory THEN r.deposit ELSE 0)
                           + (IF a = address THEN r.deposit ELSE 0)]
    BY <1>5 DEF Created, Move
<1> HIDE DEF pulled, c, address, N
<1>7. ASSUME NEW a \in Holder
      PROVE  c.bal[a] = b.bal[a] - (IF a = sender THEN r.deposit ELSE 0)
                                 + (IF a = address THEN r.deposit ELSE 0)
    <2>1. b.bal[a] \in Int /\ r.deposit \in Int
        BY <1>1, <1>4
    <2> QED BY <1>2, <1>5, <1>6, <2>1
<1>8. ASSUME NEW a \in Holder PROVE c.bal[a] \in 0 .. I128Max
    <2>1. pulled[address] = b.bal[address]
        BY <1>1, <1>2, <1>4, <1>5
    <2> QED BY <1>1, <1>2, <1>3, <1>4, <1>7, <2>1, I128MaxAssumption
<1>9. BalancesOf(c)
    BY <1>6, <1>8 DEF BalancesOf
<1>10. /\ c.bal[Factory] = b.bal[Factory]
       /\ c.bal[address] = b.bal[address] + r.deposit
       /\ \A a \in Holder \ {sender, address, Factory} : c.bal[a] = b.bal[a]
    BY <1>1, <1>2, <1>4, <1>7
<1> QED BY <1>9, <1>10 DEF c, address, N

(* Creating a stream keeps the registry exact, and the stream is well born. *)
LEMMA CreateRegisters ==
    ASSUME NEW b, BalancesOf(b), ExactRegistry(b),
           NEW sender \in Account, NEW r \in Request, NEW clawback \in BOOLEAN,
           CanCreate(b, sender, r, clawback)
    PROVE  LET address == StreamAt[b.registry.count]
               c == Created(b, sender, r, clawback)
           IN  /\ ExactRegistry(c)
               /\ c.registry.count = b.registry.count + 1
               /\ address \notin DOMAIN b.deployed
               /\ DOMAIN c.deployed = DOMAIN b.deployed \cup {address}
               /\ \A a \in DOMAIN b.deployed : c.deployed[a] = b.deployed[a]
               /\ WellBorn(c.deployed[address], r.deposit)
<1> DEFINE N == b.registry.count
           address == StreamAt[N]
           order == OrderFor(sender, r, clawback)
           c == Created(b, sender, r, clawback)
<1>1. N \in 0 .. MaxStreams - 1 /\ N \in Nat /\ IdsOf(b) = 0 .. N - 1
    BY FactoryBoundAssumption DEF CanCreate, ExactRegistry, IdsOf
<1>2. address \notin DOMAIN b.deployed /\ ValidOrder(order)
    BY DEF CanCreate, CanDeploy
<1>3. /\ order \in Order /\ order.sender = sender /\ order.recipient = r.recipient
      /\ order.rate = r.rate /\ order.start = r.start /\ order.end = r.end
      /\ sender \in Holder /\ r.recipient \in Holder
    BY FactoryAddressAssumption DEF OrderFor, Order, Request
<1>4. /\ c.registry = Registered(b.registry, sender, r.recipient, address)
      /\ c.deployed = [a \in DOMAIN b.deployed \cup {address} |->
                         IF a = address THEN order ELSE b.deployed[a]]
    BY DEF Created
<1> HIDE DEF c, order
<1>5. /\ c.registry.count = N + 1
      /\ c.registry.addr = [i \in 0 .. N |-> IF i = N THEN address ELSE b.registry.addr[i]]
      /\ c.registry.bySender
           = [b.registry.bySender EXCEPT ![sender] = Append(@, N)]
      /\ c.registry.byRecipient
           = [b.registry.byRecipient EXCEPT ![r.recipient] = Append(@, N)]
    BY <1>4 DEF Registered, IndexedForRecipient
<1>6. IdsOf(c) = 0 .. N /\ IdsOf(c) = IdsOf(b) \cup {N} /\ N \notin IdsOf(b)
    BY <1>1, <1>5 DEF IdsOf
<1>7. c.registry.addr = [i \in IdsOf(c) |-> StreamAt[i]]
    BY <1>1, <1>5, <1>6 DEF ExactRegistry
<1>8. DOMAIN c.deployed = {StreamAt[i] : i \in IdsOf(c)}
    BY <1>4, <1>6 DEF ExactRegistry
<1>9. /\ c.deployed[address] = order
      /\ \A a \in DOMAIN b.deployed : c.deployed[a] = b.deployed[a]
      /\ \A i \in IdsOf(b) : StreamAt[i] \in DOMAIN b.deployed
    BY <1>2, <1>4 DEF ExactRegistry
<1>10. \A a \in DOMAIN c.deployed : c.deployed[a] \in Order
    BY <1>3, <1>4 DEF ExactRegistry
<1> DEFINE SenderIds(k, a) == {id \in IdsOf(k) : k.deployed[StreamAt[id]].sender = a}
           RecipientIds(k, a) == {id \in IdsOf(k) : k.deployed[StreamAt[id]].recipient = a}
<1>11. ASSUME NEW a \in Holder
       PROVE  /\ SenderIds(c, a) = SenderIds(b, a) \cup (IF a = sender THEN {N} ELSE {})
              /\ RecipientIds(c, a)
                   = RecipientIds(b, a) \cup (IF a = r.recipient THEN {N} ELSE {})
    BY <1>3, <1>6, <1>9
<1>12. ASSUME NEW a \in Holder
       PROVE  /\ ExactIndex(c.registry.bySender[a], SenderIds(c, a))
              /\ ExactIndex(c.registry.byRecipient[a], RecipientIds(c, a))
    <2>1. /\ ExactIndex(b.registry.bySender[a], SenderIds(b, a))
          /\ ExactIndex(b.registry.byRecipient[a], RecipientIds(b, a))
          /\ SenderIds(b, a) \in SUBSET (0 .. N - 1)
          /\ RecipientIds(b, a) \in SUBSET (0 .. N - 1)
        BY <1>1 DEF ExactRegistry
    <2>2. /\ c.registry.bySender[a] = IF a = sender THEN Append(b.registry.bySender[a], N)
                                                    ELSE b.registry.bySender[a]
          /\ c.registry.byRecipient[a]
               = IF a = r.recipient THEN Append(b.registry.byRecipient[a], N)
                                    ELSE b.registry.byRecipient[a]
        BY <1>5 DEF ExactRegistry
    <2> HIDE DEF SenderIds, RecipientIds
    <2>3. ExactIndex(c.registry.bySender[a], SenderIds(c, a))
        <3>1. CASE a = sender
            <4>1. /\ SenderIds(c, a) = SenderIds(b, a) \cup {N}
                  /\ c.registry.bySender[a] = Append(b.registry.bySender[a], N)
                BY <1>11, <2>2, <3>1
            <4> QED BY <1>1, <2>1, <4>1, AppendExact
        <3>2. CASE a # sender
            BY <1>11, <2>1, <2>2, <3>2
        <3> QED BY <3>1, <3>2
    <2>4. ExactIndex(c.registry.byRecipient[a], RecipientIds(c, a))
        BY <1>1, <1>11, <2>1, <2>2, AppendExact
    <2> QED BY <2>3, <2>4
<1>13. /\ c.registry.bySender = [a \in Holder |-> c.registry.bySender[a]]
       /\ c.registry.byRecipient = [a \in Holder |-> c.registry.byRecipient[a]]
    BY <1>5 DEF ExactRegistry
<1>14. c.registry.count \in 0 .. MaxStreams
    BY <1>1, <1>5, FactoryBoundAssumption
<1>15. ExactRegistry(c)
    BY <1>7, <1>8, <1>10, <1>12, <1>13, <1>14 DEF ExactRegistry
<1>16. WellBorn(order, r.deposit)
    <2>1. /\ r.rate > 0 /\ r.deposit >= r.rate /\ r.start >= now
          /\ r.end > 0 => r.end > r.start
          /\ r.end > 0 => r.deposit >= r.rate * (r.end - r.start)
        BY DEF CanCreate, ValidRequest, FundsTerm
    <2>2. r.rate \in Int /\ r.end \in Nat /\ r.start \in Nat /\ r.deposit \in Int
        BY FactoryBoundAssumption, I128MaxAssumption DEF Request
    <2>3. r.rate * 1 = r.rate
        BY <2>2
    <2> QED BY <1>2, <1>3, <2>1, <2>2, <2>3 DEF WellBorn
<1> QED BY <1>2, <1>4, <1>5, <1>9, <1>15, <1>16 DEF c

-----------------------------------------------------------------------------
(* A call that creates streams, seen from the state it starts in.          *)

(* What the requests done so far have made of the book of this state.      *)
Grown(b) ==
    /\ BalancesOf(b) /\ ExactRegistry(b)
    /\ b.registry.count >= registry.count
    /\ b.bal[Factory] = bal[Factory]
    /\ \A id \in 0 .. MaxStreams - 1 : b.bal[StreamAt[id]] >= bal[StreamAt[id]]
    /\ DOMAIN deployed \subseteq DOMAIN b.deployed
    /\ \A a \in DOMAIN deployed : b.deployed[a] = deployed[a]
    /\ \A a \in DOMAIN b.deployed \ DOMAIN deployed :
          WellBorn(b.deployed[a], b.bal[a])

(* The registry part of the invariant.                                     *)
RegistryInv == BalancesOf(Book) /\ ExactRegistry(Book)

LEMMA StartsGrown == ASSUME RegistryInv PROVE Grown(Book)
<1>1. /\ Book.registry = registry /\ Book.bal = bal /\ Book.deployed = deployed
    BY DEF Book
<1>2. ASSUME NEW a \in Holder PROVE bal[a] \in Int
    BY <1>1, I128MaxAssumption DEF RegistryInv, BalancesOf
<1>3. registry.count \in Int
    BY <1>1, FactoryBoundAssumption DEF RegistryInv, ExactRegistry
<1>4. \A id \in 0 .. MaxStreams - 1 : StreamAt[id] \in Holder
    BY FactoryAddressAssumption
<1> QED BY <1>1, <1>2, <1>3, <1>4 DEF Grown, RegistryInv

LEMMA KeepsGrowing ==
    ASSUME NEW b, Grown(b), RegistryInv,
           NEW sender \in Account, NEW r \in Request, NEW clawback \in BOOLEAN,
           CanCreate(b, sender, r, clawback)
    PROVE  Grown(Created(b, sender, r, clawback))
<1> DEFINE N == b.registry.count
           address == StreamAt[N]
           c == Created(b, sender, r, clawback)
<1>1. BalancesOf(b) /\ ExactRegistry(b)
    BY DEF Grown
<1>2. /\ BalancesOf(c)
      /\ c.bal[Factory] = b.bal[Factory]
      /\ c.bal[address] = b.bal[address] + r.deposit
      /\ \A a \in Holder \ {sender, address, Factory} : c.bal[a] = b.bal[a]
    BY <1>1, CreateMoves
<1>3. /\ ExactRegistry(c)
      /\ c.registry.count = b.registry.count + 1
      /\ address \notin DOMAIN b.deployed
      /\ DOMAIN c.deployed = DOMAIN b.deployed \cup {address}
      /\ \A a \in DOMAIN b.deployed : c.deployed[a] = b.deployed[a]
      /\ WellBorn(c.deployed[address], r.deposit)
    BY <1>1, CreateRegisters
<1>4. /\ N \in 0 .. MaxStreams /\ N < MaxStreams /\ registry.count \in Int
      /\ r.deposit \in Int /\ r.deposit > 0
    BY <1>1, FactoryBoundAssumption, I128MaxAssumption
    DEF CanCreate, ValidRequest, Request, ExactRegistry, RegistryInv, Book
<1>5. /\ \A id \in 0 .. MaxStreams - 1 :
            StreamAt[id] \in Holder /\ StreamAt[id] # sender /\ StreamAt[id] # Factory
      /\ N \in 0 .. MaxStreams - 1 /\ address \in Holder
    BY <1>4, FactoryAddressAssumption, FactoryBoundAssumption
<1>6. \A a \in Holder : b.bal[a] \in Nat /\ c.bal[a] \in Nat /\ bal[a] \in Nat
    BY <1>1, <1>2, I128MaxAssumption DEF BalancesOf, RegistryInv, Book
<1>7. address \in Holder /\ Factory \in Holder
    BY <1>5, FactoryAddressAssumption
<1> HIDE DEF c, address, N
<1>8. ASSUME NEW a \in Holder, a # sender, a # Factory PROVE c.bal[a] >= b.bal[a]
    BY <1>2, <1>4, <1>6, <1>7, <1>8
<1>9. \A id \in 0 .. MaxStreams - 1 : c.bal[StreamAt[id]] >= bal[StreamAt[id]]
    <2> SUFFICES ASSUME NEW id \in 0 .. MaxStreams - 1
                 PROVE  c.bal[StreamAt[id]] >= bal[StreamAt[id]]
        OBVIOUS
    <2>1. c.bal[StreamAt[id]] >= b.bal[StreamAt[id]]
        BY <1>5, <1>8
    <2>2. b.bal[StreamAt[id]] >= bal[StreamAt[id]]
        BY DEF Grown
    <2> QED BY <1>5, <1>6, <2>1, <2>2
<1>10. ASSUME NEW a \in DOMAIN c.deployed \ DOMAIN deployed
       PROVE  WellBorn(c.deployed[a], c.bal[a])
    <2>1. CASE a = address
        <3>1. c.bal[a] >= r.deposit /\ c.bal[a] \in Nat
            BY <1>2, <1>4, <1>6, <1>7, <2>1
        <3>2. WellBorn(c.deployed[a], r.deposit)
            BY <1>3, <2>1
        <3> QED BY <1>4, <3>1, <3>2, WellBornMore
    <2>2. CASE a # address
        <3>1. a \in DOMAIN b.deployed /\ c.deployed[a] = b.deployed[a]
            BY <1>3, <2>2
        <3>2. WellBorn(c.deployed[a], b.bal[a])
            BY <3>1 DEF Grown
        <3>3. PICK id \in IdsOf(b) : a = StreamAt[id]
            BY <1>1, <3>1 DEF ExactRegistry
        <3>4. id \in 0 .. MaxStreams - 1
            BY <1>1, <3>3, FactoryBoundAssumption DEF ExactRegistry, IdsOf
        <3>5. a \in Holder /\ c.bal[a] >= b.bal[a]
            BY <1>5, <1>8, <3>3, <3>4
        <3> QED BY <1>6, <3>2, <3>5, WellBornMore
    <2> QED BY <2>1, <2>2
<1>11. c.registry.count >= registry.count
    BY <1>3, <1>4 DEF Grown, N
<1>12. /\ DOMAIN deployed \subseteq DOMAIN c.deployed
       /\ \A a \in DOMAIN deployed : c.deployed[a] = deployed[a]
       /\ c.bal[Factory] = bal[Factory]
    BY <1>2, <1>3 DEF Grown
<1> QED BY <1>2, <1>3, <1>9, <1>10, <1>11, <1>12 DEF Grown, c

(* Whatever the batch, the call as a whole only lets the book grow.        *)
NextBook == [bal |-> bal', registry |-> registry', deployed |-> deployed']

(* What is said of a book depends on its three parts only.                 *)
LEMMA SameRegistry ==
    ASSUME NEW b, NEW c, ExactRegistry(b),
           c.registry = b.registry, c.deployed = b.deployed
    PROVE  ExactRegistry(c)
<1>1. IdsOf(c) = IdsOf(b)
    BY DEF IdsOf
<1> QED BY <1>1 DEF ExactRegistry

LEMMA SameGrown ==
    ASSUME NEW b, NEW c, Grown(b), c.bal = b.bal,
           c.registry = b.registry, c.deployed = b.deployed
    PROVE  Grown(c)
<1>1. BalancesOf(c)
    BY DEF Grown, BalancesOf
<1>2. ExactRegistry(c)
    BY SameRegistry DEF Grown
<1> QED BY <1>1, <1>2 DEF Grown

LEMMA BatchGrows ==
    ASSUME RegistryInv,
           NEW sender \in Account, NEW requests \in Seq(Request),
           NEW clawback \in BOOLEAN, CreateAll(sender, requests, clawback)
    PROVE  \A n \in 0 .. Len(requests) :
               Grown(BookAfter(sender, requests, clawback)[n])
<1> DEFINE after == BookAfter(sender, requests, clawback)
           N == Len(requests)
           Bad == {n \in 0 .. N : ~ Grown(after[n])}
<1>1. /\ after[0] = Book
      /\ \A n \in 1 .. N : after[n] = Created(after[n - 1], sender, requests[n], clawback)
    BY BatchUnfolds
<1>2. \A n \in 1 .. N : CanCreate(after[n - 1], sender, requests[n], clawback)
    BY DEF CreateAll
<1>3. N \in Nat /\ \A n \in 1 .. N : requests[n] \in Request
    OBVIOUS
<1> HIDE DEF after, N
<1>4. Bad = {}
    <2> SUFFICES ASSUME Bad # {} PROVE FALSE
        OBVIOUS
    <2>1. PICK m \in Bad : \A n \in Bad : m <= n
        <3>1. Bad \in SUBSET Nat
            BY <1>3
        <3> HIDE DEF Bad
        <3> QED BY <3>1, LeastElement
    <2>2. m # 0
        BY <1>1, StartsGrown
    <2>3. m \in 1 .. N /\ m - 1 \in 0 .. N /\ m - 1 < m
        BY <1>3, <2>2
    <2>4. m - 1 \notin Bad
        <3> HIDE DEF Bad
        <3> QED BY <2>1, <2>3
    <2>5. Grown(after[m - 1])
        BY <2>3, <2>4
    <2>6. Grown(Created(after[m - 1], sender, requests[m], clawback))
        BY <1>2, <1>3, <2>3, <2>5, KeepsGrowing
    <2> QED BY <1>1, <2>3, <2>6
<1> QED BY <1>4 DEF after, N

LEMMA CreateAllGrows ==
    ASSUME RegistryInv,
           NEW sender \in Account, NEW requests \in Seq(Request),
           NEW clawback \in BOOLEAN, CreateAll(sender, requests, clawback)
    PROVE  Grown(NextBook)
<1> DEFINE last == BookAfter(sender, requests, clawback)[Len(requests)]
<1>1. Grown(last)
    BY BatchGrows
<1>2. bal' = last.bal /\ registry' = last.registry /\ deployed' = last.deployed
    BY DEF CreateAll
<1> HIDE DEF last
<1>3. /\ NextBook.bal = last.bal /\ NextBook.registry = last.registry
      /\ NextBook.deployed = last.deployed
    BY <1>2 DEF NextBook
<1> QED BY <1>1, <1>3, SameGrown

LEMMA CallsGrow == ASSUME RegistryInv, Calls PROVE Grown(NextBook)
<1>1. ASSUME NEW sender \in Account, NEW r \in Requests, NEW clawback \in BOOLEAN,
             CreateStream(sender, r, clawback)
      PROVE  Grown(NextBook)
    <2>1. <<r>> \in Seq(Request)
        BY FactoryInputAssumption
    <2> QED BY <1>1, <2>1, CreateAllGrows DEF CreateStream
<1>2. ASSUME NEW sender \in Account, NEW requests \in Batches,
             NEW clawback \in BOOLEAN,
             CreateBatchStreams(sender, requests, clawback)
      PROVE  Grown(NextBook)
    <2>1. requests \in Seq(Request)
        BY FactoryInputAssumption
    <2> QED BY <1>2, <2>1, CreateAllGrows DEF CreateBatchStreams
<1>3. CASE UNCHANGED registryVars
    <2>1. NextBook = Book
        BY <1>3 DEF NextBook, Book, registryVars
    <2> QED BY <2>1, StartsGrown
<1> QED BY <1>1, <1>2, <1>3
        DEF Calls, Initialize, UpgradeStreamWasm, Pause, Unpause, SetPaused,
            GovernorStep

LEMMA TransferKeepsBalances ==
    ASSUME BalancesOf(Book), NEW from \in Holder, NEW to \in Holder,
           NEW amount \in Transfers, CanMove(bal, from, to, amount),
           bal' = Move(bal, from, to, amount)
    PROVE  bal' \in [Holder -> 0 .. I128Max]
<1>1. bal \in [Holder -> 0 .. I128Max] /\ amount \in 1 .. I128Max
    BY FactoryInputAssumption DEF BalancesOf, Book
<1>2. DOMAIN bal' = Holder /\ bal' = [a \in Holder |->
                  bal[a] - (IF a = from THEN amount ELSE 0)
                         + (IF a = to THEN amount ELSE 0)]
    BY <1>1 DEF Move
<1>3. ASSUME NEW a \in Holder PROVE bal'[a] \in 0 .. I128Max
    BY <1>1, <1>2, I128MaxAssumption DEF CanMove
<1> QED BY <1>2, <1>3

LEMMA InitRegistry == Init => RegistryInv
<1> SUFFICES ASSUME Init PROVE RegistryInv
    OBVIOUS
<1>1. /\ Book.registry.count = 0 /\ Book.registry.addr = <<>>
      /\ Book.registry.bySender = [a \in Holder |-> <<>>]
      /\ Book.registry.byRecipient = [a \in Holder |-> <<>>]
      /\ Book.deployed = <<>> /\ Book.bal = InitialFunds
    BY DEF Book, Init
<1>2. IdsOf(Book) = {}
    BY <1>1 DEF IdsOf
<1>3. ExactIndex(<<>>, {})
    BY DEF ExactIndex, Increasing
<1>4. BalancesOf(Book)
    BY <1>1, FactoryInputAssumption DEF BalancesOf
<1>5. ExactRegistry(Book)
    BY <1>1, <1>2, <1>3, FactoryBoundAssumption DEF ExactRegistry
<1> QED BY <1>4, <1>5 DEF RegistryInv

LEMMA NextRegistry == RegistryInv /\ [Next]_vars => RegistryInv'
<1> SUFFICES ASSUME RegistryInv, [Next]_vars PROVE RegistryInv'
    OBVIOUS
<1>0. /\ Book'.bal = bal' /\ Book'.registry = registry' /\ Book'.deployed = deployed'
      /\ NextBook.bal = bal' /\ NextBook.registry = registry'
      /\ NextBook.deployed = deployed'
      /\ Book.bal = bal /\ Book.registry = registry /\ Book.deployed = deployed
    BY DEF Book, NextBook
<1> DEFINE NextInv == BalancesOf(NextBook) /\ ExactRegistry(NextBook)
<1>a. NextInv => RegistryInv'
    BY DEF RegistryInv, BalancesOf, ExactRegistry, IdsOf, Book, NextBook
<1>1. ASSUME Calls PROVE RegistryInv'
    <2>1. Grown(NextBook)
        BY <1>1, CallsGrow
    <2> QED BY <1>a, <2>1 DEF Grown
<1>2. ASSUME NEW from \in Holder \ {Factory}, NEW to \in Holder \ {Factory},
             NEW amount \in Transfers, Transfer(from, to, amount)
      PROVE  RegistryInv'
    <2>1. bal' \in [Holder -> 0 .. I128Max]
        BY <1>2, TransferKeepsBalances DEF Transfer, RegistryInv
    <2>2. registry' = registry /\ deployed' = deployed
        BY <1>2 DEF Transfer
    <2>3. BalancesOf(NextBook)
        BY <1>0, <2>1 DEF BalancesOf
    <2>4. ExactRegistry(NextBook)
        BY <1>0, <2>2, SameRegistry DEF RegistryInv
    <2> QED BY <1>a, <2>3, <2>4
<1>3. CASE UNCHANGED registryVars
    <2>1. NextBook = Book
        BY <1>3 DEF NextBook, Book, registryVars
    <2> QED BY <1>a, <2>1 DEF RegistryInv
<1> QED BY <1>1, <1>2, <1>3 DEF Next, Tick, vars

LEMMA RegistryAlways == Spec => []RegistryInv
<1> QED BY InitRegistry, NextRegistry, PTL DEF Spec

-----------------------------------------------------------------------------
LEMMA RegistryShows ==
    ASSUME RegistryInv PROVE RegistryExact
<1>1. /\ Ids = IdsOf(Book) /\ Ids \subseteq 0 .. MaxStreams - 1
      /\ Book.registry = registry /\ Book.deployed = deployed
    BY FactoryBoundAssumption
    DEF Ids, IdsOf, Book, RegistryInv, ExactRegistry
<1>2. registry.addr = [i \in Ids |-> StreamAt[i]]
    BY <1>1 DEF RegistryInv, ExactRegistry
<1>3. DOMAIN deployed = {registry.addr[id] : id \in Ids}
    BY <1>1, <1>2 DEF RegistryInv, ExactRegistry
<1>4. \A i, j \in Ids : registry.addr[i] = registry.addr[j] => i = j
    BY <1>1, <1>2, FactoryAddressAssumption
<1>5. ASSUME NEW a \in Holder
      PROVE  /\ Holds(registry.bySender[a],
                      {id \in Ids : deployed[registry.addr[id]].sender = a})
             /\ Holds(registry.byRecipient[a],
                      {id \in Ids : deployed[registry.addr[id]].recipient = a})
    <2>1. /\ {id \in Ids : deployed[registry.addr[id]].sender = a}
               = {id \in Ids : deployed[StreamAt[id]].sender = a}
          /\ {id \in Ids : deployed[registry.addr[id]].recipient = a}
               = {id \in Ids : deployed[StreamAt[id]].recipient = a}
        BY <1>2
    <2>2. /\ ExactIndex(registry.bySender[a],
                        {id \in Ids : deployed[StreamAt[id]].sender = a})
          /\ ExactIndex(registry.byRecipient[a],
                        {id \in Ids : deployed[StreamAt[id]].recipient = a})
        BY <1>1 DEF RegistryInv, ExactRegistry
    <2> QED BY <2>1, <2>2 DEF ExactIndex, Holds
<1> QED BY <1>2, <1>3, <1>4, <1>5 DEF RegistryExact

(* The registry is exact for any requests, batches and interleaving.       *)
THEOREM RegistryTrue == Spec => []RegistryExact
<1> QED BY RegistryShows, RegistryAlways, PTL

(* Every stream a call creates, alone or in a batch of any length, is      *)
(* funded for its term, and no deposit stays with the factory.             *)
THEOREM StreamsBornFunded == Spec => CreatedFunded
<1> DEFINE Funded == /\ \A a \in DOMAIN deployed' \ DOMAIN deployed :
                           LET o == deployed'[a]
                               term == IF o.end > 0 THEN o.end - o.start ELSE 1
                           IN  /\ term > 0 /\ o.start >= now
                               /\ bal'[a] >= o.rate * term
                     /\ bal'[Factory] = bal[Factory]
<1>1. ASSUME RegistryInv, [Next]_vars PROVE [Funded]_vars
    <2>1. ASSUME Calls PROVE Funded
        <3>1. Grown(NextBook) /\ NextBook.bal = bal' /\ NextBook.deployed = deployed'
            BY <1>1, <2>1, CallsGrow DEF NextBook
        <3> QED BY <3>1 DEF Grown, WellBorn, Book
    <2>2. ASSUME NEW from \in Holder \ {Factory}, NEW to \in Holder \ {Factory},
                 NEW amount \in Transfers, Transfer(from, to, amount)
          PROVE  Funded
        <3>1. /\ deployed' = deployed /\ DOMAIN bal = Holder
              /\ bal' = Move(bal, from, to, amount)
            BY <1>1, <2>2 DEF Transfer, RegistryInv, BalancesOf, Book
        <3>2. Factory \in Holder /\ bal[Factory] \in Int
            BY <1>1, FactoryAddressAssumption, I128MaxAssumption
            DEF RegistryInv, BalancesOf, Book
        <3> QED BY <3>1, <3>2 DEF Move
    <2>3. CASE UNCHANGED <<bal, deployed>>
        BY <2>3
    <2> QED BY <1>1, <2>1, <2>2, <2>3 DEF Next, Tick, registryVars, vars
<1> HIDE DEF Funded
<1>2. RegistryInv /\ [Next]_vars => [Funded]_vars
    BY <1>1
<1> QED BY <1>2, RegistryAlways, PTL DEF Spec, CreatedFunded, Funded

-----------------------------------------------------------------------------
(* Pages.  An increasing index of ids below n is not longer than n.        *)
LEMMA IndexShort ==
    ASSUME NEW n \in Nat, NEW index \in Seq(0 .. n - 1), Increasing(index)
    PROVE  Len(index) <= n
<1> DEFINE Bad == {i \in Nat : i \in 1 .. Len(index) /\ index[i] < i - 1}
<1>1. Bad = {}
    <2> SUFFICES ASSUME Bad # {} PROVE FALSE
        OBVIOUS
    <2>1. PICK m \in Bad : \A i \in Bad : m <= i
        <3>1. Bad \in SUBSET Nat
            OBVIOUS
        <3> HIDE DEF Bad
        <3> QED BY <3>1, LeastElement
    <2>2. m \in 1 .. Len(index) /\ index[m] \in 0 .. n - 1 /\ index[m] < m - 1
        OBVIOUS
    <2>3. /\ m \in Nat /\ m - 1 \in 1 .. Len(index)
          /\ m - 1 \in Nat /\ m - 1 < m
        BY <2>2
    <2>4. m - 1 \notin Bad
        <3> HIDE DEF Bad
        <3> QED BY <2>1, <2>3
    <2>5. index[m - 1] \in 0 .. n - 1
        BY <2>3
    <2>6. ~ (index[m - 1] < (m - 1) - 1)
        BY <2>3, <2>4
    <2>7. index[m - 1] < index[m]
        BY <2>2, <2>3 DEF Increasing
    <2> QED BY <2>2, <2>3, <2>5, <2>6, <2>7
<1>2. CASE Len(index) = 0
    BY <1>2
<1>3. CASE Len(index) # 0
    <2>1. Len(index) \in 1 .. Len(index) /\ Len(index) \in Nat
        BY <1>3
    <2>2. index[Len(index)] >= Len(index) - 1 /\ index[Len(index)] \in 0 .. n - 1
        BY <1>1, <2>1
    <2> QED BY <2>1, <2>2
<1> QED BY <1>2, <1>3

LEMMA PagesShow ==
    ASSUME RegistryInv PROVE PagesExact
<1> SUFFICES ASSUME NEW a \in Holder,
                    NEW offset \in 0 .. U32Max, NEW limit \in 0 .. U32Max
             PROVE  LET all == registry.bySender[a]
                        page == Page(all, offset, limit)
                    IN  \A i \in 1 .. Len(all) :
                          IF i \in offset + 1 .. offset + limit
                          THEN i - offset <= Len(page) /\ page[i - offset] = all[i]
                          ELSE i - offset \notin 1 .. Len(page)
    BY DEF PagesExact
<1> DEFINE all == registry.bySender[a]
           page == Page(all, offset, limit)
           n == registry.count
<1>1. /\ n \in 0 .. MaxStreams /\ IdsOf(Book) = 0 .. n - 1
      /\ ExactIndex(all, {id \in IdsOf(Book) : deployed[StreamAt[id]].sender = a})
    BY DEF RegistryInv, ExactRegistry, IdsOf, Book
<1> HIDE DEF all, n
<1>2. all \in Seq(0 .. n - 1) /\ Increasing(all)
    BY <1>1 DEF ExactIndex
<1>3. Len(all) \in Nat /\ Len(all) <= U32Max
    BY <1>1, <1>2, IndexShort, FactoryBoundAssumption
<1> DEFINE end == PageEnd(offset, limit)
           stop == IF end < Len(all) THEN end ELSE Len(all)
<1>4. /\ end \in Nat /\ offset \in Nat /\ limit \in Nat
      /\ stop \in Nat /\ stop <= Len(all)
      /\ \A i \in 1 .. Len(all) : i <= stop <=> i <= offset + limit
    BY <1>3, FactoryBoundAssumption DEF PageEnd
<1>5. page = SubSeq(all, offset + 1, stop)
    BY DEF Page
<1> HIDE DEF stop, end, page
<1>6. /\ Len(page) = IF offset + 1 <= stop THEN stop - offset ELSE 0
      /\ \A k \in 1 .. Len(page) : page[k] = all[offset + k]
    BY <1>2, <1>3, <1>4, <1>5
<1>7. ASSUME NEW i \in 1 .. Len(all)
      PROVE  IF i \in offset + 1 .. offset + limit
             THEN i - offset <= Len(page) /\ page[i - offset] = all[i]
             ELSE i - offset \notin 1 .. Len(page)
    <2>1. CASE i \in offset + 1 .. offset + limit
        <3>1. i <= stop /\ offset + 1 <= stop
            BY <1>3, <1>4, <2>1
        <3>2. i - offset \in 1 .. Len(page) /\ offset + (i - offset) = i
            BY <1>3, <1>4, <1>6, <2>1, <3>1
        <3> QED BY <1>6, <2>1, <3>2
    <2>2. CASE i \notin offset + 1 .. offset + limit
        BY <1>3, <1>4, <1>6, <2>2
    <2> QED BY <2>1, <2>2
<1> QED BY <1>7 DEF all, page

(* Pages are exact at every offset and limit, for any number of streams an *)
(* index can hold.                                                         *)
THEOREM PagesTrue == Spec => []PagesExact
<1> QED BY PagesShow, RegistryAlways, PTL

-----------------------------------------------------------------------------
(* The walker.  Lag(id, c, n) ids come before id in a walk that goes on    *)
(* after c in a ring of n.                                                 *)
Lag(id, c, n) == IF id > c THEN id - c - 1 ELSE id + n - c - 1

WalkInv ==
    /\ cursor \in 0 .. (IF registry.count = 0 THEN 0 ELSE registry.count - 1)
    /\ unvisited \in [Ids -> Nat]
    /\ \A id \in Ids :
          unvisited[id] * WalkLimit <= registry.count - 1 - Lag(id, cursor, registry.count)

LEMMA RingStep ==
    ASSUME NEW n \in Nat \ {0}, NEW x \in 0 .. n - 1
    PROVE  x % n = x /\ (x + n) % n = x
    OBVIOUS

LEMMA RingRange ==
    ASSUME NEW n \in Nat \ {0}, NEW x \in Nat PROVE x % n \in 0 .. n - 1
    OBVIOUS

LEMMA OneMoreWalk ==
    ASSUME NEW u \in Nat, NEW w \in Nat
    PROVE  (u + 1) * w = u * w + w /\ u * w \in Nat
    OBVIOUS

LEMMA LagRange ==
    ASSUME NEW n \in Nat \ {0}, NEW id \in 0 .. n - 1, NEW c \in 0 .. n - 1
    PROVE  Lag(id, c, n) \in 0 .. n - 1
    BY DEF Lag

(* Streams created between two walks join the ring without delaying anyone. *)
LEMMA GrowthKeepsWalk ==
    ASSUME WalkInv, RegistryInv, registry'.count \in Nat,
           registry'.count >= registry.count, cursor' = cursor,
           unvisited' = [id \in 0 .. registry'.count - 1 |->
                           IF id \in Ids THEN unvisited[id] ELSE 0]
    PROVE  WalkInv'
<1> DEFINE N == registry.count
           M == registry'.count
<1>1. N \in Nat /\ M \in Nat /\ M >= N /\ WalkLimit \in Nat
    BY FactoryBoundAssumption DEF RegistryInv, ExactRegistry, Book
<1>2. cursor \in Nat /\ (N = 0 => cursor = 0) /\ (N # 0 => cursor <= N - 1)
    BY <1>1 DEF WalkInv
<1>3. Ids = 0 .. N - 1 /\ Ids' = 0 .. M - 1
    BY DEF Ids
<1> HIDE DEF N, M
<1>4. unvisited' \in [Ids' -> Nat]
    BY <1>1, <1>3 DEF WalkInv, M
<1>5. ASSUME NEW id \in 0 .. M - 1
      PROVE  unvisited'[id] * WalkLimit <= M - 1 - Lag(id, cursor, M)
    <2>1. CASE id \in Ids
        <3>1. unvisited'[id] = unvisited[id] /\ unvisited[id] \in Nat
              /\ unvisited[id] * WalkLimit <= N - 1 - Lag(id, cursor, N)
            BY <2>1 DEF WalkInv, M, N
        <3>2. unvisited[id] * WalkLimit \in Int
            BY <1>1, <3>1
        <3>3. N - 1 - Lag(id, cursor, N) <= M - 1 - Lag(id, cursor, M)
            BY <1>1, <1>2 DEF Lag
        <3>4. Lag(id, cursor, N) \in Int /\ Lag(id, cursor, M) \in Int
            BY <1>1, <1>2 DEF Lag
        <3> QED BY <1>1, <3>1, <3>2, <3>3, <3>4
    <2>2. CASE id \notin Ids
        <3>1. unvisited'[id] = 0 /\ id >= N
            BY <1>1, <1>3, <2>2 DEF M
        <3>2. 0 * WalkLimit = 0
            BY <1>1
        <3>3. Lag(id, cursor, M) <= M - 1 /\ Lag(id, cursor, M) \in Int
            BY <1>1, <1>2, <3>1 DEF Lag
        <3> QED BY <1>1, <3>1, <3>2, <3>3
    <2> QED BY <2>1, <2>2
<1>6. cursor' \in 0 .. (IF M = 0 THEN 0 ELSE M - 1)
    BY <1>1, <1>2
<1> QED BY <1>3, <1>4, <1>5, <1>6 DEF WalkInv, M

(* A walk visits the next ids and brings the others nearer by as many.     *)
LEMMA WalkKeepsWalk ==
    ASSUME WalkInv, RegistryInv, Walk, registry' = registry
    PROVE  WalkInv'
<1> DEFINE N == registry.count
           W == WalkLimit
<1>1. N \in Nat /\ W \in Nat \ {0} /\ Ids = 0 .. N - 1 /\ Ids' = Ids
    BY FactoryBoundAssumption DEF RegistryInv, ExactRegistry, Book, Ids
<1>2. CASE N = 0
    <2>1. UNCHANGED <<cursor, unvisited>>
        BY <1>2 DEF Walk
    <2> QED BY <1>1, <2>1 DEF WalkInv
<1>3. CASE N # 0
    <2>1. /\ cursor' = (cursor + W) % N
          /\ unvisited' = [id \in Ids |-> IF id \in Visited THEN 0 ELSE unvisited[id] + 1]
        BY <1>3 DEF Walk, LastVisited
    <2>2. cursor \in 0 .. N - 1 /\ cursor' \in 0 .. N - 1 /\ N \in Nat \ {0}
        <3>1. N \in Nat \ {0} /\ cursor \in 0 .. N - 1
            BY <1>1, <1>3 DEF WalkInv
        <3> HIDE DEF N, W
        <3>2. cursor + W \in Nat
            BY <1>1, <3>1
        <3> QED BY <2>1, <3>1, <3>2, RingRange
    <2>3. unvisited' \in [Ids' -> Nat]
        BY <1>1, <2>1 DEF WalkInv
    <2> HIDE DEF N, W
    <2>4. ASSUME NEW id \in Ids
          PROVE  unvisited'[id] * W <= N - 1 - Lag(id, cursor', N)
        <3>1. /\ Lag(id, cursor, N) \in 0 .. N - 1 /\ Lag(id, cursor', N) \in 0 .. N - 1
              /\ id \in 0 .. N - 1
            BY <1>1, <2>2, LagRange
        <3>2. CASE id \in Visited
            <4>1. unvisited'[id] = 0 /\ 0 * W = 0
                BY <1>1, <2>1, <3>2
            <4> QED BY <1>1, <3>1, <4>1
        <3>3. CASE id \notin Visited
            <4> DEFINE d == Lag(id, cursor, N)
            <4>1. (cursor + 1 + d) % N = id
                <5>1. CASE id > cursor
                    <6>1. cursor + 1 + d = id
                        BY <2>2, <3>1, <5>1 DEF Lag
                    <6> QED BY <2>2, <3>1, <6>1, RingStep
                <5>2. CASE ~ (id > cursor)
                    <6>1. cursor + 1 + d = id + N
                        BY <2>2, <3>1, <5>2 DEF Lag
                    <6> QED BY <2>2, <3>1, <6>1, RingStep
                <5> QED BY <5>1, <5>2
            <4> HIDE DEF d
            <4>2. d >= W
                <5>1. Visited = {(cursor + 1 + i) % N : i \in 0 .. W - 1}
                    BY DEF Visited, N, W
                <5>2. d \notin 0 .. W - 1
                    BY <3>3, <4>1, <5>1
                <5> QED BY <1>1, <3>1, <5>2 DEF d
            <4>3. cursor' = IF cursor + W < N THEN cursor + W ELSE cursor + W - N
                <5>1. W < N
                    BY <1>1, <3>1, <4>2 DEF d
                <5>2. CASE cursor + W < N
                    <6>1. cursor + W \in 0 .. N - 1
                        BY <1>1, <2>2, <5>2
                    <6> QED BY <2>1, <2>2, <5>2, <6>1, RingStep
                <5>3. CASE ~ (cursor + W < N)
                    <6>1. cursor + W - N \in 0 .. N - 1 /\ (cursor + W - N) + N = cursor + W
                        BY <1>1, <2>2, <5>1, <5>3
                    <6> QED BY <2>1, <2>2, <5>3, <6>1, RingStep
                <5> QED BY <5>2, <5>3
            <4>4. Lag(id, cursor', N) = d - W
                BY <1>1, <2>2, <3>1, <4>2, <4>3 DEF Lag, d
            <4>5. /\ unvisited'[id] = unvisited[id] + 1 /\ unvisited[id] \in Nat
                  /\ unvisited[id] * W <= N - 1 - d
                BY <1>1, <2>1, <3>3 DEF WalkInv, d, N, W
            <4>6. (unvisited[id] + 1) * W = unvisited[id] * W + W
                  /\ unvisited[id] * W \in Nat
                BY <1>1, <4>5, OneMoreWalk
            <4> QED BY <1>1, <3>1, <4>4, <4>5, <4>6 DEF d
        <3> QED BY <3>2, <3>3
    <2> QED BY <1>1, <1>3, <2>2, <2>3, <2>4 DEF WalkInv, N, W
<1> QED BY <1>2, <1>3

LEMMA NextWalk == RegistryInv /\ WalkInv /\ [Next]_vars => WalkInv'
<1> SUFFICES ASSUME RegistryInv, WalkInv, [Next]_vars PROVE WalkInv'
    OBVIOUS
<1>1. ASSUME NEW sender, NEW requests, NEW clawback,
             Calls, CreateAll(sender, requests, clawback)
      PROVE  WalkInv'
    <2>1. Grown(NextBook) /\ NextBook.registry = registry'
        BY <1>1, CallsGrow DEF NextBook
    <2>2. registry'.count \in Nat /\ registry'.count >= registry.count
        BY <2>1, FactoryBoundAssumption DEF Grown, ExactRegistry
    <2>3. cursor' = cursor
          /\ unvisited' = [id \in 0 .. registry'.count - 1 |->
                             IF id \in Ids THEN unvisited[id] ELSE 0]
        BY <1>1 DEF CreateAll
    <2> QED BY <2>2, <2>3, GrowthKeepsWalk
<1>2. ASSUME Walk, UNCHANGED registryVars PROVE WalkInv'
    BY <1>2, WalkKeepsWalk DEF registryVars
<1>3. CASE UNCHANGED <<registry, cursor, unvisited>>
    BY <1>3 DEF WalkInv, Ids
<1>4. CASE Calls
    BY <1>1, <1>2, <1>3, <1>4
    DEF Calls, Initialize, CreateStream, CreateBatchStreams, UpgradeStreamWasm,
        Pause, Unpause, SetPaused, GovernorStep, registryVars
<1> QED BY <1>3, <1>4 DEF Next, Transfer, Tick, registryVars, vars

LEMMA InitWalk == Init => WalkInv
<1> SUFFICES ASSUME Init PROVE WalkInv
    OBVIOUS
<1>1. registry.count = 0 /\ cursor = 0 /\ unvisited = <<>> /\ Ids = {}
    BY DEF Init, Ids
<1> QED BY <1>1 DEF WalkInv

LEMMA WalkAlways == Spec => []WalkInv
<1> QED BY InitWalk, NextWalk, RegistryAlways, PTL DEF Spec

LEMMA WalkShows ==
    ASSUME RegistryInv, WalkInv PROVE NoEntryNeglected
<1> SUFFICES ASSUME NEW id \in Ids
             PROVE  unvisited[id] * WalkLimit < registry.count
    BY DEF NoEntryNeglected
<1> DEFINE N == registry.count
<1>1. N \in Nat /\ Ids = 0 .. N - 1
    BY FactoryBoundAssumption DEF RegistryInv, ExactRegistry, Book, Ids
<1>2. N \in Nat \ {0} /\ cursor \in 0 .. N - 1 /\ id \in 0 .. N - 1
    BY <1>1 DEF WalkInv
<1>3. Lag(id, cursor, N) \in 0 .. N - 1
    BY <1>2, LagRange
<1>4. /\ unvisited[id] \in Nat /\ WalkLimit \in Nat
      /\ unvisited[id] * WalkLimit <= N - 1 - Lag(id, cursor, N)
    BY FactoryBoundAssumption DEF WalkInv
<1>5. unvisited[id] * WalkLimit \in Nat
    BY <1>4, OneMoreWalk
<1> HIDE DEF N
<1>6. unvisited[id] * WalkLimit < N
    BY <1>1, <1>3, <1>4, <1>5
<1> QED BY <1>6 DEF N

(* However creations fall between its calls, whatever its batch size, the  *)
(* walker leaves no entry out for longer than one walk of the registry.    *)
THEOREM NobodyNeglected == Spec => []NoEntryNeglected
<1> QED BY WalkShows, RegistryAlways, WalkAlways, PTL

-----------------------------------------------------------------------------
(* The governor inside the factory keeps the invariant proved for it alone. *)
GP == INSTANCE DripGovernorProofs WITH
    Address <- Authority, Account <- Authority, initialized <- governing

LEMMA GovernorKept ==
    /\ Governor!Init => GP!GovernorInv
    /\ GP!GovernorInv /\ [Governor!Next]_governorVars => GP!GovernorInv'
    /\ GP!GovernorInv => Governor!TypeOK
<1>0. GP!ParameterAssumption
    BY GovernorAssumption DEF GP!ParameterAssumption, Governor!ParameterAssumption
<1>1. Governor!Init => GP!Init
    BY DEF GP!Init, Governor!Init, GP!NoRoles, Governor!NoRoles, GP!Role, Governor!Role
<1>2. Governor!Next => GP!Next
    BY DEF GP!Next, Governor!Next, GP!Initialize, Governor!Initialize,
           GP!GrantRole, Governor!GrantRole, GP!RevokeRole, Governor!RevokeRole,
           GP!TransferAuthority, Governor!TransferAuthority,
           GP!SetFeeBps, Governor!SetFeeBps,
           GP!SetFeeRecipient, Governor!SetFeeRecipient,
           GP!SetMinDuration, Governor!SetMinDuration,
           GP!SetMaxDuration, Governor!SetMaxDuration,
           GP!SetMaxRate, Governor!SetMaxRate,
           GP!Granted, Governor!Granted, GP!AddHolder, Governor!AddHolder,
           GP!Revoked, Governor!Revoked, GP!CanRevoke, Governor!CanRevoke,
           GP!HasRole, Governor!HasRole, GP!ValidFee, Governor!ValidFee,
           GP!ProductFits, Governor!ProductFits, GP!Role, Governor!Role
<1>3. UNCHANGED governorVars => UNCHANGED GP!vars
    BY DEF governorVars, GP!vars
<1>4. GP!Init => GP!GovernorInv
    BY <1>0, GP!GovernorInit
<1>5. GP!GovernorInv /\ [GP!Next]_(GP!vars) => GP!GovernorInv'
    BY <1>0, GP!GovernorNext
<1>6. GP!GovernorInv => GP!TypeOK
    BY <1>0, GP!GovernorTypes
<1>7. GP!TypeOK => Governor!TypeOK
    BY DEF GP!TypeOK, Governor!TypeOK, GP!Roles, Governor!Roles, GP!Config,
           Governor!Config, GP!Role, Governor!Role
<1>8. [Governor!Next]_governorVars => [GP!Next]_(GP!vars)
    BY <1>2, <1>3
<1> QED BY <1>1, <1>4, <1>5, <1>6, <1>7, <1>8

-----------------------------------------------------------------------------
SettingsInv ==
    /\ now \in 0 .. MaxTime
    /\ settings # <<>> => settings \in [wasm : Wasm, governor : Holder, paused : BOOLEAN]

FactoryInv == RegistryInv /\ WalkInv /\ SettingsInv /\ GP!GovernorInv

LEMMA NextSettings == SettingsInv /\ [Next]_vars => SettingsInv'
<1> SUFFICES ASSUME SettingsInv, [Next]_vars PROVE SettingsInv'
    OBVIOUS
<1>1. ASSUME NEW wasm \in Wasm, NEW governor \in Holder, Initialize(wasm, governor)
      PROVE  SettingsInv'
    BY <1>1 DEF Initialize, SettingsInv
<1>2. ASSUME NEW wasm \in Wasm, UpgradeStreamWasm(wasm) PROVE SettingsInv'
    BY <1>2 DEF UpgradeStreamWasm, Initialized, SettingsInv
<1>3. ASSUME NEW paused \in BOOLEAN, SetPaused(paused) PROVE SettingsInv'
    BY <1>3 DEF SetPaused, Initialized, SettingsInv
<1>4. CASE Tick
    BY <1>4, FactoryBoundAssumption DEF Tick, SettingsInv
<1>5. CASE UNCHANGED <<now, settings>>
    BY <1>5 DEF SettingsInv
<1> QED BY <1>1, <1>2, <1>3, <1>4, <1>5
        DEF Next, Calls, vars, CreateStream, CreateBatchStreams, CreateAll, Transfer,
            GovernorStep, Pause, Unpause

LEMMA NextGovernor == GP!GovernorInv /\ [Next]_vars => GP!GovernorInv'
<1>1. [Next]_vars => [Governor!Next]_governorVars
    BY DEF Next, Calls, vars, Initialize, CreateStream, CreateBatchStreams,
           CreateAll, Transfer, Tick, GovernorStep, Pause, Unpause, SetPaused,
           UpgradeStreamWasm
<1> QED BY <1>1, GovernorKept

LEMMA FactoryInvInit == Init => FactoryInv
<1> SUFFICES ASSUME Init PROVE FactoryInv
    OBVIOUS
<1>1. RegistryInv
    BY InitRegistry
<1>2. WalkInv
    BY InitWalk
<1>3. SettingsInv
    BY FactoryBoundAssumption DEF Init, SettingsInv
<1>4. GP!GovernorInv
    BY GovernorKept DEF Init
<1> QED BY <1>1, <1>2, <1>3, <1>4 DEF FactoryInv

LEMMA FactoryInvNext == FactoryInv /\ [Next]_vars => FactoryInv'
<1> QED BY NextRegistry, NextWalk, NextSettings, NextGovernor DEF FactoryInv

LEMMA FactoryTypes == FactoryInv => TypeOK
<1> SUFFICES ASSUME FactoryInv PROVE TypeOK
    OBVIOUS
<1>1. /\ Book.registry = registry /\ Book.bal = bal /\ Book.deployed = deployed
      /\ Ids = IdsOf(Book)
    BY DEF Book, Ids, IdsOf
<1>2. BalancesOf(Book) /\ ExactRegistry(Book)
    BY DEF FactoryInv, RegistryInv
<1>3. /\ bal \in [Holder -> 0 .. I128Max] /\ registry.count \in 0 .. MaxStreams
      /\ \A a \in DOMAIN deployed : deployed[a] \in Order
    BY <1>1, <1>2 DEF BalancesOf, ExactRegistry
<1>4. registry.addr \in [Ids -> Holder]
    <2>1. Ids \subseteq 0 .. MaxStreams - 1
        BY <1>3, FactoryBoundAssumption DEF Ids
    <2>2. registry.addr = [i \in Ids |-> StreamAt[i]]
        BY <1>1, <1>2 DEF ExactRegistry
    <2> QED BY <2>1, <2>2, FactoryAddressAssumption
<1>5. ASSUME NEW a \in Holder
      PROVE  registry.bySender[a] \in Seq(Ids) /\ registry.byRecipient[a] \in Seq(Ids)
    <2>1. ASSUME NEW index, NEW ids \in SUBSET Ids, ExactIndex(index, ids)
          PROVE  index \in Seq(Ids)
        BY <2>1 DEF ExactIndex
    <2> DEFINE S == {id \in Ids : deployed[StreamAt[id]].sender = a}
               R == {id \in Ids : deployed[StreamAt[id]].recipient = a}
    <2>2. /\ ExactIndex(registry.bySender[a], S) /\ S \in SUBSET Ids
          /\ ExactIndex(registry.byRecipient[a], R) /\ R \in SUBSET Ids
        BY <1>1, <1>2 DEF ExactRegistry
    <2> HIDE DEF S, R
    <2> QED BY <2>1, <2>2
<1>6. /\ registry.bySender \in [Holder -> Seq(Ids)]
      /\ registry.byRecipient \in [Holder -> Seq(Ids)]
    <2>1. /\ registry.bySender = [a \in Holder |-> registry.bySender[a]]
          /\ registry.byRecipient = [a \in Holder |-> registry.byRecipient[a]]
        BY <1>1, <1>2 DEF ExactRegistry
    <2> QED BY <1>5, <2>1
<1>7. cursor \in 0 .. MaxStreams /\ unvisited \in [Ids -> Nat]
    BY <1>3, FactoryBoundAssumption DEF FactoryInv, WalkInv
<1>8. Governor!TypeOK
    BY GovernorKept DEF FactoryInv
<1> QED BY <1>3, <1>4, <1>6, <1>7, <1>8 DEF FactoryInv, SettingsInv, TypeOK

(* Types hold for any constants that meet the assumptions.                 *)
THEOREM FactoryTyped == Spec => []TypeOK
<1> QED BY FactoryInvInit, FactoryInvNext, FactoryTypes, PTL DEF Spec
-----------------------------------------------------------------------------
(* The abstract log.  What a book says of the stream behind an id, and of  *)
(* all of them in order.                                                   *)
EntryAt(b, id) ==
    LET order == b.deployed[StreamAt[id]] IN
    [at |-> StreamAt[id], sender |-> order.sender,
     terms |-> TermsAsked(order), clawback |-> order.clawback]

LogOf(b) == [i \in 1 .. b.registry.count |-> EntryAt(b, i - 1)]

LEMMA LogReads ==
    /\ RegistryInv =>
          [i \in 1 .. registry.count |-> Logged(registry.addr[i - 1])] = LogOf(Book)
    /\ RegistryInv' =>
          [i \in 1 .. registry.count |-> Logged(registry.addr[i - 1])]' = LogOf(NextBook)
<1>1. ASSUME NEW reg, NEW dep, NEW b, b.registry = reg, b.deployed = dep,
             reg.count \in 0 .. MaxStreams,
             reg.addr = [i \in 0 .. reg.count - 1 |-> StreamAt[i]]
      PROVE  [i \in 1 .. reg.count |->
                [at |-> reg.addr[i - 1], sender |-> dep[reg.addr[i - 1]].sender,
                 terms |-> TermsAsked(dep[reg.addr[i - 1]]),
                 clawback |-> dep[reg.addr[i - 1]].clawback]] = LogOf(b)
    <2>1. reg.count \in Nat
        BY <1>1, FactoryBoundAssumption
    <2>2. ASSUME NEW i \in 1 .. reg.count PROVE reg.addr[i - 1] = StreamAt[i - 1]
        BY <1>1, <2>1
    <2> QED BY <1>1, <2>2 DEF LogOf, EntryAt
<1>2. ASSUME RegistryInv
      PROVE  [i \in 1 .. registry.count |-> Logged(registry.addr[i - 1])] = LogOf(Book)
    <2>1. /\ Book.registry = registry /\ Book.deployed = deployed
          /\ registry.count \in 0 .. MaxStreams
          /\ registry.addr = [i \in 0 .. registry.count - 1 |-> StreamAt[i]]
        BY <1>2 DEF RegistryInv, ExactRegistry, Book, IdsOf
    <2> QED BY <1>1, <2>1 DEF Logged
<1>3. ASSUME RegistryInv'
      PROVE  [i \in 1 .. registry.count |-> Logged(registry.addr[i - 1])]' = LogOf(NextBook)
    <2>1. /\ NextBook.registry = registry' /\ NextBook.deployed = deployed'
          /\ registry'.count \in 0 .. MaxStreams
          /\ registry'.addr = [i \in 0 .. registry'.count - 1 |-> StreamAt[i]]
        BY <1>3 DEF RegistryInv, ExactRegistry, Book, NextBook, IdsOf
    <2>2. [i \in 1 .. registry.count |-> Logged(registry.addr[i - 1])]'
            = [i \in 1 .. registry'.count |->
                [at |-> registry'.addr[i - 1],
                 sender |-> deployed'[registry'.addr[i - 1]].sender,
                 terms |-> TermsAsked(deployed'[registry'.addr[i - 1]]),
                 clawback |-> deployed'[registry'.addr[i - 1]].clawback]]
        BY DEF Logged, TermsAsked
    <2>3. [i \in 1 .. registry'.count |->
             [at |-> registry'.addr[i - 1],
              sender |-> deployed'[registry'.addr[i - 1]].sender,
              terms |-> TermsAsked(deployed'[registry'.addr[i - 1]]),
              clawback |-> deployed'[registry'.addr[i - 1]].clawback]] = LogOf(NextBook)
        BY <1>1, <2>1
    <2> QED BY <2>2, <2>3
<1> QED BY <1>2, <1>3

(* After n requests the first n of them, and nothing else, are registered. *)
LEMMA BatchPlaces ==
    ASSUME RegistryInv,
           NEW sender \in Account, NEW requests \in Seq(Request),
           NEW clawback \in BOOLEAN, CreateAll(sender, requests, clawback)
    PROVE  LET after == BookAfter(sender, requests, clawback)
           IN  \A n \in 0 .. Len(requests) :
                 /\ after[n].registry.count = registry.count + n
                 /\ \A i \in 1 .. n :
                      after[n].deployed[StreamAt[registry.count + i - 1]]
                        = OrderFor(sender, requests[i], clawback)
<1> DEFINE after == BookAfter(sender, requests, clawback)
           N == Len(requests)
           C == registry.count
           Placed(n) ==
             /\ after[n].registry.count = C + n
             /\ \A i \in 1 .. n :
                  after[n].deployed[StreamAt[C + i - 1]] = OrderFor(sender, requests[i], clawback)
           Bad == {n \in 0 .. N : ~ Placed(n)}
<1>1. /\ after[0] = Book
      /\ \A n \in 1 .. N : after[n] = Created(after[n - 1], sender, requests[n], clawback)
    BY BatchUnfolds
<1>2. \A n \in 1 .. N : CanCreate(after[n - 1], sender, requests[n], clawback)
    BY DEF CreateAll
<1>3. N \in Nat /\ C \in Nat /\ \A n \in 1 .. N : requests[n] \in Request
    BY FactoryBoundAssumption DEF RegistryInv, ExactRegistry, Book
<1>4. \A n \in 0 .. N : Grown(after[n])
    BY BatchGrows
<1>5. Placed(0)
    BY <1>1, <1>3 DEF Book
<1> HIDE DEF after, N, C
<1>6. ASSUME NEW m \in 1 .. N, Placed(m - 1) PROVE Placed(m)
    <2> DEFINE b == after[m - 1]
    <2>1. /\ m \in Nat /\ m - 1 \in 0 .. N /\ requests[m] \in Request
          /\ after[m] = Created(b, sender, requests[m], clawback)
          /\ CanCreate(b, sender, requests[m], clawback)
        BY <1>1, <1>2, <1>3
    <2>2. BalancesOf(b) /\ ExactRegistry(b) /\ b.registry.count = C + m - 1
        BY <1>3, <1>4, <1>6, <2>1 DEF Grown
    <2> HIDE DEF b
    <2>3. /\ after[m].registry.count = b.registry.count + 1
          /\ \A a \in DOMAIN b.deployed : after[m].deployed[a] = b.deployed[a]
        BY <2>1, <2>2, CreateRegisters
    <2>4. after[m].deployed[StreamAt[C + m - 1]] = OrderFor(sender, requests[m], clawback)
        BY <2>1, <2>2 DEF Created
    <2>5. ASSUME NEW i \in 1 .. m, i # m
          PROVE  after[m].deployed[StreamAt[C + i - 1]]
                   = OrderFor(sender, requests[i], clawback)
        <3>1. i \in 1 .. m - 1 /\ C + i - 1 \in IdsOf(b)
            BY <1>3, <2>1, <2>2, <2>5 DEF IdsOf
        <3>2. StreamAt[C + i - 1] \in DOMAIN b.deployed
            BY <2>2, <3>1 DEF ExactRegistry
        <3>3. b.deployed[StreamAt[C + i - 1]] = OrderFor(sender, requests[i], clawback)
            BY <1>6, <3>1 DEF b
        <3> QED BY <2>3, <3>2, <3>3
    <2>6. after[m].registry.count = C + m
        BY <1>3, <2>1, <2>2, <2>3
    <2> QED BY <2>4, <2>5, <2>6
<1>7. Bad = {}
    <2> SUFFICES ASSUME Bad # {} PROVE FALSE
        OBVIOUS
    <2>1. PICK m \in Bad : \A n \in Bad : m <= n
        <3>1. Bad \in SUBSET Nat
            BY <1>3
        <3> HIDE DEF Bad
        <3> QED BY <3>1, LeastElement
    <2>2. m \in 0 .. N /\ ~ Placed(m) /\ m # 0
        BY <1>5
    <2>3. m \in 1 .. N /\ m - 1 \in 0 .. N /\ m - 1 < m
        BY <1>3, <2>2
    <2>4. m - 1 \notin Bad
        <3> HIDE DEF Bad
        <3> QED BY <2>1, <2>3
    <2>5. Placed(m - 1)
        BY <2>3, <2>4
    <2> HIDE DEF Placed
    <2> QED BY <1>6, <2>2, <2>3, <2>5
<1>8. \A n \in 0 .. N : Placed(n)
    BY <1>7
<1> QED BY <1>8 DEF after, N, C

(* The call appends what it was asked for, whole and in order, and leaves  *)
(* what the log held as it was.                                            *)
LEMMA BatchLogs ==
    ASSUME RegistryInv,
           NEW sender \in Account, NEW requests \in Seq(Request),
           NEW clawback \in BOOLEAN, CreateAll(sender, requests, clawback)
    PROVE  LET more == [i \in 1 .. Len(requests) |->
                          [at |-> StreamAt[registry.count + i - 1], sender |-> sender,
                           terms |-> TermsAsked(requests[i]), clawback |-> clawback]]
           IN  /\ LogOf(NextBook) = LogOf(Book) \o more
               /\ Len(LogOf(Book)) = registry.count
               /\ Len(LogOf(NextBook)) = registry.count + Len(requests)
               /\ \A i \in 1 .. Len(requests) :
                    LogOf(NextBook)[registry.count + i] = more[i]
<1> DEFINE N == Len(requests)
           C == registry.count
           last == BookAfter(sender, requests, clawback)[N]
           more == [i \in 1 .. N |->
                      [at |-> StreamAt[C + i - 1], sender |-> sender,
                       terms |-> TermsAsked(requests[i]), clawback |-> clawback]]
           s == LogOf(Book)
           f == LogOf(NextBook)
<1>1. /\ N \in Nat /\ C \in Nat /\ Book.registry = registry /\ Book.deployed = deployed
      /\ ExactRegistry(Book)
    <2>1. ExactRegistry(Book)
        BY DEF RegistryInv
    <2>2. Book.registry = registry /\ Book.deployed = deployed
        BY DEF Book
    <2>3. C \in Nat
        BY <2>1, <2>2, FactoryBoundAssumption DEF ExactRegistry
    <2> QED BY <2>1, <2>2, <2>3
<1>2. /\ last.registry.count = C + N
      /\ \A i \in 1 .. N :
           last.deployed[StreamAt[C + i - 1]] = OrderFor(sender, requests[i], clawback)
    BY <1>1, BatchPlaces
<1>3. NextBook.registry = last.registry /\ NextBook.deployed = last.deployed
    BY DEF CreateAll, NextBook
<1>4. Grown(NextBook)
    BY CreateAllGrows
<1> HIDE DEF N, C, last
<1>5. s = [i \in 1 .. C |-> EntryAt(Book, i - 1)]
    BY <1>1 DEF LogOf, C
<1>6. f = [i \in 1 .. C + N |-> EntryAt(NextBook, i - 1)]
    BY <1>2, <1>3 DEF LogOf
<1>7. ASSUME NEW i \in 1 .. C PROVE f[i] = s[i]
    <2>1. i - 1 \in IdsOf(Book) /\ i \in 1 .. C + N
        BY <1>1 DEF IdsOf, C
    <2>2. StreamAt[i - 1] \in DOMAIN deployed
        BY <1>1, <2>1 DEF ExactRegistry
    <2>3. NextBook.deployed[StreamAt[i - 1]] = Book.deployed[StreamAt[i - 1]]
        BY <1>1, <1>4, <2>2 DEF Grown
    <2> QED BY <1>5, <1>6, <2>1, <2>3 DEF EntryAt
<1>8. ASSUME NEW i \in 1 .. N PROVE f[C + i] = more[i]
    <2>1. C + i \in 1 .. C + N /\ (C + i) - 1 = C + i - 1
        BY <1>1
    <2>2. NextBook.deployed[StreamAt[C + i - 1]] = OrderFor(sender, requests[i], clawback)
        BY <1>2, <1>3
    <2> QED BY <1>6, <2>1, <2>2 DEF EntryAt, OrderFor, TermsAsked
<1>9. f = s \o more /\ Len(s) = C /\ Len(f) = C + N
    <2> DEFINE S == {f[i] : i \in 1 .. C + N}
    <2>1. C \in Nat /\ N \in Nat
        BY <1>1 DEF C
    <2>2. f \in [1 .. C + N -> S]
        BY <1>6
    <2>3. s \in [1 .. C -> S]
        <3>1. \A i \in 1 .. C : f[i] \in S
            BY <2>1
        <3>2. s = [i \in 1 .. C |-> s[i]]
            BY <1>5
        <3> HIDE DEF f, s, S
        <3> QED BY <1>7, <3>1, <3>2
    <2>4. more \in [1 .. N -> S]
        <3>1. \A i \in 1 .. N : f[C + i] \in S
            <4>1. \A i \in 1 .. N : C + i \in 1 .. C + N
                BY <2>1
            <4> QED BY <4>1
        <3>2. more = [i \in 1 .. N |-> more[i]]
            OBVIOUS
        <3> HIDE DEF f, S, more
        <3> QED BY <1>8, <3>1, <3>2
    <2>5. (\A i \in 1 .. C : f[i] = s[i]) /\ (\A i \in 1 .. N : f[C + i] = more[i])
        BY <1>7, <1>8
    <2> HIDE DEF f, s, more, S
    <2>6. /\ f \in Seq(S) /\ Len(f) = C + N /\ s \in Seq(S) /\ Len(s) = C
          /\ more \in Seq(S) /\ Len(more) = N
        BY <2>1, <2>2, <2>3, <2>4
    <2>7. /\ s \o more \in Seq(S) /\ Len(s \o more) = C + N
          /\ \A i \in 1 .. C + N : (s \o more)[i] = IF i <= C THEN s[i] ELSE more[i - C]
        BY <2>6, ConcatProperties
    <2>8. ASSUME NEW i \in 1 .. C + N PROVE f[i] = (s \o more)[i]
        <3>1. CASE i <= C
            <4>1. i \in 1 .. C /\ f[i] = s[i]
                BY <2>1, <2>5, <3>1
            <4> QED BY <2>7, <3>1, <4>1
        <3>2. CASE ~ (i <= C)
            <4>1. i - C \in 1 .. N /\ C + (i - C) = i
                BY <2>1, <3>2
            <4>2. f[i] = more[i - C]
                BY <2>5, <4>1
            <4> QED BY <2>7, <3>2, <4>2
        <3> QED BY <3>1, <3>2
    <2> QED BY <2>6, <2>7, <2>8, SeqEqual
<1> QED BY <1>8, <1>9 DEF N, C

LEMMA BatchRecords ==
    ASSUME RegistryInv, RegistryInv',
           NEW sender \in Account, NEW requests \in Seq(Request),
           NEW clawback \in BOOLEAN, CreateAll(sender, requests, clawback),
           requests # <<>>,
           [i \in 1 .. Len(requests) |-> TermsAsked(requests[i])] \in AskedInOneCall
    PROVE  Log!Record
<1> DEFINE N == Len(requests)
           C == registry.count
           old == [i \in 1 .. registry.count |-> Logged(registry.addr[i - 1])]
           new == old'
           asked == [i \in 1 .. N |-> TermsAsked(requests[i])]
           more == [i \in 1 .. N |->
                      [at |-> StreamAt[C + i - 1], sender |-> sender,
                       terms |-> TermsAsked(requests[i]), clawback |-> clawback]]
           open == Initialized /\ ~settings.paused
<1>1. N \in Nat /\ C \in Nat
    BY FactoryBoundAssumption DEF RegistryInv, ExactRegistry, Book
<1>2. /\ new = old \o more /\ Len(old) = C /\ Len(new) = C + N
      /\ \A i \in 1 .. N : new[C + i] = more[i]
    <2>1. old = LogOf(Book) /\ new = LogOf(NextBook)
        BY LogReads
    <2> HIDE DEF old, new
    <2> QED BY <2>1, BatchLogs
<1>3. N > 0 /\ open /\ open' = open
    <2>1. N # 0
        OBVIOUS
    <2>2. CanCreate(BookAfter(sender, requests, clawback)[1 - 1], sender, requests[1], clawback)
        BY <1>1, <2>1 DEF CreateAll
    <2>3. settings' = settings
        BY DEF CreateAll
    <2> QED BY <1>1, <2>1, <2>2, <2>3 DEF CanCreate, Halted, Initialized
<1>4. /\ asked = [i \in 1 .. Len(new) - Len(old) |-> new[Len(old) + i].terms]
      /\ Len(asked) = N
    <2> HIDE DEF new, old, N, C, open
    <2>0. \A i \in 1 .. N : more[i].terms = asked[i]
        OBVIOUS
    <2>1. \A i \in 1 .. N : new[C + i].terms = asked[i]
        <3> HIDE DEF more, asked
        <3> QED BY <1>2, <2>0
    <2>2. Len(new) - Len(old) = N /\ Len(old) = C
        BY <1>1, <1>2
    <2>3. Len(asked) = N
        BY <1>1
    <2> QED BY <2>1, <2>2, <2>3
<1>5. more = [i \in 1 .. Len(asked) |->
                [at |-> StreamAt[Len(old) + i - 1], sender |-> sender,
                 terms |-> asked[i], clawback |-> clawback]]
    <2> HIDE DEF new, old, N, C, open
    <2> QED BY <1>2, <1>4
<1>6. new = old \o Log!Entries(sender, asked, clawback)
    BY <1>2, <1>5 DEF Log!Entries
<1>7. LET said == [i \in 1 .. Len(new) - Len(old) |-> new[Len(old) + i].terms]
      IN  /\ open /\ open' = open
          /\ said \in AskedInOneCall
          /\ \E by \in Account, back \in BOOLEAN :
                new = old \o Log!Entries(by, said, back)
    <2>1. asked \in AskedInOneCall
        OBVIOUS
    <2> HIDE DEF new, old, N, C, open, more, asked
    <2> QED BY <1>3, <1>4, <1>6, <2>1
<1> QED BY <1>7 DEF Log!Record

(* The settings are told from their absence by having fields.              *)
LEMMA SettingsExist ==
    ASSUME NEW wasm, NEW governor, NEW paused
    PROVE  [wasm |-> wasm, governor |-> governor, paused |-> paused] # <<>>
<1> DEFINE some == [wasm |-> wasm, governor |-> governor, paused |-> paused]
<1>1. "paused" \in DOMAIN some /\ DOMAIN <<>> = {}
    OBVIOUS
<1> HIDE DEF some
<1>2. some # <<>>
    BY <1>1
<1> QED BY <1>2 DEF some

LEMMA LogStarts == Init => Log!LogInit
<1> SUFFICES ASSUME Init PROVE Log!LogInit
    OBVIOUS
<1>1. registry.count = 0 /\ settings = <<>>
    BY DEF Init
<1>2. [i \in 1 .. registry.count |-> Logged(registry.addr[i - 1])] = <<>>
    BY <1>1
<1> QED BY <1>1, <1>2 DEF Log!LogInit, Initialized

LEMMA LogStands ==
    ASSUME UNCHANGED <<registry, deployed, settings>>
    PROVE  UNCHANGED Log!streamLog
<1> DEFINE log == [i \in 1 .. registry.count |-> Logged(registry.addr[i - 1])]
           open == Initialized /\ ~settings.paused
<1>1. log' = log /\ open' = open
    BY DEF Logged, Initialized
<1> QED BY <1>1 DEF Log!streamLog

LEMMA LogSteps ==
    FactoryInv /\ [Next]_vars => [Log!LogNext]_(Log!streamLog)
<1> SUFFICES ASSUME FactoryInv, [Next]_vars
             PROVE  [Log!LogNext]_(Log!streamLog)
    OBVIOUS
<1> DEFINE log == [i \in 1 .. registry.count |-> Logged(registry.addr[i - 1])]
           open == Initialized /\ ~settings.paused
<1>0. RegistryInv /\ RegistryInv' /\ SettingsInv
    BY FactoryInvNext DEF FactoryInv
<1>1. ASSUME NEW sender \in Account, NEW r \in Requests, NEW clawback \in BOOLEAN,
             CreateStream(sender, r, clawback)
      PROVE  Log!Record
    <2>1. <<r>> \in Seq(Request) /\ <<r>> # <<>>
        BY FactoryInputAssumption
    <2>2. [i \in 1 .. Len(<<r>>) |-> TermsAsked(<<r>>[i])] \in AskedInOneCall
        BY DEF AskedInOneCall
    <2> QED BY <1>0, <1>1, <2>1, <2>2, BatchRecords DEF CreateStream
<1>2. ASSUME NEW sender \in Account, NEW requests \in Batches, NEW clawback \in BOOLEAN,
             CreateBatchStreams(sender, requests, clawback)
      PROVE  Log!Record
    <2>1. requests \in Seq(Request) /\ requests # <<>> /\ Len(requests) <= MaxBatchSize
        BY <1>2, FactoryInputAssumption DEF CreateBatchStreams
    <2>2. Len(requests) \in 1 .. MaxBatchSize
        BY <2>1, FactoryBoundAssumption
    <2>3. [i \in 1 .. Len(requests) |-> TermsAsked(requests[i])] \in AskedInOneCall
        BY <2>2 DEF AskedInOneCall
    <2> QED BY <1>0, <1>2, <2>1, <2>3, BatchRecords DEF CreateBatchStreams
<1>3. registry' = registry /\ deployed' = deployed => log' = log
    BY DEF Logged
<1>4. ASSUME NEW wasm \in Wasm, NEW governor \in Holder, Initialize(wasm, governor)
      PROVE  Log!Gate
    <2>1. ~ open /\ log' = log
        BY <1>3, <1>4 DEF Initialize, registryVars
    <2>2. open'
        <3>1. settings' = [wasm |-> wasm, governor |-> governor, paused |-> FALSE]
            BY <1>4 DEF Initialize
        <3>2. settings' # <<>> /\ ~ settings'.paused
            BY <3>1, SettingsExist
        <3> QED BY <3>2 DEF Initialized
    <2>3. open' = ~ open
        BY <2>1, <2>2
    <2> QED BY <2>1, <2>3 DEF Log!Gate
<1>5. ASSUME NEW paused \in BOOLEAN, SetPaused(paused) PROVE Log!Gate
    <2>1. /\ settings # <<>> /\ settings.paused = ~paused
          /\ settings' = [settings EXCEPT !.paused = paused]
          /\ settings \in [wasm : Wasm, governor : Holder, paused : BOOLEAN]
          /\ log' = log
        BY <1>0, <1>3, <1>5 DEF SetPaused, Initialized, SettingsInv, registryVars
    <2>2. settings' = [wasm |-> settings.wasm, governor |-> settings.governor,
                       paused |-> paused]
        BY <2>1
    <2>3. settings' # <<>> /\ settings'.paused = paused
        BY <2>2, SettingsExist
    <2>4. open' = ~ open
        BY <2>1, <2>3 DEF Initialized
    <2> QED BY <2>1, <2>4 DEF Log!Gate
<1>6. ASSUME NEW wasm \in Wasm, UpgradeStreamWasm(wasm)
      PROVE  UNCHANGED Log!streamLog
    <2>1. /\ settings # <<>>
          /\ settings' = [settings EXCEPT !.wasm = wasm]
          /\ settings \in [wasm : Wasm, governor : Holder, paused : BOOLEAN]
          /\ log' = log
        BY <1>0, <1>3, <1>6 DEF UpgradeStreamWasm, Initialized, SettingsInv, registryVars
    <2>2. settings' = [wasm |-> wasm, governor |-> settings.governor,
                       paused |-> settings.paused]
        BY <2>1
    <2>3. settings' # <<>> /\ settings'.paused = settings.paused
        BY <2>2, SettingsExist
    <2>4. open' = open
        BY <2>1, <2>3 DEF Initialized
    <2> QED BY <2>1, <2>4 DEF Log!streamLog
<1>7. CASE UNCHANGED <<registry, deployed, settings>>
    BY <1>7, LogStands
<1>8. CASE Calls
    <2>1. CASE GovernorStep
        BY <1>7, <2>1 DEF GovernorStep, registryVars
    <2>2. CASE Pause \/ Unpause
        BY <1>5, <2>2 DEF Pause, Unpause, Log!LogNext
    <2> QED BY <1>1, <1>2, <1>4, <1>6, <1>8, <2>1, <2>2 DEF Calls, Log!LogNext
<1>9. CASE \/ Tick \/ UNCHANGED vars
           \/ \E from, to \in Holder \ {Factory}, amount \in Transfers :
                 Transfer(from, to, amount)
    BY <1>7, <1>9 DEF Tick, Transfer, vars, registryVars
<1> QED BY <1>8, <1>9 DEF Next

(* The factory keeps a log that every call extends by all the streams it   *)
(* asks for, in the order asked, or by none: for batches of any length, in *)
(* any interleaving with halts, upgrades, payments and the governor.       *)
THEOREM LogKept == Spec => ImplementsLog
<1>1. Log!LogInit /\ [][Log!LogNext]_(Log!streamLog) => ImplementsLog
    BY DEF ImplementsLog, Log!LogSpec
<1> QED BY <1>1, FactoryInvInit, FactoryInvNext, LogStarts, LogSteps, PTL DEF Spec
=============================================================================
