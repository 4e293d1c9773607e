---------------------------- MODULE HelperProofs ----------------------------
(* The two calculators: what rounding costs, for every principal, rate and *)
(* cutting of the time; and that the batch processor adds up every batch.  *)
EXTENDS YieldRebate, BatchTransferProcessor, WellFoundedInduction, TLAPS

RebateTyped == /\ principal \in Int /\ rateBps \in Int
               /\ elapsed \in Nat /\ periods \in Nat /\ accrued \in Int

LEMMA Division ==
    ASSUME NEW x \in Int, NEW d \in Nat \ {0}
    PROVE  /\ x \div d \in Int
           /\ (x \div d) * d <= x /\ x - (x \div d) * d <= d - 1
<1>1. x \div d \in Int /\ x % d \in 0 .. d - 1 /\ x = d * (x \div d) + (x % d)
    OBVIOUS
<1> DEFINE q == x \div d
<1> HIDE DEF q
<1>2. d * q = q * d /\ q * d \in Int
    BY <1>1 DEF q
<1> QED BY <1>1, <1>2 DEF q

LEMMA Distribute ==
    ASSUME NEW k \in Int, NEW a \in Int, NEW b \in Int
    PROVE  k * (a + b) = k * a + k * b /\ (a + b) * k = a * k + b * k
OBVIOUS

LEMMA AccrueStep ==
    ASSUME RebateTyped, NEW seconds \in Periods, Accrue(seconds)
    PROVE  LET p == principal * rateBps * seconds
               q == Rebate(principal, rateBps, seconds)
           IN  /\ RebateTyped'
               /\ p \in Int /\ q \in Int
               /\ Exact' = Exact + p
               /\ (accrued * Denominator)' = accrued * Denominator + q * Denominator
               /\ q * Denominator <= p /\ p - q * Denominator <= Denominator - 1
<1> USE RebateAssumption
<1> DEFINE k == principal * rateBps
           q == Rebate(principal, rateBps, seconds)
<1>1. k \in Int /\ seconds \in Nat
    BY DEF RebateTyped
<1>2. k * seconds \in Int
    BY <1>1
<1>3. /\ q \in Int /\ q * Denominator <= k * seconds
      /\ k * seconds - q * Denominator <= Denominator - 1
    BY <1>2, Division DEF Rebate
<1> HIDE DEF k, q
<1>4. k' = k /\ elapsed' = elapsed + seconds /\ accrued' = accrued + q
      /\ periods' = periods + 1
    BY DEF Accrue, k, q
<1>5. Exact' = k * elapsed + k * seconds
    BY <1>1, <1>4, Distribute DEF Exact, k, RebateTyped
<1>6. accrued' * Denominator = accrued * Denominator + q * Denominator
    BY <1>3, <1>4, Distribute DEF RebateTyped
<1>7. RebateTyped'
    BY <1>1, <1>3, <1>4 DEF RebateTyped, Accrue
<1> QED BY <1>2, <1>3, <1>5, <1>6, <1>7 DEF k, q, Exact

RebateInv == RebateTyped /\ NeverAhead /\ LosesLessThanAUnit

LEMMA RebateHolds == RebateSpec => []RebateInv
<1> USE RebateAssumption
<1>1. RebateInit => RebateInv
    <2> SUFFICES ASSUME RebateInit PROVE RebateInv
        OBVIOUS
    <2>1. RebateTyped
        BY DEF RebateInit, RebateTyped
    <2>2. principal * rateBps \in Int
        BY <2>1 DEF RebateTyped
    <2>3. Exact = 0 /\ accrued * Denominator = 0 /\ periods * (Denominator - 1) = 0
        BY <2>1, <2>2 DEF RebateInit, Exact
    <2> QED BY <2>1, <2>3 DEF RebateInv, NeverAhead, LosesLessThanAUnit
<1>2. ASSUME RebateInv, NEW seconds \in Periods, Accrue(seconds)
      PROVE  RebateInv'
    <2> DEFINE p == principal * rateBps * seconds
               q == Rebate(principal, rateBps, seconds)
    <2>1. /\ RebateTyped'
          /\ p \in Int /\ q \in Int
          /\ Exact' = Exact + p
          /\ (accrued * Denominator)' = accrued * Denominator + q * Denominator
          /\ q * Denominator <= p /\ p - q * Denominator <= Denominator - 1
        BY <1>2, AccrueStep DEF RebateInv
    <2> HIDE DEF p, q
    <2>2. /\ Exact \in Int /\ accrued * Denominator \in Int /\ q * Denominator \in Int
          /\ periods * (Denominator - 1) \in Int
        BY <1>2, <2>1 DEF RebateInv, RebateTyped, Exact
    <2>3. (periods * (Denominator - 1))' = periods * (Denominator - 1) + (Denominator - 1)
        BY <1>2, Distribute DEF Accrue, RebateInv, RebateTyped
    <2> QED BY <1>2, <2>1, <2>2, <2>3 DEF RebateInv, NeverAhead, LosesLessThanAUnit
<1>3. ASSUME RebateInv, UNCHANGED rebateVars PROVE RebateInv'
    BY <1>3 DEF rebateVars, RebateInv, RebateTyped, NeverAhead, LosesLessThanAUnit, Exact
<1>4. RebateInv /\ [RebateNext]_rebateVars => RebateInv'
    BY <1>2, <1>3 DEF RebateNext
<1> QED BY <1>1, <1>4, PTL DEF RebateSpec

(* Cutting the time into periods never pays more than it is worth.         *)
THEOREM RebatesNeverAhead == RebateSpec => []NeverAhead
BY RebateHolds, PTL DEF RebateInv

(* Each calculation loses less than one unit.                              *)
THEOREM RebatesLoseLittle == RebateSpec => []LosesLessThanAUnit
BY RebateHolds, PTL DEF RebateInv

-----------------------------------------------------------------------------
(* The batch processor.  A least counterexample stands for induction.      *)
LEMMA LeastElement ==
    ASSUME NEW T \in SUBSET Nat, T # {}
    PROVE  \E m \in T : \A n \in T : m <= n
<1> DEFINE R == {ss \in Nat \X Nat : ss[1] < ss[2]}
<1>1. IsWellFoundedOn(R, Nat)
    BY NatLessThanWellFounded DEF OpToRel
<1>2. PICK x \in T : \A y \in T : ~ (<<y, x>> \in R)
    <2> HIDE DEF R
    <2> QED BY <1>1, WFMin
<1>3. ASSUME NEW y \in T PROVE x <= y
    <2>1. x \in Nat /\ y \in Nat /\ <<y, x>> \notin R
        BY <1>2
    <2>2. <<y, x>> \in Nat \X Nat /\ <<y, x>>[1] = y /\ <<y, x>>[2] = x
        BY <2>1
    <2>3. ~ (y < x)
        BY <2>1, <2>2
    <2> QED BY <2>1, <2>3
<1> QED BY <1>3

(* The sums are what their recursive definition says.                      *)
LEMMA SumsUnfold ==
    ASSUME NEW amounts \in Seq(Nat)
    PROVE  LET sum == Sums(amounts) IN
           /\ sum = [n \in 0 .. Len(amounts) |->
                        IF n = 0 THEN 0 ELSE sum[n - 1] + amounts[n]]
           /\ \A n \in 0 .. Len(amounts) : sum[n] \in Nat
<1> DEFINE Adds(g, m) == g = [n \in 0 .. m |->
                                IF n = 0 THEN 0 ELSE g[n - 1] + amounts[n]]
           Bad == {m \in Nat : ~ \E g : Adds(g, m)}
           sum == Sums(amounts)
           NotNat == {n \in 0 .. Len(amounts) : sum[n] \notin Nat}
<1>0. Len(amounts) \in Nat /\ \A n \in 1 .. Len(amounts) : amounts[n] \in Nat
    OBVIOUS
<1>1. sum = CHOOSE g : Adds(g, Len(amounts))
    BY DEF Sums
<1> HIDE DEF sum
<1>2. Bad = {}
    <2> SUFFICES ASSUME Bad # {} PROVE FALSE
        OBVIOUS
    <2>1. PICK m \in Bad : \A n \in Bad : m <= n
        BY LeastElement
    <2>2. m # 0
        <3>1. Adds([n \in 0 .. 0 |-> 0], 0)
            OBVIOUS
        <3> QED BY <3>1
    <2>3. m \in Nat /\ m - 1 \in Nat /\ m - 1 < m
        BY <2>2
    <2>4. m - 1 \notin Bad
        <3> HIDE DEF Bad
        <3> QED BY <2>1, <2>3
    <2>5. PICK g : Adds(g, m - 1)
        BY <2>3, <2>4
    <2> DEFINE h == [n \in 0 .. m |-> IF n < m THEN g[n] ELSE g[m - 1] + amounts[m]]
    <2>6. ASSUME NEW n \in 0 .. m
          PROVE  h[n] = IF n = 0 THEN 0 ELSE h[n - 1] + amounts[n]
        <3>1. CASE n = m
            BY <2>2, <2>3, <3>1
        <3>2. CASE n # m
            <4>1. n \in 0 .. m - 1 /\ h[n] = g[n] /\ (n # 0 => h[n - 1] = g[n - 1])
                BY <2>3, <3>2
            <4>2. g[n] = IF n = 0 THEN 0 ELSE g[n - 1] + amounts[n]
                BY <2>5, <4>1
            <4> QED BY <4>1, <4>2
        <3> QED BY <3>1, <3>2
    <2>7. Adds(h, m)
        <3> DEFINE k == [n \in 0 .. m |-> IF n = 0 THEN 0 ELSE h[n - 1] + amounts[n]]
        <3> HIDE DEF h
        <3>1. \A n \in 0 .. m : h[n] = k[n]
            BY <2>6
        <3>2. h = k
            BY <3>1 DEF h
        <3> QED BY <3>2
    <2> QED BY <2>1, <2>7
<1>3. Adds(sum, Len(amounts))
    BY <1>0, <1>1, <1>2
<1>4. NotNat = {}
    <2> SUFFICES ASSUME NotNat # {} PROVE FALSE
        OBVIOUS
    <2>1. PICK m \in NotNat : \A n \in NotNat : m <= n
        <3>1. NotNat \in SUBSET Nat
            BY <1>0
        <3> HIDE DEF NotNat
        <3> QED BY <3>1, LeastElement
    <2>2. m \in 1 .. Len(amounts) /\ sum[m] = sum[m - 1] + amounts[m]
        BY <1>0, <1>3
    <2>3. m - 1 \in 0 .. Len(amounts) /\ m - 1 < m /\ m \in Nat
        BY <1>0, <2>2
    <2>4. m - 1 \notin NotNat
        <3> HIDE DEF NotNat
        <3> QED BY <2>1, <2>3
    <2>5. sum[m - 1] \in Nat
        BY <2>3, <2>4
    <2> QED BY <1>0, <2>2, <2>5
<1> QED BY <1>3, <1>4 DEF sum

(* What the checked loop of process_batch has after n amounts: the sum of  *)
(* the first n, or the mark that it does not fit.                          *)
LEMMA RunningIsSum ==
    ASSUME NEW amounts \in Seq(Nat), NEW n \in 0 .. Len(amounts)
    PROVE  /\ Sums(amounts)[n] \in Nat
           /\ Running(amounts)[n] = IF Sums(amounts)[n] > BatchU64Max THEN -1
                                    ELSE Sums(amounts)[n]
<1> DEFINE N == Len(amounts)
           sum == Sums(amounts)
           run == Running(amounts)
           fits == [i \in 0 .. N |-> IF sum[i] > BatchU64Max THEN -1 ELSE sum[i]]
           Checks(g) ==
               g = [i \in 0 .. N |->
                       IF i = 0 THEN 0
                       ELSE IF g[i - 1] = -1 \/ g[i - 1] + amounts[i] > BatchU64Max
                            THEN -1
                            ELSE g[i - 1] + amounts[i]]
           Off == {i \in 0 .. N : run[i] # fits[i]}
<1>0. /\ N \in Nat /\ \A i \in 1 .. N : amounts[i] \in Nat
      /\ BatchU64Max \in Nat
    BY BatchAssumption
<1>1. /\ sum[0] = 0 /\ \A i \in 1 .. N : sum[i] = sum[i - 1] + amounts[i]
      /\ \A i \in 0 .. N : sum[i] \in Nat
    BY <1>0, SumsUnfold
<1>2. run = CHOOSE g : Checks(g)
    BY DEF Running
<1> HIDE DEF sum, run
<1>3. Checks(fits)
    <2> DEFINE next == [i \in 0 .. N |->
                       IF i = 0 THEN 0
                       ELSE IF fits[i - 1] = -1 \/ fits[i - 1] + amounts[i] > BatchU64Max
                            THEN -1
                            ELSE fits[i - 1] + amounts[i]]
    <2>1. ASSUME NEW i \in 0 .. N PROVE fits[i] = next[i]
        <3>1. CASE i = 0
            BY <1>0, <1>1, <3>1
        <3>2. CASE i # 0
            <4>1. i \in 1 .. N /\ i - 1 \in 0 .. N
                BY <1>0, <3>2
            <4>2. /\ sum[i - 1] \in Nat /\ amounts[i] \in Nat
                  /\ sum[i] = sum[i - 1] + amounts[i]
                BY <1>0, <1>1, <4>1
            <4> QED BY <1>0, <3>2, <4>1, <4>2
        <3> QED BY <3>1, <3>2
    <2>2. fits = next
        BY <2>1
    <2> QED BY <2>2
<1>4. Checks(run)
    BY <1>2, <1>3
<1>5. Off = {}
    <2> SUFFICES ASSUME Off # {} PROVE FALSE
        OBVIOUS
    <2>1. PICK m \in Off : \A i \in Off : m <= i
        <3>1. Off \in SUBSET Nat
            BY <1>0
        <3> HIDE DEF Off
        <3> QED BY <3>1, LeastElement
    <2> HIDE DEF fits
    <2>2. m \in 0 .. N /\ run[m] # fits[m]
        OBVIOUS
    <2>3. m # 0
        BY <1>0, <1>3, <1>4, <2>2
    <2>4. m - 1 \in 0 .. N /\ m - 1 < m /\ m \in Nat
        BY <1>0, <2>2, <2>3
    <2>5. m - 1 \notin Off
        <3> HIDE DEF Off
        <3> QED BY <2>1, <2>4
    <2>6. run[m - 1] = fits[m - 1]
        BY <2>4, <2>5
    <2> QED BY <1>3, <1>4, <2>2, <2>3, <2>6
<1> QED BY <1>1, <1>5 DEF sum, run

-----------------------------------------------------------------------------
(* The lock is free between calls and the last answer was exact.           *)
BatchInv == locked = FALSE /\ batch \in Seq(Nat) /\ OutcomeExact

(* Each call leaves the stored lock as it found it, free: a successful one *)
(* by the clear it ends with, a failed one because it is undone.  So after *)
(* any calls the batch processor has answered the last batch, of any       *)
(* length and any u64 amounts, exactly.                                    *)
THEOREM BatchesExact == BatchSpec => []OutcomeExact
<1>1. BatchInit => BatchInv
    <2> SUFFICES ASSUME BatchInit PROVE BatchInv
        OBVIOUS
    <2>1. batch = <<>> /\ batch \in Seq(Nat) /\ Len(batch) = 0
        BY DEF BatchInit
    <2>2. Sums(batch)[0] = 0
        <3>1. /\ DOMAIN Sums(batch) = 0 .. 0
              /\ \A n \in 0 .. 0 : Sums(batch)[n] =
                    IF n = 0 THEN 0 ELSE Sums(batch)[n - 1] + batch[n]
            BY <2>1, SumsUnfold
        <3> QED BY <3>1
    <2> QED BY <2>1, <2>2, BatchAssumption DEF BatchInit, BatchInv, OutcomeExact
<1>2. ASSUME BatchInv, NEW amounts \in BatchInputs, ProcessBatch(amounts)
      PROVE  BatchInv'
    <2>1. amounts \in Seq(Nat) /\ Len(amounts) \in 0 .. Len(amounts)
        BY BatchAssumption
    <2>2. /\ batch' = amounts
          /\ outcome' = IF Len(amounts) > MaxAmounts THEN <<"BatchTooLarge">>
                        ELSE IF Total(amounts) = -1 THEN <<"CalculationOverflow">>
                        ELSE <<"Ok", Total(amounts)>>
        BY <1>2 DEF ProcessBatch, BatchInv, Call, Answered
    <2>a. locked' = FALSE
        <3>1. locked = FALSE /\ locked' = LockAfter(Call(amounts))
            BY <1>2 DEF ProcessBatch, BatchInv
        <3>2. Call(amounts).stores = <<TRUE, FALSE>>
            BY <3>1 DEF Call, Answered
        <3> QED BY <3>1, <3>2 DEF LockAfter
    <2>3. /\ Sums(amounts)[Len(amounts)] \in Nat
          /\ Total(amounts) = IF Sums(amounts)[Len(amounts)] > BatchU64Max THEN -1
                              ELSE Sums(amounts)[Len(amounts)]
        BY <2>1, RunningIsSum DEF Total
    <2>4. OutcomeExact'
        BY <2>2, <2>3 DEF OutcomeExact
    <2> QED BY <2>1, <2>2, <2>a, <2>4 DEF BatchInv
<1>3. BatchInv /\ UNCHANGED batchVars => BatchInv'
    BY DEF batchVars, BatchInv, OutcomeExact
<1>4. BatchInv /\ [BatchNext]_batchVars => BatchInv'
    BY <1>2, <1>3 DEF BatchNext
<1>5. BatchInv => OutcomeExact
    BY DEF BatchInv
<1> QED BY <1>1, <1>4, <1>5, PTL DEF BatchSpec
=============================================================================
