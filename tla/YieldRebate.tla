---------------------------- MODULE YieldRebate ----------------------------
(***************************************************************************)
(* The rebate arithmetic of contracts/stream's yield_integration: simple   *)
(* interest on a principal, in integers.  No entry point calls it yet; the *)
(* state machine here is the caller its documentation describes, which     *)
(* asks for one period at a time, each since the last calculation.         *)
(***************************************************************************)
EXTENDS Integers

CONSTANTS
    Principals, RatesBps, Periods,  \* arguments it is called with
    MaxRateBps,         \* MAX_REBATE_RATE_BPS
    MinPrincipal,       \* MIN_REBATE_THRESHOLD
    Denominator,        \* REBATE_BPS_SCALE * SECONDS_PER_YEAR
    I128Max,
    MaxPeriods          \* bound: periods accrued

ASSUME RebateAssumption ==
    /\ Denominator \in Nat \ {0} /\ I128Max \in Nat /\ MaxRateBps \in Nat
    /\ MinPrincipal \in Nat /\ Periods \subseteq Nat
    /\ Principals \subseteq -I128Max .. I128Max
    /\ RatesBps \subseteq -I128Max .. I128Max

VARIABLES
    principal, rateBps, \* what the vault holds, and its yearly rate
    elapsed,            \* history: seconds accrued for
    periods,            \* history: calculations made
    accrued             \* what they came to

rebateVars == <<principal, rateBps, elapsed, periods, accrued>>

(* Faults: rounding up; dividing before the last multiplication.           *)
Rebate_RoundedUp(p, r, t) == (p * r * t + Denominator - 1) \div Denominator
Rebate_DivideFirst(p, r, t) == ((p * r) \div Denominator) * t

(* calculate_rebate_with_params returns a value.                           *)
CanRebate(p, r, t) ==
    /\ r \in 0 .. MaxRateBps                                \* InvalidRate
    /\ p >= MinPrincipal                                    \* InsufficientPrincipal
    /\ p * r <= I128Max /\ p * r * t <= I128Max             \* ArithmeticOverflow

Rebate(p, r, t) == (p * r * t) \div Denominator

RebateInit ==
    /\ principal \in Principals /\ rateBps \in RatesBps
    /\ elapsed = 0 /\ periods = 0 /\ accrued = 0

Accrue(seconds) ==
    /\ CanRebate(principal, rateBps, seconds)
    /\ periods < MaxPeriods
    /\ accrued' = accrued + Rebate(principal, rateBps, seconds)
    /\ elapsed' = elapsed + seconds
    /\ periods' = periods + 1
    /\ UNCHANGED <<principal, rateBps>>

RebateNext == \E seconds \in Periods : Accrue(seconds)

RebateSpec == RebateInit /\ [][RebateNext]_rebateVars

-----------------------------------------------------------------------------
Exact == principal * rateBps * elapsed

(* However the time is cut into periods, the rebates never come to more    *)
(* than the interest on the whole time ...                                 *)
NeverAhead == accrued * Denominator <= Exact

(* ... and each calculation loses less than one unit of it.                *)
LosesLessThanAUnit == Exact - accrued * Denominator <= periods * (Denominator - 1)
=============================================================================
