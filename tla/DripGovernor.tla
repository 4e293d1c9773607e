--------------------------- MODULE DripGovernor ---------------------------
(***************************************************************************)
(* The protocol's parameters and who may change them: the contract of      *)
(* contracts/governor.  Three roles, each held by any number of addresses, *)
(* gate the setters; the number of admins is kept beside the grants so     *)
(* that the last one cannot be revoked.  A call that fails is rolled back  *)
(* and so is a stuttering step.                                            *)
(***************************************************************************)
EXTENDS Integers, FiniteSets

CONSTANTS
    Address,            \* what can be given a role or the fees
    Account,            \* the addresses that can sign calls
    Bps, Seconds, Rates,\* arguments the setters are called with
    DefaultFee, DefaultMin, DefaultMax, DefaultRate,    \* set by initialize()
    FeeLimit,           \* 10_000 basis points
    I128Max, U64Max

Role == {"Admin", "FeeManager", "RateManager"}

ASSUME ParameterAssumption ==
    /\ Account \subseteq Address
    /\ I128Max \in Nat /\ U64Max \in Nat /\ FeeLimit \in Nat
    /\ Bps \subseteq Nat /\ Seconds \subseteq 0 .. U64Max
    /\ Rates \subseteq -I128Max .. I128Max
    /\ DefaultFee \in 0 .. FeeLimit /\ DefaultMin \in 1 .. U64Max
    /\ DefaultMax \in 1 .. U64Max /\ DefaultRate \in 1 .. I128Max
    /\ DefaultRate * DefaultMin <= I128Max

VARIABLES
    initialized,    \* FactoryAddress is set
    roles,          \* the Role keys that exist, and AdminCount
    config          \* the parameters create_stream reads

vars == <<initialized, roles, config>>

Roles == [holders : [Role -> SUBSET Address], adminCount : Nat]

Config == [feeBps : 0 .. FeeLimit, feeRecipient : Address,
           minDuration : 1 .. U64Max, maxDuration : 1 .. U64Max,
           maxRate : 1 .. I128Max]

(* Types, and the range each setter checks its argument against.           *)
TypeOK ==
    /\ initialized \in BOOLEAN
    /\ roles \in Roles
    /\ initialized => config \in Config

-----------------------------------------------------------------------------
(* Role bookkeeping on a record of grants.  As in DripStream, X_Fault is   *)
(* what X would be after a plausible slip and serves mutation runs only.   *)

NoRoles == [holders |-> [r \in Role |-> {}], adminCount |-> 0]

Admins(r) == r.holders["Admin"]

AddHolder(r, role, account, more) ==
    [holders |-> [r.holders EXCEPT ![role] = @ \cup {account}],
     adminCount |-> r.adminCount + more]

(* Faults: granting again counts again; a grant does not count.            *)
Granted_Again(r, role, account) ==
    AddHolder(r, role, account, IF role = "Admin" THEN 1 ELSE 0)
Granted_Uncounted(r, role, account) == AddHolder(r, role, account, 0)

Granted(r, role, account) ==
    IF account \in r.holders[role] THEN r
    ELSE AddHolder(r, role, account, IF role = "Admin" THEN 1 ELSE 0)

(* Fault: the LastAdmin check is dropped.                                  *)
CanRevoke_Any(r, role, account) == TRUE

CanRevoke(r, role, account) ==
    role = "Admin" /\ account \in r.holders[role]
        => r.adminCount > 1                                 \* LastAdmin

Revoked(r, role, account) ==
    IF account \notin r.holders[role] THEN r
    ELSE [holders |-> [r.holders EXCEPT ![role] = @ \ {account}],
          adminCount |-> r.adminCount - (IF role = "Admin" THEN 1 ELSE 0)]

(* Fault: a caller with any role will do.                                  *)
HasRole_Any(caller, role) == \E r \in Role : caller \in roles.holders[r]
HasRole(caller, role) == caller \in roles.holders[role]     \* NotAuthorized

(* Faults: the setter does not check its argument; nor the product.        *)
ValidFee_Any(bps) == TRUE
ValidFee(bps) == bps <= FeeLimit                            \* InvalidParam

ProductFits_Any(rate, seconds) == TRUE
ProductFits(rate, seconds) == rate * seconds <= I128Max     \* InvalidParam

-----------------------------------------------------------------------------
(* Before initialize() there are no grants, so no other call succeeds.     *)
Init ==
    /\ initialized = FALSE
    /\ roles = NoRoles
    /\ config = <<>>

(* Whoever calls first names the authority, which gets all three roles.    *)
Initialize(authority, feeRecipient) ==
    /\ ~initialized                                         \* AlreadyInitialized
    /\ initialized' = TRUE
    /\ config' = [feeBps |-> DefaultFee, feeRecipient |-> feeRecipient,
                  minDuration |-> DefaultMin, maxDuration |-> DefaultMax,
                  maxRate |-> DefaultRate]
    /\ roles' = Granted(Granted(Granted(roles, "Admin", authority),
                                "FeeManager", authority),
                        "RateManager", authority)

GrantRole(caller, role, account) ==
    /\ HasRole(caller, "Admin")
    /\ roles' = Granted(roles, role, account)
    /\ UNCHANGED <<initialized, config>>

RevokeRole(caller, role, account) ==
    /\ HasRole(caller, "Admin")
    /\ CanRevoke(roles, role, account)
    /\ roles' = Revoked(roles, role, account)
    /\ UNCHANGED <<initialized, config>>

(* The grant comes first; the revocation sees its effect.                  *)
TransferAuthority(caller, new) ==
    LET granted == Granted(roles, "Admin", new) IN
    /\ HasRole(caller, "Admin")
    /\ CanRevoke(granted, "Admin", caller)
    /\ roles' = Revoked(granted, "Admin", caller)
    /\ UNCHANGED <<initialized, config>>

SetFeeBps(caller, bps) ==
    /\ HasRole(caller, "FeeManager")
    /\ ValidFee(bps)
    /\ config' = [config EXCEPT !.feeBps = bps]
    /\ UNCHANGED <<initialized, roles>>

SetFeeRecipient(caller, recipient) ==
    /\ HasRole(caller, "FeeManager")
    /\ config' = [config EXCEPT !.feeRecipient = recipient]
    /\ UNCHANGED <<initialized, roles>>

SetMinDuration(caller, seconds) ==
    /\ HasRole(caller, "RateManager")
    /\ seconds # 0                                          \* InvalidParam
    /\ ProductFits(config.maxRate, seconds)
    /\ config' = [config EXCEPT !.minDuration = seconds]
    /\ UNCHANGED <<initialized, roles>>

SetMaxRate(caller, rate) ==
    /\ HasRole(caller, "RateManager")
    /\ rate > 0                                             \* InvalidParam
    /\ ProductFits(rate, config.minDuration)
    /\ config' = [config EXCEPT !.maxRate = rate]
    /\ UNCHANGED <<initialized, roles>>

SetMaxDuration(caller, seconds) ==
    /\ HasRole(caller, "RateManager")
    /\ seconds # 0                                          \* InvalidParam
    /\ config' = [config EXCEPT !.maxDuration = seconds]
    /\ UNCHANGED <<initialized, roles>>

Next ==
    \/ \E authority, recipient \in Address : Initialize(authority, recipient)
    \/ \E caller \in Account, address \in Address, role \in Role :
          GrantRole(caller, role, address) \/ RevokeRole(caller, role, address)
    \/ \E caller \in Account, address \in Address :
          TransferAuthority(caller, address) \/ SetFeeRecipient(caller, address)
    \/ \E caller \in Account, bps \in Bps : SetFeeBps(caller, bps)
    \/ \E caller \in Account, seconds \in Seconds :
          SetMinDuration(caller, seconds) \/ SetMaxDuration(caller, seconds)
    \/ \E caller \in Account, rate \in Rates : SetMaxRate(caller, rate)

Spec == Init /\ [][Next]_vars

-----------------------------------------------------------------------------
(* The counter that guards the last admin counts the admins exactly, after *)
(* any sequence of repeated grants, idle revocations and transfers.        *)
AdminCountExact == roles.adminCount = Cardinality(Admins(roles))

(* The role never dies out: once there was an admin there is one.  It may  *)
(* be an address that cannot sign, since whoever is granted a role is not  *)
(* asked for a signature; then nobody can govern any more.                 *)
NeverFrozen == initialized => Admins(roles) # {}

(* Handing the admin role to another address always works, also for the    *)
(* sole admin, and leaves the new one with it and the caller without.      *)
HandoverWorks ==
    \A caller \in Admins(roles) : \A new \in Address \ {caller} :
        LET granted == Granted(roles, "Admin", new) IN
        /\ CanRevoke(granted, "Admin", caller)
        /\ Admins(Revoked(granted, "Admin", caller))
             = (Admins(roles) \cup {new}) \ {caller}

(* Whichever order the setters are called in, the principal of a shortest  *)
(* stream at the top rate fits an i128.                                    *)
PrincipalFits == initialized => config.maxRate * config.minDuration <= I128Max

(* With a counter instead of sets and several writes per call, the         *)
(* contract does what Governance promises: initialize() never takes a      *)
(* governor over, no revocation, resignation or handover loses the last    *)
(* admin, what a role gates stays as it is while nobody who can sign has   *)
(* the role, and no call changes more than one of grants, fees and limits. *)
Promise == INSTANCE Governance WITH
    begun <- initialized, holders <- roles.holders,
    fees <- IF initialized THEN <<config.feeBps, config.feeRecipient>> ELSE <<>>,
    limits <- IF initialized
              THEN <<config.minDuration, config.maxDuration, config.maxRate>>
              ELSE <<>>

ImplementsGovernance == Promise!GovernanceSpec
=============================================================================
