------------------------ MODULE DripGovernorProofs ------------------------
(* What holds of the governor for every set of addresses, whichever of     *)
(* them can sign, and every choice of parameter values.                    *)
EXTENDS DripGovernor, FiniteSetTheorems, TLAPS

(* The inductive strengthening: the admins are finitely many, so that the  *)
(* counter can be compared with their number, and before initialize()      *)
(* nobody holds a role.                                                    *)
CountInv(r) == /\ r \in Roles
               /\ IsFiniteSet(Admins(r))
               /\ r.adminCount = Cardinality(Admins(r))

RolesInv == /\ CountInv(roles)
            /\ initialized => Admins(roles) # {}
            /\ ~initialized => roles = NoRoles

-----------------------------------------------------------------------------
(* Granting and revoking keep the counter exact.                           *)

LEMMA GrantCounts ==
    ASSUME NEW r, CountInv(r), NEW role \in Role, NEW account \in Address
    PROVE  /\ CountInv(Granted(r, role, account))
           /\ Admins(Granted(r, role, account))
                = IF role = "Admin" THEN Admins(r) \cup {account} ELSE Admins(r)
<1> DEFINE g == Granted(r, role, account)
<1>0. "Admin" \in Role /\ r \in Roles
    BY DEF Role, CountInv
<1>1. CASE account \in r.holders[role]
    BY <1>1 DEF Granted, Admins
<1>2. CASE account \notin r.holders[role]
    <2>1. /\ g.holders = [r.holders EXCEPT ![role] = @ \cup {account}]
          /\ g.adminCount = r.adminCount + (IF role = "Admin" THEN 1 ELSE 0)
          /\ g = [holders |-> g.holders, adminCount |-> g.adminCount]
        BY <1>2 DEF Granted, AddHolder
    <2>2. Admins(g) = IF role = "Admin" THEN Admins(r) \cup {account} ELSE Admins(r)
        BY <1>0, <2>1 DEF Admins, Roles
    <2>3. g \in Roles
        BY <1>0, <2>1 DEF Roles
    <2>4. /\ IsFiniteSet(Admins(g))
          /\ g.adminCount = Cardinality(Admins(g))
        <3>1. CASE role = "Admin"
            BY <1>2, <2>1, <2>2, <3>1, FS_AddElement DEF CountInv, Admins
        <3>2. CASE role # "Admin"
            BY <1>0, <2>1, <2>2, <3>2 DEF CountInv, Roles
        <3> QED BY <3>1, <3>2
    <2> QED BY <2>2, <2>3, <2>4 DEF CountInv
<1> QED BY <1>1, <1>2

LEMMA RevokeCounts ==
    ASSUME NEW r, CountInv(r), NEW role \in Role, NEW account,
           CanRevoke(r, role, account)
    PROVE  /\ CountInv(Revoked(r, role, account))
           /\ Admins(Revoked(r, role, account))
                = IF role = "Admin" THEN Admins(r) \ {account} ELSE Admins(r)
           /\ Admins(r) # {} => Admins(Revoked(r, role, account)) # {}
<1> DEFINE v == Revoked(r, role, account)
<1>0. "Admin" \in Role /\ r \in Roles
    BY DEF Role, CountInv
<1>1. CASE account \notin r.holders[role]
    BY <1>1 DEF Revoked, Admins
<1>2. CASE account \in r.holders[role]
    <2>1. /\ v.holders = [r.holders EXCEPT ![role] = @ \ {account}]
          /\ v.adminCount = r.adminCount - (IF role = "Admin" THEN 1 ELSE 0)
          /\ v = [holders |-> v.holders, adminCount |-> v.adminCount]
        BY <1>2 DEF Revoked
    <2>2. Admins(v) = IF role = "Admin" THEN Admins(r) \ {account} ELSE Admins(r)
        BY <1>0, <2>1 DEF Admins, Roles
    <2>3. CASE role = "Admin"
        <3>1. r.adminCount > 1 /\ account \in Admins(r)
            BY <1>2, <2>3 DEF CanRevoke, Admins
        <3>2. /\ IsFiniteSet(Admins(v))
              /\ Cardinality(Admins(v)) = Cardinality(Admins(r)) - 1
            BY <2>2, <2>3, <3>1, FS_RemoveElement DEF CountInv
        <3>3. v.adminCount \in Nat /\ v.adminCount = Cardinality(Admins(v))
              /\ v.adminCount # 0
            BY <1>0, <2>1, <2>3, <3>1, <3>2 DEF CountInv, Roles
        <3>4. v \in Roles
            BY <1>0, <2>1, <3>3 DEF Roles
        <3>5. Admins(v) # {}
            BY <3>3, FS_EmptySet
        <3> QED BY <2>2, <3>2, <3>3, <3>4, <3>5 DEF CountInv
    <2>4. CASE role # "Admin"
        <3>1. v \in Roles /\ v.adminCount = r.adminCount
            BY <1>0, <2>1, <2>4 DEF Roles
        <3> QED BY <2>2, <2>4, <3>1 DEF CountInv
    <2> QED BY <2>3, <2>4
<1> QED BY <1>1, <1>2

-----------------------------------------------------------------------------
LEMMA InitRoles == Init => RolesInv
<1> SUFFICES ASSUME Init PROVE RolesInv
    OBVIOUS
<1>1. roles = NoRoles /\ Admins(roles) = {} /\ roles \in Roles
      /\ roles.adminCount = 0
    BY DEF Init, NoRoles, Admins, Roles, Role
<1> QED BY <1>1, FS_EmptySet DEF RolesInv, CountInv, Init

LEMMA NextRoles == RolesInv /\ [Next]_vars => RolesInv'
<1> SUFFICES ASSUME RolesInv, [Next]_vars PROVE RolesInv'
    OBVIOUS
<1>0. "Admin" \in Role /\ "FeeManager" \in Role /\ "RateManager" \in Role
    BY DEF Role
<1>1. ASSUME NEW a \in Address, NEW b \in Address, Initialize(a, b)
      PROVE  RolesInv'
    <2> DEFINE one == Granted(roles, "Admin", a)
               two == Granted(one, "FeeManager", a)
    <2>1. CountInv(one) /\ Admins(one) = Admins(roles) \cup {a}
        BY <1>0, GrantCounts DEF RolesInv
    <2>2. CountInv(two) /\ Admins(two) = Admins(one)
        BY <1>0, <2>1, GrantCounts
    <2>3. roles' = Granted(two, "RateManager", a) /\ initialized'
        BY <1>1 DEF Initialize
    <2> HIDE DEF one, two
    <2>4. CountInv(roles') /\ Admins(roles') = Admins(two)
        BY <1>0, <2>2, <2>3, GrantCounts
    <2> QED BY <2>1, <2>2, <2>3, <2>4 DEF RolesInv, CountInv, Admins
<1>2. ASSUME NEW c \in Account, NEW a \in Address, NEW role \in Role,
             GrantRole(c, role, a)
      PROVE  RolesInv'
    <2>1. roles' = Granted(roles, role, a) /\ initialized' = initialized
        BY <1>2 DEF GrantRole
    <2>2. Admins(roles) # {}
        BY <1>2 DEF GrantRole, HasRole, Admins
    <2>3. initialized
        BY <2>2 DEF RolesInv, NoRoles, Admins, Role
    <2>4. CountInv(roles') /\ Admins(roles) \subseteq Admins(roles')
        BY <2>1, GrantCounts DEF RolesInv
    <2> QED BY <2>1, <2>2, <2>3, <2>4 DEF RolesInv, CountInv, Admins
<1>3. ASSUME NEW c \in Account, NEW a \in Address, NEW role \in Role,
             RevokeRole(c, role, a)
      PROVE  RolesInv'
    <2>1. roles' = Revoked(roles, role, a) /\ initialized' = initialized
          /\ CanRevoke(roles, role, a)
        BY <1>3 DEF RevokeRole
    <2>2. Admins(roles) # {}
        BY <1>3 DEF RevokeRole, HasRole, Admins
    <2>3. initialized
        BY <2>2 DEF RolesInv, NoRoles, Admins, Role
    <2>4. CountInv(roles') /\ Admins(roles') # {}
        BY <2>1, <2>2, RevokeCounts DEF RolesInv
    <2> QED BY <2>1, <2>3, <2>4 DEF RolesInv, CountInv, Admins
<1>4. ASSUME NEW c \in Account, NEW a \in Address, TransferAuthority(c, a)
      PROVE  RolesInv'
    <2> DEFINE granted == Granted(roles, "Admin", a)
    <2>1. /\ roles' = Revoked(granted, "Admin", c) /\ initialized' = initialized
          /\ CanRevoke(granted, "Admin", c)
        BY <1>4 DEF TransferAuthority
    <2>2. CountInv(granted) /\ Admins(granted) = Admins(roles) \cup {a}
        BY <1>0, GrantCounts DEF RolesInv
    <2> HIDE DEF granted
    <2>3. CountInv(roles') /\ Admins(roles') # {}
        <3>1. Admins(granted) # {}
            BY <2>2
        <3> QED BY <1>0, <2>1, <2>2, <3>1, RevokeCounts
    <2>4. Admins(roles) # {}
        BY <1>4 DEF TransferAuthority, HasRole, Admins
    <2>5. initialized
        BY <2>4 DEF RolesInv, NoRoles, Admins, Role
    <2> QED BY <2>1, <2>3, <2>5 DEF RolesInv, CountInv, Admins
<1>5. CASE UNCHANGED <<initialized, roles>>
    BY <1>5 DEF RolesInv, CountInv, Admins
<1> QED BY <1>1, <1>2, <1>3, <1>4, <1>5
        DEF Next, vars, SetFeeBps, SetFeeRecipient, SetMinDuration,
            SetMaxRate, SetMaxDuration

LEMMA RolesAlways == Spec => []RolesInv
<1> QED BY InitRoles, NextRoles, PTL DEF Spec

(* The admin counter is the number of admins, for any number of addresses  *)
(* and any sequence of grants, revocations and transfers.                  *)
THEOREM CounterExact == Spec => []AdminCountExact
<1>1. RolesInv => AdminCountExact
    BY DEF RolesInv, CountInv, AdminCountExact
<1> QED BY <1>1, RolesAlways, PTL

(* An initialized governor always has an admin, who may be an address that *)
(* cannot sign.                                                            *)
THEOREM AdminRemains == Spec => []NeverFrozen
<1>1. RolesInv => NeverFrozen
    BY DEF RolesInv, NeverFrozen
<1> QED BY <1>1, RolesAlways, PTL

(* transfer_authority to another address cannot fail and moves the role.   *)
THEOREM HandoverSucceeds == Spec => []HandoverWorks
<1>1. RolesInv => HandoverWorks
    <2> SUFFICES ASSUME RolesInv, NEW caller \in Admins(roles),
                        NEW new \in Address \ {caller}
                 PROVE  LET granted == Granted(roles, "Admin", new) IN
                        /\ CanRevoke(granted, "Admin", caller)
                        /\ Admins(Revoked(granted, "Admin", caller))
                             = (Admins(roles) \cup {new}) \ {caller}
        BY DEF HandoverWorks
    <2> DEFINE granted == Granted(roles, "Admin", new)
    <2>0. "Admin" \in Role
        BY DEF Role
    <2>1. CountInv(granted) /\ Admins(granted) = Admins(roles) \cup {new}
        BY <2>0, GrantCounts DEF RolesInv
    <2>2. granted.adminCount > 1
        <3>1. /\ IsFiniteSet(Admins(granted))
              /\ granted.adminCount = Cardinality(Admins(granted))
              /\ granted.adminCount \in Nat
            BY <2>1 DEF CountInv, Roles
        <3>2. {caller, new} \subseteq Admins(granted)
            BY <2>1
        <3>3. Cardinality({caller, new}) = 2
            <4>1. {caller, new} = {caller} \cup {new} /\ new \notin {caller}
                OBVIOUS
            <4>2. IsFiniteSet({caller}) /\ Cardinality({caller}) = 1
                BY FS_Singleton
            <4>3. Cardinality({caller} \cup {new}) = Cardinality({caller}) + 1
                <5> DEFINE one == {caller}
                <5>1. IsFiniteSet(one) /\ new \notin one
                    BY <4>1, <4>2
                <5> HIDE DEF one
                <5>2. Cardinality(one \cup {new}) = Cardinality(one) + 1
                    BY <5>1, FS_AddElement
                <5> QED BY <5>2 DEF one
            <4> QED BY <4>1, <4>2, <4>3
        <3>4. Cardinality({caller, new}) <= Cardinality(Admins(granted))
            BY <3>1, <3>2, FS_Subset
        <3> QED BY <3>1, <3>3, <3>4
    <2>3. CanRevoke(granted, "Admin", caller)
        BY <2>2 DEF CanRevoke
    <2>4. Admins(Revoked(granted, "Admin", caller)) = Admins(granted) \ {caller}
        BY <2>0, <2>1, <2>3, RevokeCounts
    <2> QED BY <2>1, <2>3, <2>4
<1> QED BY <1>1, RolesAlways, PTL

-----------------------------------------------------------------------------
(* The parameters keep to the range each setter checks, and the two        *)
(* setters that check a product keep it in range in either order.          *)
ParamInv == initialized => /\ config \in Config
                           /\ config.maxRate * config.minDuration <= I128Max

LEMMA NextParams == ParamInv /\ [Next]_vars => ParamInv'
<1> SUFFICES ASSUME ParamInv, [Next]_vars PROVE ParamInv'
    OBVIOUS
<1> USE ParameterAssumption
<1>1. ASSUME NEW a \in Address, NEW b \in Address, Initialize(a, b)
      PROVE  ParamInv'
    <2>1. config' \in Config
        BY <1>1 DEF Initialize, Config
    <2> QED BY <1>1, <2>1 DEF Initialize, ParamInv
<1>2. ASSUME NEW c \in Account, NEW bps \in Bps, SetFeeBps(c, bps)
      PROVE  ParamInv'
    <2>1. bps \in 0 .. FeeLimit
        BY <1>2 DEF SetFeeBps, ValidFee
    <2> QED BY <1>2, <2>1 DEF SetFeeBps, ParamInv, Config
<1>3. ASSUME NEW c \in Account, NEW a \in Address, SetFeeRecipient(c, a)
      PROVE  ParamInv'
    BY <1>3 DEF SetFeeRecipient, ParamInv, Config
<1>4. ASSUME NEW c \in Account, NEW seconds \in Seconds, SetMinDuration(c, seconds)
      PROVE  ParamInv'
    <2>1. seconds \in 1 .. U64Max
        BY <1>4 DEF SetMinDuration
    <2> QED BY <1>4, <2>1 DEF SetMinDuration, ProductFits, ParamInv, Config
<1>5. ASSUME NEW c \in Account, NEW rate \in Rates, SetMaxRate(c, rate)
      PROVE  ParamInv'
    <2>1. rate \in 1 .. I128Max
        BY <1>5 DEF SetMaxRate
    <2> QED BY <1>5, <2>1 DEF SetMaxRate, ProductFits, ParamInv, Config
<1>6. ASSUME NEW c \in Account, NEW seconds \in Seconds, SetMaxDuration(c, seconds)
      PROVE  ParamInv'
    <2>1. seconds \in 1 .. U64Max
        BY <1>6 DEF SetMaxDuration
    <2> QED BY <1>6, <2>1 DEF SetMaxDuration, ParamInv, Config
<1>7. CASE UNCHANGED <<initialized, config>>
    BY <1>7 DEF ParamInv
<1> QED BY <1>1, <1>2, <1>3, <1>4, <1>5, <1>6, <1>7
        DEF Next, vars, GrantRole, RevokeRole, TransferAuthority

(* The governor's invariant as a whole.                                    *)
GovernorInv == RolesInv /\ ParamInv /\ initialized \in BOOLEAN

LEMMA GovernorInit == Init => GovernorInv
<1> QED BY InitRoles DEF Init, ParamInv, GovernorInv

LEMMA GovernorNext == GovernorInv /\ [Next]_vars => GovernorInv'
<1>1. initialized \in BOOLEAN /\ [Next]_vars => initialized' \in BOOLEAN
    BY DEF Next, vars, Initialize, GrantRole, RevokeRole, TransferAuthority,
           SetFeeBps, SetFeeRecipient, SetMinDuration, SetMaxRate, SetMaxDuration
<1> QED BY <1>1, NextRoles, NextParams DEF GovernorInv

LEMMA GovernorTypes == GovernorInv => TypeOK
<1> QED BY DEF GovernorInv, RolesInv, CountInv, ParamInv, TypeOK

(* Types, and with them the ranges of fee, durations and rate, always hold. *)
THEOREM GovernorTyped == Spec => []TypeOK
<1> QED BY GovernorInit, GovernorNext, GovernorTypes, PTL DEF Spec

(* The product of top rate and shortest duration never overflows, in       *)
(* whichever order rate and duration managers set them.                    *)
THEOREM PrincipalRepresentable == Spec => []PrincipalFits
<1>1. Init => ParamInv
    BY DEF Init, ParamInv
<1>2. ParamInv => PrincipalFits
    BY DEF ParamInv, PrincipalFits
<1> QED BY <1>1, <1>2, NextParams, PTL DEF Spec

-----------------------------------------------------------------------------
(* The promise of Governance, step by step: the record of grants and its   *)
(* counter seen as the sets of holders.                                    *)

LEMMA GrantHolds ==
    ASSUME NEW r, r \in Roles, NEW role \in Role, NEW account \in Address
    PROVE  Granted(r, role, account).holders
             = [r.holders EXCEPT ![role] = @ \cup {account}]
<1>1. CASE account \in r.holders[role]
    <2>1. r.holders[role] \cup {account} = r.holders[role]
        BY <1>1
    <2> QED BY <1>1, <2>1 DEF Granted, Roles
<1>2. CASE account \notin r.holders[role]
    BY <1>2 DEF Granted, AddHolder
<1> QED BY <1>1, <1>2

LEMMA RevokeHolds ==
    ASSUME NEW r, r \in Roles, NEW role \in Role, NEW account
    PROVE  Revoked(r, role, account).holders
             = [r.holders EXCEPT ![role] = @ \ {account}]
<1>1. CASE account \notin r.holders[role]
    <2>1. r.holders[role] \ {account} = r.holders[role]
        BY <1>1
    <2> QED BY <1>1, <2>1 DEF Revoked, Roles
<1>2. CASE account \in r.holders[role]
    BY <1>2 DEF Revoked
<1> QED BY <1>1, <1>2

(* The counter lets an admin go only if another one stays.                 *)
LEMMA CounterGuards ==
    ASSUME NEW r, CountInv(r), NEW role \in Role, NEW account \in Address,
           CanRevoke(r, role, account), Admins(r) # {}
    PROVE  role = "Admin" => Admins(r) \ {account} # {}
<1>1. Admins(Revoked(r, role, account)) # {}
    BY RevokeCounts
<1>2. role = "Admin" => Admins(Revoked(r, role, account)) = Admins(r) \ {account}
    BY RevokeCounts
<1> QED BY <1>1, <1>2

LEMMA PromiseStarts == Init => Promise!GovernanceInit
BY DEF Init, NoRoles, Promise!GovernanceInit

LEMMA PromiseSteps ==
    ASSUME GovernorInv, [Next]_vars
    PROVE  Promise!GovernanceNext \/ UNCHANGED Promise!governance
<1>0. /\ "Admin" \in Role /\ "FeeManager" \in Role /\ "RateManager" \in Role
      /\ CountInv(roles) /\ roles \in Roles
    BY DEF Role, GovernorInv, RolesInv, CountInv
<1>a. ASSUME NEW c, NEW role \in Role, HasRole(c, role) PROVE initialized
    BY <1>a DEF GovernorInv, RolesInv, NoRoles, HasRole
<1>b. initialized => config \in Config
    BY DEF GovernorInv, ParamInv
<1>c. Admins(roles) = Promise!Admin
    BY DEF Admins, Promise!Admin
<1>1. ASSUME NEW a \in Address, NEW b \in Address, Initialize(a, b)
      PROVE  Promise!Begin
    <2> DEFINE one == Granted(roles, "Admin", a)
               two == Granted(one, "FeeManager", a)
    <2>1. roles.holders = [r \in Role |-> {}]
        BY <1>1 DEF Initialize, GovernorInv, RolesInv, NoRoles
    <2>2. one.holders = [roles.holders EXCEPT !["Admin"] = @ \cup {a}]
        BY <1>0, GrantHolds
    <2>3. CountInv(one)
        BY <1>0, GrantCounts
    <2>4. roles' = Granted(two, "RateManager", a)
        BY <1>1 DEF Initialize
    <2> HIDE DEF one
    <2>5. two.holders = [one.holders EXCEPT !["FeeManager"] = @ \cup {a}]
        <3>1. one \in Roles
            BY <2>3 DEF CountInv
        <3> QED BY <1>0, <3>1, GrantHolds
    <2>6. two \in Roles
        <3>1. CountInv(two)
            BY <1>0, <2>3, GrantCounts
        <3> HIDE DEF two
        <3> QED BY <3>1 DEF CountInv
    <2> HIDE DEF two
    <2>7. roles'.holders = [two.holders EXCEPT !["RateManager"] = @ \cup {a}]
        <3>1. Granted(two, "RateManager", a).holders
                = [two.holders EXCEPT !["RateManager"] = @ \cup {a}]
            BY <1>0, <2>6, GrantHolds
        <3> QED BY <2>4, <3>1
    <2>8. roles'.holders = [r \in Role |-> {a}]
        <3>1. one.holders = [r \in Role |-> IF r = "Admin" THEN {a} ELSE {}]
            BY <2>1, <2>2
        <3>2. two.holders = [r \in Role |-> IF r = "RateManager" THEN {} ELSE {a}]
            BY <2>5, <3>1 DEF Role
        <3> QED BY <2>7, <3>2
    <2>9. ~initialized /\ initialized' = TRUE
        BY <1>1 DEF Initialize
    <2> QED BY <2>8, <2>9 DEF Promise!Begin
<1>2. ASSUME NEW c \in Account, NEW a \in Address, NEW role \in Role,
             GrantRole(c, role, a)
      PROVE  Promise!Grant
    <2>1. roles'.holders = [roles.holders EXCEPT ![role] = @ \cup {a}]
        BY <1>0, <1>2, GrantHolds DEF GrantRole
    <2> QED BY <1>2, <2>1 DEF GrantRole, HasRole, Promise!Grant, Promise!Can
<1>3. ASSUME NEW c \in Account, NEW a \in Address, NEW role \in Role,
             RevokeRole(c, role, a)
      PROVE  Promise!Revoke
    <2>1. roles'.holders = [roles.holders EXCEPT ![role] = @ \ {a}]
        BY <1>0, <1>3, RevokeHolds DEF RevokeRole
    <2>2. Admins(roles) # {}
        BY <1>3 DEF RevokeRole, HasRole, Admins
    <2>3. role = "Admin" => Admins(roles) \ {a} # {}
        BY <1>0, <1>3, <2>2, CounterGuards DEF RevokeRole
    <2> QED BY <1>3, <1>c, <2>1, <2>3
            DEF RevokeRole, HasRole, Promise!Revoke, Promise!Can
<1>4. ASSUME NEW c \in Account, NEW a \in Address, TransferAuthority(c, a)
      PROVE  Promise!Revoke \/ Promise!HandOver
    <2> DEFINE granted == Granted(roles, "Admin", a)
    <2>1. /\ roles' = Revoked(granted, "Admin", c)
          /\ CanRevoke(granted, "Admin", c) /\ c \in Admins(roles)
          /\ UNCHANGED <<initialized, config>>
        BY <1>4 DEF TransferAuthority, HasRole, Admins
    <2>2. /\ CountInv(granted) /\ Admins(granted) = Admins(roles) \cup {a}
          /\ granted.holders = [roles.holders EXCEPT !["Admin"] = @ \cup {a}]
        BY <1>0, GrantCounts, GrantHolds
    <2> HIDE DEF granted
    <2>3. roles'.holders = [granted.holders EXCEPT !["Admin"] = @ \ {c}]
        BY <1>0, <2>1, <2>2, RevokeHolds DEF CountInv
    <2>4. roles'.holders = [roles.holders EXCEPT !["Admin"] = (@ \cup {a}) \ {c}]
        BY <1>0, <2>2, <2>3 DEF Roles
    <2>5. CASE a # c
        BY <1>c, <2>1, <2>4, <2>5 DEF Promise!HandOver
    <2>6. CASE a = c
        <3>1. Admins(roles) \cup {a} = Admins(roles)
            BY <2>1, <2>6
        <3>2. Admins(roles) \ {c} # {}
            BY <1>0, <2>1, <2>2, <3>1, CounterGuards
        <3>3. (roles.holders["Admin"] \cup {a}) \ {c} = roles.holders["Admin"] \ {c}
            BY <2>6
        <3>4. roles'.holders = [roles.holders EXCEPT !["Admin"] = @ \ {c}]
            BY <2>4, <3>3
        <3>5. Promise!Can("Admin")
            BY <2>1 DEF Admins, Promise!Can
        <3> QED BY <1>0, <1>c, <2>1, <2>6, <3>2, <3>4, <3>5 DEF Promise!Revoke
    <2> QED BY <2>5, <2>6
<1>5. ASSUME NEW c \in Account, NEW bps, SetFeeBps(c, bps)
      PROVE  Promise!DecideFees
    <2>1. initialized /\ config \in Config
        BY <1>0, <1>5, <1>a, <1>b DEF SetFeeBps
    <2> QED BY <1>5, <2>1 DEF SetFeeBps, HasRole, Config, Promise!DecideFees, Promise!Can
<1>6. ASSUME NEW c \in Account, NEW a, SetFeeRecipient(c, a)
      PROVE  Promise!DecideFees
    <2>1. initialized /\ config \in Config
        BY <1>0, <1>6, <1>a, <1>b DEF SetFeeRecipient
    <2> QED BY <1>6, <2>1 DEF SetFeeRecipient, HasRole, Config, Promise!DecideFees, Promise!Can
<1>7. ASSUME NEW c \in Account, NEW x,
             SetMinDuration(c, x) \/ SetMaxDuration(c, x) \/ SetMaxRate(c, x)
      PROVE  Promise!DecideLimits
    <2>1. HasRole(c, "RateManager") /\ UNCHANGED <<initialized, roles>>
        BY <1>7 DEF SetMinDuration, SetMaxDuration, SetMaxRate
    <2>2. initialized /\ config \in Config
        BY <1>0, <1>a, <1>b, <2>1
    <2>3. config'.feeBps = config.feeBps /\ config'.feeRecipient = config.feeRecipient
        BY <1>7, <2>2 DEF SetMinDuration, SetMaxDuration, SetMaxRate, Config
    <2> QED BY <2>1, <2>2, <2>3 DEF HasRole, Promise!DecideLimits, Promise!Can
<1>8. ASSUME UNCHANGED vars PROVE UNCHANGED Promise!governance
    BY <1>8 DEF vars, Promise!governance
<1> QED BY <1>1, <1>2, <1>3, <1>4, <1>5, <1>6, <1>7, <1>8
        DEF Next, Promise!GovernanceNext

(* The governor keeps the promise, for any number of addresses: the last   *)
(* admin can hand over but not be lost, a role that nobody who can sign    *)
(* holds lies dormant, and no call changes more than one of grants, fees   *)
(* and limits.                                                             *)
THEOREM GovernanceKept == Spec => ImplementsGovernance
<1>1. GovernorInv /\ [Next]_vars => [Promise!GovernanceNext]_(Promise!governance)
    BY PromiseSteps
<1> QED BY <1>1, PromiseStarts, GovernorInit, GovernorNext,
           PTL DEF Spec, ImplementsGovernance, Promise!GovernanceSpec
=============================================================================
