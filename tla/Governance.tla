---------------------------- MODULE Governance ----------------------------
(***************************************************************************)
(* What the governor promises, free of counters: sets of addresses, and    *)
(* that the admins can be replaced but never run out.  Grants change only  *)
(* while there is an admin that can sign, fees only while there is such a  *)
(* fee manager and limits such a rate manager, each by itself.             *)
(***************************************************************************)
CONSTANTS Address, Account, Role

VARIABLES
    begun,      \* somebody has named the first admin
    holders,    \* role -> the addresses that have it
    fees,       \* what fee managers decide
    limits      \* what rate managers decide

governance == <<begun, holders, fees, limits>>

Admin == holders["Admin"]
Can(role) == holders[role] \cap Account # {}

GovernanceInit ==
    /\ begun = FALSE
    /\ holders = [role \in Role |-> {}]

(* Once, and the first admin has every role.                               *)
Begin ==
    /\ ~begun /\ begun' = TRUE
    /\ \E first \in Address : holders' = [role \in Role |-> {first}]

Grant ==
    /\ Can("Admin")
    /\ \E role \in Role, address \in Address :
          holders' = [holders EXCEPT ![role] = @ \cup {address}]
    /\ UNCHANGED <<begun, fees, limits>>

(* Anybody may lose any role, but for the last admin; an admin may also    *)
(* resign this way.                                                        *)
Revoke ==
    /\ Can("Admin")
    /\ \E role \in Role, address \in Address :
          /\ role = "Admin" => Admin \ {address} # {}
          /\ holders' = [holders EXCEPT ![role] = @ \ {address}]
    /\ UNCHANGED <<begun, fees, limits>>

(* The sole admin too can hand over, in one step.                          *)
HandOver ==
    /\ \E old \in Admin \cap Account, new \in Address :
          /\ old # new
          /\ holders' = [holders EXCEPT !["Admin"] = (@ \cup {new}) \ {old}]
    /\ UNCHANGED <<begun, fees, limits>>

DecideFees ==
    /\ begun /\ Can("FeeManager")
    /\ UNCHANGED <<begun, holders, limits>>

DecideLimits ==
    /\ begun /\ Can("RateManager")
    /\ UNCHANGED <<begun, holders, fees>>

GovernanceNext ==
    Begin \/ Grant \/ Revoke \/ HandOver \/ DecideFees \/ DecideLimits

GovernanceSpec == GovernanceInit /\ [][GovernanceNext]_governance
=============================================================================
