------------------------------- MODULE Access -------------------------------
(***************************************************************************)
(* Who may do what: the feature policy of feature_access.py, evaluated for a *)
(* person as Home Assistant knows them now.  A command carries the policy it *)
(* read, never a role.                                                      *)
(***************************************************************************)
EXTENDS Naturals, FiniteSets

CONSTANTS
  Persons,
  Policies,     \* what administrators save: rules for some <<feature, operation>>
  MaxRoleTurns  \* bound: changes of a person's role

ASSUME AccessAssumption ==
  /\ MaxRoleTurns \in Nat
  /\ \A p \in Policies : \A f \in DOMAIN p :
       /\ p[f].mode \in {"inherit", "household", "admin", "selected_users"}
       /\ p[f].users \subseteq Persons

VARIABLES
  people,       \* per person: active, administrator
  policy,       \* the stored policy: its rules, whether the validator accepts it
  roleTurns

accessVars == <<people, policy, roleTurns>>

AccessInit ==
  /\ people = [p \in Persons |-> [active |-> TRUE, admin |-> TRUE]]
  /\ policy \in [rules : Policies, ready : BOOLEAN]
  /\ roleTurns = 0

(* _CATALOG: who may use an operation unless a rule says otherwise. *)
Inherited(feature, operation) ==
  CASE feature = "energy_analysis" -> "household"
    [] feature = "energy_tariff" -> IF operation = "execute" THEN "admin" ELSE "household"
    [] feature \in {"energy_reports", "log_reports"} -> "admin"

(* _allowed: an active administrator may use every operation of the catalog. *)
Allowed(rules, feature, operation, p) ==
  LET f == <<feature, operation>>
      mode == IF f \notin DOMAIN rules \/ rules[f].mode = "inherit"
              THEN Inherited(feature, operation) ELSE rules[f].mode
  IN people[p].active /\ \/ people[p].admin
                         \/ mode = "household"
                         \/ mode = "selected_users" /\ p \in rules[f].users

ActiveAdmin(p) == people[p].active /\ people[p].admin

(* Home Assistant changes a person's role or disables the person. *)
RolesTurn ==
  /\ roleTurns < MaxRoleTurns /\ roleTurns' = roleTurns + 1
  /\ \E p \in Persons, role \in [active : BOOLEAN, admin : BOOLEAN] :
       role # people[p] /\ people' = [people EXCEPT ![p] = role]
  /\ UNCHANGED policy
=============================================================================
