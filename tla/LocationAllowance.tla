-------------------------- MODULE LocationAllowance --------------------------
(***************************************************************************)
(* The organization row, its active-location allowance and its locations:  *)
(* services/location_allowance_service.py, business_location_service.py,   *)
(* migration_import_service.py and commercial_plan_service.py.             *)
(*                                                                         *)
(* orgLock is the FOR UPDATE lock on the organization row, which lasts to  *)
(* the end of a transaction: the transactions that hold it over a call or  *)
(* over several statements are steps of their holder, all others are one   *)
(* step and wait for the lock.  limit is the active-location entitlement,  *)
(* a copy of what the plan includes.                                       *)
(***************************************************************************)
EXTENDS Naturals, FiniteSets

CONSTANTS
  Locations,
  Included,     \* active_location_limit of each plan: [Plans -> Nat]
  Nobody,       \* the organization row is not locked
  Desk,         \* holder: a request that creates, imports or activates locations
  MaxChanges    \* bound: changes by users and operators

Plans == {"solo", "multi_location"}

ASSUME AllowanceAssumption ==
  /\ IsFiniteSet(Locations) /\ Included \in [Plans -> Nat] /\ Desk # Nobody
  /\ Included["solo"] < Included["multi_location"] /\ MaxChanges \in Nat

VARIABLES
  org,       \* status, plan_type, entitlement limit, enforced or observed
  place,     \* status of each location
  orgLock,
  desk,      \* the locations the request at the desk is about to turn on
  changes,
  quota      \* how many of them this behaviour has at most

placeVars == <<place, desk, quota>>
allowanceVars == <<org, place, orgLock, desk, changes, quota>>

ActivePlaces == {l \in Locations : place[l] = "active"}
Unlocked == orgLock = Nobody

AllowanceInit ==
  /\ \E enforced \in BOOLEAN :
       org = [status |-> "active", plan |-> "multi_location",
              limit |-> Included["multi_location"], enforced |-> enforced]
  /\ place \in [Locations -> {"active", "archived"}]
  /\ Cardinality(ActivePlaces) \in 1..Included["multi_location"]
  /\ orgLock = Nobody /\ desk = {} /\ changes = 0 /\ quota \in 0..MaxChanges

Changed == changes < quota /\ changes' = changes + 1 /\ UNCHANGED quota

-------------------------------------------------------------------------------

\* get_active_location_allowance: a saved limit that is not the plan's is
\* brought in line before it is used.
LimitInForce(o) == Included[o.plan]

OverLimit(o) == o.enforced /\ Cardinality(ActivePlaces) > LimitInForce(o)

\* assert_provider_work_allowed for work at location l.
ProviderWorkAllowed(l) ==
  org.status = "active" /\ ~OverLimit(org) /\ place[l] = "active"

Reconciled(o) == [o EXCEPT !.limit = LimitInForce(o)]

\* Mutant: capacity is counted before the organization is locked.
CheckCapacityUnlocked(new) ==
  /\ desk = {}
  /\ new # {} /\ new \cap ActivePlaces = {}
  /\ org.status = "active"
  /\ org.enforced => Cardinality(ActivePlaces \cup new) <= LimitInForce(org)
  /\ desk' = new /\ Changed
  /\ UNCHANGED <<org, place, orgLock>>

\* A location is created or turned on again, or several are imported: with the
\* organization locked, they must all fit.
CheckCapacity(new) ==
  /\ Unlocked
  /\ new # {} /\ new \cap ActivePlaces = {}
  /\ org.status = "active"
  /\ org.enforced => Cardinality(ActivePlaces \cup new) <= LimitInForce(org)
  /\ orgLock' = Desk /\ desk' = new
  /\ Changed /\ UNCHANGED <<org, place>>

\* ...and are saved by the same transaction, or nothing is.
ActivatePlaces ==
  /\ desk # {}
  /\ \/ /\ place' = [l \in Locations |-> IF l \in desk THEN "active" ELSE place[l]]
        /\ org' = Reconciled(org)
     \/ UNCHANGED <<place, org>>
  /\ desk' = {} /\ orgLock' = Nobody
  /\ UNCHANGED <<changes, quota>>

\* update_business_location to archived or suspended.
ArchivePlace(l) ==
  /\ Unlocked /\ place[l] = "active"
  /\ place' = [place EXCEPT ![l] = "archived"]
  /\ Changed /\ UNCHANGED <<org, desk, orgLock>>

\* Mutant: the entitlement is what is left of the plan, not what it includes.
WithPlanRemaining(o, plan) ==
  [o EXCEPT !.plan = plan, !.limit = Included[plan] - Cardinality(ActivePlaces)]

\* What apply_commercial_plan writes into the organization row.
WithPlan(o, plan) == [o EXCEPT !.plan = plan, !.limit = Included[plan]]

\* The platform owner changes the plan of an active organization.
PatchPlan(plan) ==
  /\ Unlocked /\ org.status = "active" /\ plan # org.plan
  /\ org' = WithPlan(org, plan)
  /\ Changed /\ UNCHANGED <<place, desk, orgLock>>

\* A worker of the previous release changes plan_type and not the entitlement.
OldWorkerSetsPlan(plan) ==
  /\ Unlocked /\ plan # org.plan
  /\ org' = [org EXCEPT !.plan = plan]
  /\ Changed /\ UNCHANGED <<place, desk, orgLock>>

\* The platform owner suspends or restores the organization.
PatchStatus(status) ==
  /\ Unlocked /\ status # org.status
  /\ org' = [org EXCEPT !.status = status]
  /\ Changed /\ UNCHANGED <<place, desk, orgLock>>

\* The allowance goes from observed to enforced: the activation row is shared
\* by every transaction that decides by it, and those hold the organization.
Enforce ==
  /\ Unlocked /\ ~org.enforced
  /\ org' = [org EXCEPT !.enforced = TRUE]
  /\ Changed /\ UNCHANGED <<place, desk, orgLock>>

AllowanceNext ==
  \/ \E new \in SUBSET Locations : CheckCapacity(new)
  \/ ActivatePlaces
  \/ \E l \in Locations : ArchivePlace(l)
  \/ \E plan \in Plans : PatchPlan(plan) \/ OldWorkerSetsPlan(plan)
  \/ \E status \in {"active", "suspended"} : PatchStatus(status)
  \/ Enforce

-------------------------------------------------------------------------------
AllowanceTypes ==
  /\ org \in [status : {"active", "suspended"}, plan : Plans,
              limit : {Included[p] : p \in Plans}, enforced : BOOLEAN]
  /\ place \in [Locations -> {"active", "archived"}]
  /\ desk \subseteq Locations /\ quota \in 0..MaxChanges /\ changes \in 0..quota

\* Once the allowance is enforced, no request turns on more locations than the
\* plan of that moment includes, whatever plan changes and other requests run
\* between its count and its commit (a downgrade may leave more; they only
\* become fewer).
NeverGrowsPastPlan ==
  [][org.enforced /\ ActivePlaces' \ ActivePlaces # {}
       => Cardinality(ActivePlaces') <= Included[org'.plan]]_allowanceVars
==============================================================================
