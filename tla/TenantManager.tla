--------------------------- MODULE TenantManager ---------------------------
(***************************************************************************)
(* src/src/auth/tenant.ts and the middleware in src/src/auth/middleware.ts *)
(* that authenticates a request and checks its tenant's budget.  The       *)
(* programs that add and remove tenants and record costs are outside.      *)
(* Nothing keeps them from giving an identifier a second key, or a key to a*)
(* second identifier, in a list or one by one.                             *)
(***************************************************************************)
EXTENDS Integers, FiniteSets, Sequences, Functions

CONSTANTS
  Tenant,      \* identifiers of tenants
  Key,         \* API keys
  JwtTokens,   \* tokens a configured JWT secret verifies, none of them a key
  Request,
  MaxListed,   \* length of a configured list
  MaxCost      \* cost recorded for one tenant in a month

ASSUME TenantAssumption ==
  /\ JwtTokens \cap Key = {}
  /\ MaxListed \in Nat
  /\ MaxCost \in Nat

VARIABLES
  tenants,     \* the map from identifiers to tenants: here, to their keys
  keyIndex,    \* the map from keys to identifiers
  budget,      \* tenants with a budget of one unit
  costs,       \* each tenant's cost in the current month
  asking,      \* per request: idle, authenticated, or what became of it
  context,     \* per request: the tenant it was found to come from, if any
  \* Observation only:
  given        \* identifiers and keys added since the last list, but for
               \* those removed again that clashed with no other

tenantVars == <<tenants, keyIndex, budget, costs, asking, context, given>>

Empty == [t \in {} |-> {}]

Given == [id : Tenant, key : Key]

(* Lists of tenants a configuration may hold.                              *)
Listing == UNION {[1 .. n -> Given] : n \in 0 .. MaxListed}

(* Added one after the other: the last of each identifier, and of each key.*)
LastOf(list, P) ==
  list[CHOOSE i \in P : \A j \in P : j <= i]
TenantsOf(list) ==
  [t \in {list[i].id : i \in DOMAIN list} |->
     LastOf(list, {i \in DOMAIN list : list[i].id = t}).key]
IndexOf(list) ==
  [k \in {list[i].key : i \in DOMAIN list} |->
     LastOf(list, {i \in DOMAIN list : list[i].key = k}).id]

(* Two tenants that have an identifier or a key in common, and those given *)
(* that do so with no other.                                               *)
Clash(p, q) == p # q /\ (p.id = q.id \/ p.key = q.key)
Apart(p) == \A q \in given : ~Clash(p, q)

TenantInit ==
  /\ \E list \in Listing :
       tenants = TenantsOf(list) /\ keyIndex = IndexOf(list) /\ given = Range(list)
  /\ budget \in SUBSET Tenant
  /\ costs = [t \in Tenant |-> 0]
  /\ asking = [r \in Request |-> "idle"]
  /\ context = [r \in Request |-> {}]

Others == <<budget, costs, asking, context>>

Extended(f, x, y) == [z \in DOMAIN f \cup {x} |-> IF z = x THEN y ELSE f[z]]
Without(f, x) == [z \in DOMAIN f \ {x} |-> f[z]]

AddTenant(t, k) ==
  /\ tenants' = Extended(tenants, t, k)
  /\ keyIndex' = Extended(keyIndex, k, t)
  /\ given' = given \cup {[id |-> t, key |-> k]}
  /\ UNCHANGED Others

RemoveTenant(t) ==
  /\ t \in DOMAIN tenants
  /\ keyIndex' = Without(keyIndex, tenants[t])
  /\ tenants' = Without(tenants, t)
  /\ LET p == [id |-> t, key |-> tenants[t]]
     IN  given' = IF Apart(p) THEN given \ {p} ELSE given
  /\ UNCHANGED Others

\* Mutant: the index is not cleared.
UpdateKeepsIndex(list) ==
  /\ tenants' = TenantsOf(list)
  /\ keyIndex' = [k \in DOMAIN keyIndex \cup DOMAIN IndexOf(list) |->
                    IF k \in DOMAIN IndexOf(list) THEN IndexOf(list)[k] ELSE keyIndex[k]]
  /\ given' = Range(list)
  /\ UNCHANGED Others

(* Both maps are cleared, then filled from the new list.                   *)
UpdateConfig(list) ==
  /\ tenants' = TenantsOf(list)
  /\ keyIndex' = IndexOf(list)
  /\ given' = Range(list)
  /\ UNCHANGED Others

(* The middleware up to its await: open without tenants, else a key of the *)
(* index, else a token of the JWT secret.  A key whose tenant is gone makes*)
(* authenticate() throw.                                                   *)
Authenticate(r, token) ==
  /\ asking[r] = "idle"
  /\ IF DOMAIN tenants = {}
     THEN /\ asking' = [asking EXCEPT ![r] = "open"]
          /\ UNCHANGED context
     ELSE IF token \in DOMAIN keyIndex
     THEN IF keyIndex[token] \in DOMAIN tenants
          THEN /\ asking' = [asking EXCEPT ![r] = "authenticated"]
               /\ context' = [context EXCEPT ![r] = {keyIndex[token]}]
          ELSE /\ asking' = [asking EXCEPT ![r] = "threw"]
               /\ UNCHANGED context
     ELSE /\ asking' = [asking EXCEPT ![r] =
                          IF token \in JwtTokens THEN "authenticated" ELSE "rejected"]
          /\ UNCHANGED context
  /\ UNCHANGED <<tenants, keyIndex, budget, costs, given>>

IsOverBudget(t) == t \in budget /\ costs[t] >= 1

(* After the await, with the context found before it.                      *)
CheckBudget(r) ==
  /\ asking[r] = "authenticated"
  /\ asking' = [asking EXCEPT ![r] =
                  IF \E t \in context[r] : IsOverBudget(t) THEN "over" ELSE "admitted"]
  /\ UNCHANGED <<tenants, keyIndex, budget, costs, context, given>>

RecordCost(t) ==
  /\ costs[t] < MaxCost
  /\ costs' = [costs EXCEPT ![t] = @ + 1]
  /\ UNCHANGED <<tenants, keyIndex, budget, asking, context, given>>

(* The month is part of the key costs are kept under.                      *)
NewMonth ==
  /\ costs' = [t \in Tenant |-> 0]
  /\ UNCHANGED <<tenants, keyIndex, budget, asking, context, given>>

TenantNext ==
  \/ \E t \in Tenant, k \in Key : AddTenant(t, k)
  \/ \E t \in Tenant : RemoveTenant(t) \/ RecordCost(t)
  \/ \E list \in Listing : UpdateConfig(list)
  \/ \E r \in Request : CheckBudget(r) \/ \E token \in Key \cup JwtTokens : Authenticate(r, token)
  \/ NewMonth

TenantSpec == TenantInit /\ [][TenantNext]_tenantVars

(***************************************************************************)
(* Properties.                                                             *)
(***************************************************************************)

(* Through additions, removals and whole new lists: the maps hold nothing  *)
(* but what was given and not taken back, so that no key of a tenant that  *)
(* was removed or dropped from the list still leads to one; and a tenant   *)
(* that shares its identifier and its key with no other is found by its key*)
(* (tenant.ts:123 to 164, 214).  Of those that do share nothing is claimed:*)
(* the old key of a tenant added again stays in the index, and of two      *)
(* tenants with one key the one added first is never found.                *)
KeysResolve ==
  /\ \A t \in DOMAIN tenants  : [id |-> t, key |-> tenants[t]] \in given
  /\ \A k \in DOMAIN keyIndex : [id |-> keyIndex[k], key |-> k] \in given
  /\ \A p \in given : Apart(p) =>
       /\ p.id \in DOMAIN tenants   /\ tenants[p.id] = p.key
       /\ p.key \in DOMAIN keyIndex /\ keyIndex[p.key] = p.id
=============================================================================
