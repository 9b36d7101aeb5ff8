--------------------------- MODULE ServicesProofs ---------------------------
(***************************************************************************)
(* Three of the parts that share no state with the rest: the key index of  *)
(* TenantManager, the queue of RequestLogger and the address pool, IpPool. *)
(*                                                                         *)
(* KeysResolve, for any tenants and keys, is inductive as it stands, with  *)
(* the type of what was given.  EachEntryOnce, for any entries, needs that *)
(* the batches on their way are not empty, since each write takes the head *)
(* of one.                                                                 *)
(*                                                                         *)
(* FairShare, for any addresses and weights, needs that the turns counted  *)
(* are those of the slots of the cycle from where the count began to where *)
(* the index stands.  The sums and the filter of the pool are folds, so    *)
(* they are reasoned about by induction on the length of a prefix, which   *)
(* comes from the well-foundedness of < on the naturals.                   *)
(***************************************************************************)
EXTENDS TenantManager, RequestLogger, IpPool, SequenceFacts

TenantInv == given \subseteq Given /\ KeysResolve

(* In a list each identifier and each key has a last entry.                *)
LEMMA LastIsThere ==
  ASSUME NEW list \in Listing, NEW P \in SUBSET DOMAIN list, P # {}
  PROVE  \E i \in P : LastOf(list, P) = list[i]
<1>1. PICK n \in 0 .. MaxListed : list \in [1 .. n -> Given]
  BY DEF Listing
<1>2. n \in Nat /\ P \subseteq 1 .. n
  BY <1>1, TenantAssumption
<1>3. PICK i \in P : \A j \in P : j <= i
  <2>1. P \subseteq Nat /\ \A j \in P : j <= n
    BY <1>2
  <2>2. P \in SUBSET Int
    BY <2>1
  <2> DEFINE Bounds == {m \in Nat : \A j \in P : j <= m}
  <2>3. Bounds # {} /\ Bounds \in SUBSET Nat
    BY <1>2, <2>1
  <2>4. PICK m \in Bounds : \A k \in Bounds : m <= k
    <3>. HIDE DEF Bounds
    <3>. QED BY <2>3, LeastNat
  <2>5. m \in Nat /\ \A j \in P : j <= m
    BY <2>4
  <2>6. CASE m \in P
    BY <2>5, <2>6
  <2>7. CASE m \notin P
    <3>1. \A j \in P : j <= m - 1
      BY <2>1, <2>5, <2>7
    <3>2. m - 1 \in Nat
      <4>1. PICK j \in P : TRUE
        OBVIOUS
      <4>. QED BY <2>1, <2>5, <3>1, <4>1
    <3>3. m - 1 \in Bounds
      BY <3>1, <3>2
    <3>. QED BY <2>4, <2>5, <3>3
  <2>. QED BY <2>6, <2>7
<1>. QED BY <1>3 DEF LastOf

(* So the maps a list is made into hold nothing else, and those of its     *)
(* tenants that share nothing.                                             *)
ListSound(list) ==
  /\ Range(list) \subseteq Given
  /\ \A t \in DOMAIN TenantsOf(list) : [id |-> t, key |-> TenantsOf(list)[t]] \in Range(list)
  /\ \A k \in DOMAIN IndexOf(list) : [id |-> IndexOf(list)[k], key |-> k] \in Range(list)
  /\ \A p \in Range(list) : (\A q \in Range(list) : ~Clash(p, q)) =>
       /\ p.id \in DOMAIN TenantsOf(list) /\ TenantsOf(list)[p.id] = p.key
       /\ p.key \in DOMAIN IndexOf(list) /\ IndexOf(list)[p.key] = p.id

LEMMA ListIsSound ==
  ASSUME NEW list \in Listing
  PROVE  ListSound(list)
<1>1. PICK n \in 0 .. MaxListed : list \in [1 .. n -> Given]
  BY DEF Listing
<1>2. Range(list) = {list[i] : i \in DOMAIN list} /\ Range(list) \subseteq Given
  BY <1>1 DEF Range
<1>3. \A i \in DOMAIN list :
        list[i] = [id |-> list[i].id, key |-> list[i].key] /\ list[i] \in Range(list)
  BY <1>1, <1>2 DEF Given
<1>4. ASSUME NEW t \in DOMAIN TenantsOf(list)
      PROVE  [id |-> t, key |-> TenantsOf(list)[t]] \in Range(list)
  <2> DEFINE P == {i \in DOMAIN list : list[i].id = t}
  <2>1. P # {} /\ P \in SUBSET DOMAIN list /\ TenantsOf(list)[t] = LastOf(list, P).key
    BY <1>4 DEF TenantsOf
  <2>2. PICK i \in P : LastOf(list, P) = list[i]
    <3>. HIDE DEF P
    <3>. QED BY <2>1, LastIsThere
  <2>. QED BY <1>3, <2>1, <2>2
<1>5. ASSUME NEW k \in DOMAIN IndexOf(list)
      PROVE  [id |-> IndexOf(list)[k], key |-> k] \in Range(list)
  <2> DEFINE P == {i \in DOMAIN list : list[i].key = k}
  <2>1. P # {} /\ P \in SUBSET DOMAIN list /\ IndexOf(list)[k] = LastOf(list, P).id
    BY <1>5 DEF IndexOf
  <2>2. PICK i \in P : LastOf(list, P) = list[i]
    <3>. HIDE DEF P
    <3>. QED BY <2>1, LastIsThere
  <2>. QED BY <1>3, <2>1, <2>2
<1>6. ASSUME NEW p \in Range(list), \A q \in Range(list) : ~Clash(p, q)
      PROVE  /\ p.id \in DOMAIN TenantsOf(list)   /\ TenantsOf(list)[p.id] = p.key
             /\ p.key \in DOMAIN IndexOf(list) /\ IndexOf(list)[p.key] = p.id
  <2>1. p \in Given /\ \A q \in Range(list) : ~Clash(p, q)
    BY <1>2, <1>6
  <2>2. p.id \in DOMAIN TenantsOf(list) /\ p.key \in DOMAIN IndexOf(list)
    BY <1>2 DEF TenantsOf, IndexOf
  <2>3. [id |-> p.id, key |-> TenantsOf(list)[p.id]] = p
    BY <1>4, <2>1, <2>2 DEF Clash
  <2>4. [id |-> IndexOf(list)[p.key], key |-> p.key] = p
    BY <1>5, <2>1, <2>2 DEF Clash
  <2>. QED BY <2>2, <2>3, <2>4
<1>. QED BY <1>2, <1>4, <1>5, <1>6 DEF ListSound

LEMMA AddKeeps ==
  ASSUME TenantInv, NEW t \in Tenant, NEW k \in Key, AddTenant(t, k)
  PROVE  TenantInv'
<1> DEFINE new == [id |-> t, key |-> k]
<1>1. /\ DOMAIN tenants' = DOMAIN tenants \cup {t} /\ tenants'[t] = k
      /\ \A s \in DOMAIN tenants : s # t => tenants'[s] = tenants[s]
  BY DEF AddTenant, Extended
<1>2. /\ DOMAIN keyIndex' = DOMAIN keyIndex \cup {k} /\ keyIndex'[k] = t
      /\ \A j \in DOMAIN keyIndex : j # k => keyIndex'[j] = keyIndex[j]
  BY DEF AddTenant, Extended
<1>3. given' = given \cup {new} /\ new \in Given
  BY DEF AddTenant, Given
<1>4. given' \subseteq Given
  BY <1>3 DEF TenantInv
<1>5. \A s \in DOMAIN tenants' : [id |-> s, key |-> tenants'[s]] \in given'
  BY <1>1, <1>3 DEF TenantInv, KeysResolve
<1>6. \A j \in DOMAIN keyIndex' : [id |-> keyIndex'[j], key |-> j] \in given'
  BY <1>2, <1>3 DEF TenantInv, KeysResolve
<1>7. ASSUME NEW p \in given', Apart(p)'
      PROVE  /\ p.id \in DOMAIN tenants'   /\ tenants'[p.id] = p.key
             /\ p.key \in DOMAIN keyIndex' /\ keyIndex'[p.key] = p.id
  <2>1. CASE p = new
    BY <1>1, <1>2, <2>1
  <2>2. CASE p # new
    <3>1. p \in given /\ Apart(p) /\ ~Clash(p, new)
      BY <1>3, <1>7, <2>2 DEF Apart
    <3>2. p.id # t /\ p.key # k
      BY <2>2, <3>1 DEF Clash
    <3>. QED BY <1>1, <1>2, <3>1, <3>2 DEF TenantInv, KeysResolve
  <2>. QED BY <2>1, <2>2
<1>. QED BY <1>4, <1>5, <1>6, <1>7 DEF TenantInv, KeysResolve

LEMMA RemoveKeeps ==
  ASSUME TenantInv, NEW t \in Tenant, RemoveTenant(t)
  PROVE  TenantInv'
<1> DEFINE old == [id |-> t, key |-> tenants[t]]
<1>1. /\ DOMAIN tenants' = DOMAIN tenants \ {t}
      /\ \A s \in DOMAIN tenants' : tenants'[s] = tenants[s]
      /\ DOMAIN keyIndex' = DOMAIN keyIndex \ {tenants[t]}
      /\ \A j \in DOMAIN keyIndex' : keyIndex'[j] = keyIndex[j]
  BY DEF RemoveTenant, Without
<1>2. given' = IF Apart(old) THEN given \ {old} ELSE given
  BY DEF RemoveTenant
<1>3. given' \subseteq given /\ \A q \in given : q # old => q \in given'
  BY <1>2
<1>4. old \in given
  BY DEF RemoveTenant, TenantInv, KeysResolve
<1>5. given' \subseteq Given
  BY <1>3 DEF TenantInv
<1>6. ASSUME NEW s \in DOMAIN tenants' PROVE [id |-> s, key |-> tenants'[s]] \in given'
  <2>1. s # t /\ [id |-> s, key |-> tenants'[s]] \in given
    BY <1>1, <1>6 DEF TenantInv, KeysResolve
  <2>2. [id |-> s, key |-> tenants'[s]] # old
    BY <2>1
  <2>. QED BY <1>3, <2>1, <2>2
<1>7. ASSUME NEW j \in DOMAIN keyIndex' PROVE [id |-> keyIndex'[j], key |-> j] \in given'
  <2>1. j # tenants[t] /\ [id |-> keyIndex'[j], key |-> j] \in given
    BY <1>1, <1>7 DEF TenantInv, KeysResolve
  <2>2. [id |-> keyIndex'[j], key |-> j] # old
    BY <2>1
  <2>. QED BY <1>3, <2>1, <2>2
<1>8. ASSUME NEW p \in given', Apart(p)'
      PROVE  /\ p.id \in DOMAIN tenants'   /\ tenants'[p.id] = p.key
             /\ p.key \in DOMAIN keyIndex' /\ keyIndex'[p.key] = p.id
  <2>1. p \in given /\ \A q \in given' : ~Clash(p, q)
    BY <1>3, <1>8 DEF Apart
  <2>2. p # old
    <3> SUFFICES ASSUME p = old PROVE FALSE
      OBVIOUS
    <3>1. ~Apart(old)
      BY <1>2, <1>8
    <3>2. given' = given
      BY <1>2, <3>1
    <3>. QED BY <2>1, <3>1, <3>2 DEF Apart
  <2>3. ~Clash(p, old)
    <3>1. CASE Apart(old)
      BY <2>1, <3>1 DEF Apart, Clash
    <3>2. CASE ~Apart(old)
      BY <1>2, <1>4, <2>1, <3>2
    <3>. QED BY <3>1, <3>2
  <2>4. Apart(p)
    BY <1>3, <2>1, <2>3 DEF Apart
  <2>5. p.id # t /\ p.key # tenants[t]
    BY <2>2, <2>3 DEF Clash
  <2>. QED BY <1>1, <2>1, <2>4, <2>5 DEF TenantInv, KeysResolve
<1>. QED BY <1>5, <1>6, <1>7, <1>8 DEF TenantInv, KeysResolve

LEMMA MapsUntouched ==
  ASSUME TenantInv, UNCHANGED <<tenants, keyIndex, given>>
  PROVE  TenantInv'
BY DEF TenantInv, KeysResolve, Apart

LEMMA TenantInitSound == TenantInit => TenantInv
<1> SUFFICES ASSUME TenantInit PROVE TenantInv
  OBVIOUS
<1>1. PICK list \in Listing :
        tenants = TenantsOf(list) /\ keyIndex = IndexOf(list) /\ given = Range(list)
  BY DEF TenantInit
<1>. QED BY <1>1, ListIsSound DEF ListSound, TenantInv, KeysResolve, Apart

LEMMA StepSound == TenantInv /\ [TenantNext]_tenantVars => TenantInv'
<1> SUFFICES ASSUME TenantInv, [TenantNext]_tenantVars PROVE TenantInv'
  OBVIOUS
<1>1. CASE \E t \in Tenant, k \in Key : AddTenant(t, k)
  BY <1>1, AddKeeps
<1>2. CASE \E t \in Tenant : RemoveTenant(t)
  BY <1>2, RemoveKeeps
<1>3. CASE \E list \in Listing : UpdateConfig(list)
  BY <1>3, ListIsSound DEF UpdateConfig, ListSound, TenantInv, KeysResolve, Apart
<1>4. CASE \E t \in Tenant : RecordCost(t)
  BY <1>4, MapsUntouched DEF RecordCost
<1>5. CASE \E r \in Request : CheckBudget(r)
  BY <1>5, MapsUntouched DEF CheckBudget
<1>6. CASE \E r \in Request, token \in Key \cup JwtTokens : Authenticate(r, token)
  BY <1>6, MapsUntouched DEF Authenticate
<1>7. CASE NewMonth
  BY <1>7, MapsUntouched DEF NewMonth
<1>8. CASE UNCHANGED tenantVars
  BY <1>8, MapsUntouched DEF tenantVars
<1>. QED BY <1>1, <1>2, <1>3, <1>4, <1>5, <1>6, <1>7, <1>8 DEF TenantNext

(* Whatever is added, added again, removed or replaced, and whatever keys  *)
(* are given twice: a tenant that shares its identifier and its key with no*)
(* other is found by its key, and what the maps hold was given since the   *)
(* last list and not taken back (tenant.ts:123 to 164, 214).               *)
THEOREM KeysAlwaysResolve == TenantSpec => []KeysResolve
<1>1. TenantInv => KeysResolve
  BY DEF TenantInv
<1>. QED BY TenantInitSound, StepSound, <1>1, PTL DEF TenantSpec

-----------------------------------------------------------------------------
(* The request logger.                                                     *)

(* Each entry of some entries is there once.                               *)
Once(s) == s \in Seq(Entry) /\ IsInjective(s)

(* What flushes have still to write, f: each something, no entry twice.    *)
Batches(f) ==
  /\ f \in Seq(Seq(Entry))
  /\ \A i \in DOMAIN f : f[i] # <<>> /\ IsInjective(f[i])
  /\ \A i, j \in DOMAIN f : i # j => ToSet(f[i]) \cap ToSet(f[j]) = {}

Whole(f) == UNION {ToSet(f[i]) : i \in DOMAIN f}

LoggerInv ==
  /\ asyncWrite \in BOOLEAN /\ interval \in BOOLEAN
  /\ Once(writeQueue) /\ Once(written) /\ Batches(flights)
  /\ failed \subseteq Entry
  /\ ToSet(writeQueue) \cap (InFlight \cup ToSet(written) \cup failed) = {}
  /\ InFlight \cap (ToSet(written) \cup failed) = {}
  /\ ToSet(written) \cap failed = {}

(* One more entry, or one fewer.                                           *)
LEMMA AppendOnce ==
  ASSUME NEW s, Once(s), NEW e \in Entry, e \notin ToSet(s)
  PROVE  Once(Append(s, e)) /\ ToSet(Append(s, e)) = ToSet(s) \cup {e}
<1> DEFINE t == Append(s, e)
<1>1. /\ s \in Seq(Entry) /\ Len(s) \in Nat /\ DOMAIN s = 1 .. Len(s)
      /\ \A i, j \in 1 .. Len(s) : s[i] = s[j] => i = j
      /\ \A i \in 1 .. Len(s) : s[i] # e
  BY DEF Once, IsInjective, ToSet
<1>2. /\ t \in Seq(Entry) /\ Len(t) = Len(s) + 1 /\ DOMAIN t = 1 .. Len(t)
      /\ \A i \in 1 .. Len(s) : t[i] = s[i]
      /\ t[Len(s) + 1] = e
  BY <1>1
<1>. HIDE DEF t
<1>3. \A i \in 1 .. Len(t) : i \in 1 .. Len(s) \/ i = Len(s) + 1
  BY <1>1, <1>2
<1>4. IsInjective(t)
  <2> SUFFICES ASSUME NEW i \in 1 .. Len(t), NEW j \in 1 .. Len(t), t[i] = t[j] PROVE i = j
    BY <1>2 DEF IsInjective
  <2>. QED BY <1>1, <1>2, <1>3
<1>5. ToSet(t) = ToSet(s) \cup {e}
  <2>1. Len(s) + 1 \in 1 .. Len(t) /\ \A i \in 1 .. Len(s) : i \in 1 .. Len(t)
    BY <1>1, <1>2
  <2>. QED BY <1>1, <1>2, <1>3, <2>1 DEF ToSet
<1>6. Once(t)
  BY <1>2, <1>4 DEF Once
<1>. QED BY <1>5, <1>6 DEF t

LEMMA TailOnce ==
  ASSUME NEW s, Once(s), s # <<>>
  PROVE  /\ Once(Tail(s)) /\ Head(s) \in ToSet(s) /\ Head(s) \in Entry
         /\ ToSet(Tail(s)) = ToSet(s) \ {Head(s)}
         /\ Len(s) \in Nat /\ (Len(s) # 1 => Tail(s) # <<>>)
         /\ Len(s) = 1 => ToSet(s) = {Head(s)}
<1> DEFINE t == Tail(s)
<1>1. /\ s \in Seq(Entry) /\ Len(s) \in Nat /\ Len(s) >= 1 /\ DOMAIN s = 1 .. Len(s)
      /\ \A i, j \in 1 .. Len(s) : s[i] = s[j] => i = j
      /\ Head(s) = s[1]
  BY DEF Once, IsInjective
<1>2. /\ t \in Seq(Entry) /\ Len(t) = Len(s) - 1 /\ DOMAIN t = 1 .. Len(t)
      /\ \A i \in 1 .. Len(t) : t[i] = s[i + 1]
      /\ t = <<>> => Len(t) = 0
  <2>1. /\ t \in Seq(Entry) /\ Len(t) = Len(s) - 1
        /\ \A i \in 1 .. Len(t) : t[i] = s[i + 1]
    BY <1>1, HeadTailProperties
  <2>. HIDE DEF t
  <2>2. DOMAIN t = 1 .. Len(t)
    BY <2>1
  <2>3. t = <<>> => Len(t) = 0
    OBVIOUS
  <2>. QED BY <2>1, <2>2, <2>3
<1>. HIDE DEF t
<1>3. /\ 1 \in 1 .. Len(s)
      /\ \A i \in 1 .. Len(t) : i + 1 \in 1 .. Len(s) /\ i + 1 # 1
      /\ \A i \in 1 .. Len(s) : i # 1 => i - 1 \in 1 .. Len(t) /\ (i - 1) + 1 = i
  BY <1>1, <1>2
<1>4. IsInjective(t)
  <2> SUFFICES ASSUME NEW i \in 1 .. Len(t), NEW j \in 1 .. Len(t), t[i] = t[j] PROVE i = j
    BY <1>2 DEF IsInjective
  <2>1. i + 1 = j + 1
    BY <1>1, <1>2, <1>3
  <2>. QED BY <2>1
<1>5. ToSet(s) = {s[i] : i \in 1 .. Len(s)} /\ ToSet(t) = {t[i] : i \in 1 .. Len(t)}
  BY <1>1, <1>2 DEF ToSet
<1>6. ToSet(t) = ToSet(s) \ {Head(s)}
  <2>1. ASSUME NEW x \in ToSet(t) PROVE x \in ToSet(s) \ {Head(s)}
    <3>1. PICK i \in 1 .. Len(t) : x = t[i]
      BY <1>5, <2>1
    <3>2. x = s[i + 1] /\ i + 1 \in 1 .. Len(s) /\ i + 1 # 1
      BY <1>2, <1>3, <3>1
    <3>. QED BY <1>1, <1>3, <1>5, <3>2
  <2>2. ASSUME NEW x \in ToSet(s), x # Head(s) PROVE x \in ToSet(t)
    <3>1. PICK i \in 1 .. Len(s) : x = s[i]
      BY <1>5, <2>2
    <3>2. i - 1 \in 1 .. Len(t) /\ (i - 1) + 1 = i
      BY <1>1, <1>3, <2>2, <3>1
    <3>3. t[i - 1] = x
      BY <1>2, <3>1, <3>2
    <3>. QED BY <1>5, <3>2, <3>3
  <2>. QED BY <2>1, <2>2
<1>7. Once(t) /\ Head(s) \in ToSet(s) /\ Head(s) \in Entry
  BY <1>1, <1>2, <1>3, <1>4, <1>5 DEF Once
<1>8. Len(s) # 1 => t # <<>>
  BY <1>1, <1>2
<1>9. Len(s) = 1 => ToSet(s) = {Head(s)}
  BY <1>1, <1>5
<1>. QED BY <1>1, <1>6, <1>7, <1>8, <1>9 DEF t

(* One more batch, one fewer, and one that goes on to its next entry.      *)
LEMMA AppendBatch ==
  ASSUME NEW f, Batches(f), NEW q, Once(q), q # <<>>, ToSet(q) \cap Whole(f) = {}
  PROVE  Batches(Append(f, q)) /\ Whole(Append(f, q)) = Whole(f) \cup ToSet(q)
<1> DEFINE g == Append(f, q)
<1>1. f \in Seq(Seq(Entry)) /\ Len(f) \in Nat /\ DOMAIN f = 1 .. Len(f) /\ q \in Seq(Entry)
  BY DEF Batches, Once
<1>2. /\ g \in Seq(Seq(Entry)) /\ Len(g) = Len(f) + 1 /\ DOMAIN g = 1 .. Len(g)
      /\ \A i \in 1 .. Len(f) : g[i] = f[i]
      /\ g[Len(f) + 1] = q
  BY <1>1
<1>. HIDE DEF g
<1>3. DOMAIN g = DOMAIN f \cup {Len(f) + 1} /\ Len(f) + 1 \notin DOMAIN f
  BY <1>1, <1>2
<1>4. \A i \in DOMAIN f : g[i] = f[i] /\ ToSet(f[i]) \cap ToSet(q) = {}
  BY <1>1, <1>2 DEF Whole
<1>5. \A i \in DOMAIN g : g[i] # <<>> /\ IsInjective(g[i])
  BY <1>2, <1>3, <1>4 DEF Batches, Once
<1>6. ASSUME NEW i \in DOMAIN g, NEW j \in DOMAIN g, i # j
      PROVE  ToSet(g[i]) \cap ToSet(g[j]) = {}
  <2>1. CASE i \in DOMAIN f /\ j \in DOMAIN f
    BY <1>4, <1>6, <2>1 DEF Batches
  <2>2. CASE i \in DOMAIN f /\ j \notin DOMAIN f
    <3>1. g[i] = f[i] /\ g[j] = q
      BY <1>2, <1>3, <1>4, <1>6, <2>2
    <3>. QED BY <1>4, <2>2, <3>1
  <2>3. CASE i \notin DOMAIN f /\ j \in DOMAIN f
    <3>1. g[j] = f[j] /\ g[i] = q
      BY <1>2, <1>3, <1>4, <1>6, <2>3
    <3>. QED BY <1>4, <2>3, <3>1
  <2>. QED BY <1>3, <1>6, <2>1, <2>2, <2>3
<1>7. Whole(g) = Whole(f) \cup ToSet(q)
  <2>1. \A i \in DOMAIN g : ToSet(g[i]) \subseteq Whole(f) \cup ToSet(q)
    BY <1>2, <1>3, <1>4 DEF Whole
  <2>2. \A i \in DOMAIN f : ToSet(f[i]) \subseteq Whole(g)
    <3>1. \A i \in DOMAIN f : i \in DOMAIN g /\ g[i] = f[i]
      BY <1>3, <1>4
    <3>. QED BY <3>1 DEF Whole
  <2>3. ToSet(q) \subseteq Whole(g)
    <3>1. Len(f) + 1 \in DOMAIN g /\ g[Len(f) + 1] = q
      BY <1>2, <1>3
    <3>. QED BY <3>1 DEF Whole
  <2>. QED BY <2>1, <2>2, <2>3 DEF Whole
<1>8. Batches(g)
  BY <1>2, <1>5, <1>6 DEF Batches
<1>. QED BY <1>7, <1>8 DEF g

LEMMA DropBatch ==
  ASSUME NEW f, Batches(f), NEW i \in DOMAIN f
  PROVE  Batches(RemoveAt(f, i)) /\ Whole(RemoveAt(f, i)) = Whole(f) \ ToSet(f[i])
<1> DEFINE g == RemoveAt(f, i)
           from(j) == IF j < i THEN j ELSE j + 1
<1>1. f \in Seq(Seq(Entry)) /\ Len(f) \in Nat /\ DOMAIN f = 1 .. Len(f) /\ i \in 1 .. Len(f)
  BY DEF Batches
<1>2. /\ g \in Seq(Seq(Entry)) /\ Len(g) = Len(f) - 1 /\ DOMAIN g = 1 .. Len(g)
      /\ \A j \in 1 .. Len(g) : g[j] = f[from(j)]
  <2> DEFINE u == SubSeq(f, 1, i - 1)
             v == SubSeq(f, i + 1, Len(f))
  <2>1. /\ u \in Seq(Seq(Entry)) /\ Len(u) = i - 1
        /\ \A j \in 1 .. i - 1 : u[j] = f[j]
    BY <1>1
  <2>2. /\ v \in Seq(Seq(Entry)) /\ Len(v) = Len(f) - i
        /\ \A j \in 1 .. Len(f) - i : v[j] = f[i + j]
    <3>1. i + 1 \in Int /\ Len(f) \in Int /\ \A k \in i + 1 .. Len(f) : f[k] \in Seq(Entry)
      BY <1>1
    <3>2. /\ v \in Seq(Seq(Entry))
          /\ Len(v) = IF i + 1 <= Len(f) THEN Len(f) - (i + 1) + 1 ELSE 0
          /\ \A j \in 1 .. Len(f) - (i + 1) + 1 : v[j] = f[(i + 1) + j - 1]
      BY <3>1, SubSeqProperties
    <3>. HIDE DEF v
    <3>3. Len(f) - (i + 1) + 1 = Len(f) - i /\ \A j \in Int : (i + 1) + j - 1 = i + j
      BY <1>1
    <3>4. Len(v) = Len(f) - i
      <4>1. CASE i + 1 <= Len(f)
        BY <3>2, <3>3, <4>1
      <4>2. CASE ~(i + 1 <= Len(f))
        <5>1. Len(v) = 0
          BY <3>2, <4>2
        <5>2. Len(f) - i = 0
          BY <1>1, <4>2
        <5>. QED BY <5>1, <5>2
      <4>. QED BY <4>1, <4>2
    <3>5. ASSUME NEW j \in 1 .. Len(f) - i PROVE v[j] = f[i + j]
      <4>1. j \in 1 .. Len(f) - (i + 1) + 1 /\ j \in Int
        BY <3>3
      <4>2. v[j] = f[(i + 1) + j - 1]
        BY <3>2, <4>1
      <4>. QED BY <3>3, <4>1, <4>2
    <3>. QED BY <3>2, <3>4, <3>5
  <2>3. g = u \o v
    BY DEF RemoveAt
  <2>. HIDE DEF u, v, g
  <2>4. /\ g \in Seq(Seq(Entry)) /\ Len(g) = Len(u) + Len(v) /\ DOMAIN g = 1 .. Len(g)
        /\ \A j \in 1 .. Len(g) : g[j] = IF j <= Len(u) THEN u[j] ELSE v[j - Len(u)]
    <3>1. /\ g \in Seq(Seq(Entry)) /\ Len(g) = Len(u) + Len(v)
          /\ \A j \in 1 .. Len(u) + Len(v) : g[j] = IF j <= Len(u) THEN u[j] ELSE v[j - Len(u)]
      BY <2>1, <2>2, <2>3, ConcatProperties
    <3>2. DOMAIN g = 1 .. Len(g)
      BY <3>1
    <3>3. 1 .. Len(g) = 1 .. Len(u) + Len(v)
      BY <3>1
    <3>. QED BY <3>1, <3>2, <3>3
  <2>5. Len(g) = Len(f) - 1
    BY <1>1, <2>1, <2>2, <2>4
  <2>6. ASSUME NEW j \in 1 .. Len(g) PROVE g[j] = f[from(j)]
    <3>1. CASE j < i
      <4>1. j <= Len(u) /\ j \in 1 .. i - 1
        BY <1>1, <2>1, <2>5, <2>6, <3>1
      <4>. QED BY <2>1, <2>4, <3>1, <4>1
    <3>2. CASE ~(j < i)
      <4>1. ~(j <= Len(u)) /\ j - Len(u) = j - i + 1 /\ j - i + 1 \in 1 .. Len(f) - i
        <5>1. PICK l \in Nat : l = Len(f) /\ i \in 1 .. l /\ Len(g) = l - 1 /\ Len(u) = i - 1
          BY <1>1, <2>1, <2>5
        <5>2. j \in 1 .. l - 1
          BY <2>6, <5>1
        <5>3. ~(j <= i - 1) /\ j - (i - 1) = j - i + 1 /\ j - i + 1 \in 1 .. l - i
          BY <3>2, <5>1, <5>2
        <5>. QED BY <5>1, <5>3
      <4>2. i + (j - i + 1) = j + 1
        BY <1>1, <2>6
      <4>. QED BY <2>2, <2>4, <3>2, <4>1, <4>2
    <3>. QED BY <3>1, <3>2
  <2>. QED BY <2>4, <2>5, <2>6
<1>. HIDE DEF g
<1>3. ASSUME NEW j \in 1 .. Len(g) PROVE from(j) \in 1 .. Len(f) /\ from(j) # i
  <2>1. PICK l \in Nat : l = Len(f) /\ Len(g) = l - 1 /\ i \in 1 .. l
    BY <1>1, <1>2
  <2>2. j \in 1 .. l - 1
    BY <1>3, <2>1
  <2>3. CASE j < i
    <3>1. from(j) = j
      BY <2>3
    <3>2. j \in 1 .. l /\ j # i
      BY <2>1, <2>2, <2>3
    <3>. QED BY <2>1, <3>1, <3>2
  <2>4. CASE ~(j < i)
    <3>1. from(j) = j + 1
      BY <2>4
    <3>2. j + 1 \in 1 .. l /\ j + 1 # i
      BY <2>1, <2>2, <2>4
    <3>. QED BY <2>1, <3>1, <3>2
  <2>. QED BY <2>3, <2>4
<1>4. ASSUME NEW j \in 1 .. Len(g), NEW k \in 1 .. Len(g), j # k PROVE from(j) # from(k)
  <2>1. j \in Int /\ k \in Int
    BY <1>2
  <2>. QED BY <1>1, <1>4, <2>1
<1>5. ASSUME NEW k \in 1 .. Len(f), k # i PROVE \E j \in 1 .. Len(g) : from(j) = k
  <2>1. CASE k < i
    <3>1. k \in 1 .. Len(g) /\ from(k) = k
      BY <1>1, <1>2, <2>1
    <3>. QED BY <3>1
  <2>2. CASE k > i
    <3>1. k - 1 \in 1 .. Len(g) /\ from(k - 1) = k
      BY <1>1, <1>2, <2>2
    <3>. QED BY <3>1
  <2>. QED BY <1>1, <1>5, <2>1, <2>2
<1>. HIDE DEF from
<1>6. Batches(g)
  <2>1. \A j \in DOMAIN g : g[j] = f[from(j)] /\ from(j) \in DOMAIN f
    BY <1>1, <1>2, <1>3
  <2>2. \A j \in DOMAIN g : g[j] # <<>> /\ IsInjective(g[j])
    BY <2>1 DEF Batches
  <2>3. ASSUME NEW j \in DOMAIN g, NEW k \in DOMAIN g, j # k
        PROVE  ToSet(g[j]) \cap ToSet(g[k]) = {}
    <3>1. from(j) # from(k)
      BY <1>2, <1>4, <2>3
    <3>. QED BY <2>1, <2>3, <3>1 DEF Batches
  <2>. QED BY <1>2, <2>2, <2>3 DEF Batches
<1>7. Whole(g) = UNION {ToSet(f[k]) : k \in 1 .. Len(f) \ {i}}
  BY <1>2, <1>3, <1>5 DEF Whole
<1>8. \A k \in 1 .. Len(f) \ {i} : ToSet(f[k]) \cap ToSet(f[i]) = {}
  BY <1>1 DEF Batches
<1>9. Whole(f) = UNION {ToSet(f[k]) : k \in 1 .. Len(f)}
  BY <1>1 DEF Whole
<1>10. Whole(g) = Whole(f) \ ToSet(f[i])
  BY <1>1, <1>7, <1>8, <1>9
<1>. QED BY <1>6, <1>10 DEF g

LEMMA AdvanceBatch ==
  ASSUME NEW f, Batches(f), NEW i \in DOMAIN f, Len(f[i]) # 1
  PROVE  LET g == [f EXCEPT ![i] = Tail(@)] IN
         Batches(g) /\ Whole(g) = Whole(f) \ {Head(f[i])}
<1> DEFINE g == [f EXCEPT ![i] = Tail(f[i])]
<1>1. f \in Seq(Seq(Entry)) /\ f[i] \in Seq(Entry) /\ f[i] # <<>> /\ Once(f[i])
  BY DEF Batches, Once
<1>2. /\ Once(Tail(f[i])) /\ Head(f[i]) \in ToSet(f[i]) /\ Tail(f[i]) # <<>>
      /\ ToSet(Tail(f[i])) = ToSet(f[i]) \ {Head(f[i])}
  BY <1>1, TailOnce
<1>3. /\ g \in Seq(Seq(Entry)) /\ DOMAIN g = DOMAIN f /\ g[i] = Tail(f[i])
      /\ \A j \in DOMAIN f : j # i => g[j] = f[j]
  <2>1. Tail(f[i]) \in Seq(Entry)
    BY <1>2 DEF Once
  <2>. QED BY <1>1, <2>1
<1>. HIDE DEF g
<1>4. \A j \in DOMAIN g : g[j] # <<>> /\ IsInjective(g[j]) /\ ToSet(g[j]) \subseteq ToSet(f[j])
  BY <1>2, <1>3 DEF Batches, Once
<1>5. \A j, k \in DOMAIN g : j # k => ToSet(g[j]) \cap ToSet(g[k]) = {}
  BY <1>3, <1>4 DEF Batches
<1>6. Batches(g)
  BY <1>3, <1>4, <1>5 DEF Batches
<1>7. Whole(g) = Whole(f) \ {Head(f[i])}
  <2>1. ASSUME NEW j \in DOMAIN f PROVE ToSet(g[j]) = ToSet(f[j]) \ {Head(f[i])}
    <3>1. CASE j = i
      BY <1>2, <1>3, <3>1
    <3>2. CASE j # i
      <4>1. Head(f[i]) \notin ToSet(f[j])
        BY <1>2, <2>1, <3>2 DEF Batches
      <4>. QED BY <1>3, <3>2, <4>1
    <3>. QED BY <3>1, <3>2
  <2>. QED BY <1>3, <2>1 DEF Whole
<1>. QED BY <1>6, <1>7 DEF g

-----------------------------------------------------------------------------
LEMMA InFlightWhole == InFlight = Whole(flights)
BY DEF InFlight, Whole

LEMMA LoggerInitSound == LoggerInit => LoggerInv
<1> SUFFICES ASSUME LoggerInit PROVE LoggerInv
  OBVIOUS
<1>1. Once(<<>>) /\ ToSet(<<>>) = {}
  BY DEF Once, IsInjective, ToSet
<1>2. Batches(<<>>) /\ Whole(<<>>) = {}
  BY DEF Batches, Whole
<1>. QED BY <1>1, <1>2, InFlightWhole DEF LoggerInit, LoggerInv

(* A flush moves the queue, with or without one more entry, on its way.    *)
LEMMA FlushMoves ==
  ASSUME LoggerInv, NEW q, Once(q), Flush(q),
         ToSet(q) \cap (InFlight \cup ToSet(written) \cup failed) = {},
         UNCHANGED <<written, failed>>, asyncWrite' \in BOOLEAN, interval' \in BOOLEAN
  PROVE  /\ LoggerInv' /\ ToSet(writeQueue)' = {}
         /\ InFlight' = InFlight \cup ToSet(q)
<1>1. Once(<<>>) /\ ToSet(<<>>) = {}
  BY DEF Once, IsInjective, ToSet
<1>2. Batches(flights') /\ Whole(flights') = Whole(flights) \cup ToSet(q)
  <2>1. CASE q = <<>>
    <3>1. flights' = flights /\ ToSet(q) = {}
      BY <1>1, <2>1 DEF Flush
    <3>. QED BY <3>1 DEF LoggerInv
  <2>2. CASE q # <<>>
    <3>1. flights' = Append(flights, q)
      BY <2>2 DEF Flush
    <3>. QED BY <2>2, <3>1, InFlightWhole, AppendBatch DEF LoggerInv
  <2>. QED BY <2>1, <2>2
<1>3. InFlight' = Whole(flights')
  BY DEF InFlight, Whole
<1>4. InFlight' = InFlight \cup ToSet(q)
  BY <1>2, <1>3, InFlightWhole
<1>5. writeQueue' = <<>>
  BY DEF Flush
<1>6. LoggerInv'
  BY <1>1, <1>2, <1>4, <1>5 DEF LoggerInv
<1>. QED BY <1>1, <1>4, <1>5, <1>6

(* Nothing that was logged is forgotten, nor what is settled unsettled.    *)
Keeps ==
  /\ Logged \subseteq Logged'
  /\ ToSet(written) \subseteq ToSet(written') /\ failed \subseteq failed'

LEMMA LogKeeps ==
  ASSUME LoggerInv, NEW e \in Entry, LogRequest(e)
  PROVE  LoggerInv' /\ Keeps
<1>1. e \notin ToSet(writeQueue) \cup InFlight \cup ToSet(written) \cup failed
  BY DEF LogRequest, Logged
<1>2. UNCHANGED <<asyncWrite, written, failed, interval>>
  BY DEF LogRequest
<1>3. /\ Once(Append(writeQueue, e))
      /\ ToSet(Append(writeQueue, e)) = ToSet(writeQueue) \cup {e}
  BY <1>1, AppendOnce DEF LoggerInv
<1>4. CASE ~asyncWrite
  <2>1. flights' = Append(flights, <<e>>) /\ writeQueue' = writeQueue
    BY <1>4 DEF LogRequest
  <2>2. Once(<<e>>) /\ ToSet(<<e>>) = {e} /\ <<e>> # <<>>
    BY DEF Once, IsInjective, ToSet
  <2>3. Batches(flights') /\ Whole(flights') = InFlight \cup {e}
    BY <1>1, <2>1, <2>2, AppendBatch, InFlightWhole DEF LoggerInv
  <2>4. InFlight' = InFlight \cup {e}
    BY <2>3 DEF InFlight, Whole
  <2>. QED BY <1>1, <1>2, <2>1, <2>3, <2>4 DEF LoggerInv, Keeps, Logged
<1>5. CASE asyncWrite /\ Flush(Append(writeQueue, e))
  <2>1. ToSet(Append(writeQueue, e)) \cap (InFlight \cup ToSet(written) \cup failed) = {}
    BY <1>1, <1>3 DEF LoggerInv
  <2>2. /\ LoggerInv' /\ ToSet(writeQueue)' = {}
        /\ InFlight' = InFlight \cup ToSet(Append(writeQueue, e))
    BY <1>2, <1>3, <1>5, <2>1, FlushMoves DEF LoggerInv
  <2>. QED BY <1>2, <1>3, <2>2 DEF Keeps, Logged
<1>6. CASE asyncWrite /\ writeQueue' = Append(writeQueue, e) /\ UNCHANGED flights
  <2>1. InFlight' = InFlight
    BY <1>6 DEF InFlight
  <2>. QED BY <1>1, <1>2, <1>3, <1>6, <2>1 DEF LoggerInv, Keeps, Logged
<1>. QED BY <1>4, <1>5, <1>6 DEF LogRequest

LEMMA FlushKeeps ==
  ASSUME LoggerInv, FlushTick \/ CloseLogger
  PROVE  LoggerInv' /\ Keeps
<1>1. /\ Flush(writeQueue) /\ UNCHANGED <<asyncWrite, written, failed>>
      /\ interval' \in {interval, FALSE}
  BY DEF FlushTick, CloseLogger
<1>2. /\ LoggerInv' /\ ToSet(writeQueue)' = {}
      /\ InFlight' = InFlight \cup ToSet(writeQueue)
  BY <1>1, FlushMoves DEF LoggerInv
<1>. QED BY <1>1, <1>2 DEF Keeps, Logged

LEMMA WriteKeeps ==
  ASSUME LoggerInv, NEW i, WriteEntry(i)
  PROVE  LoggerInv' /\ Keeps
<1>1. i \in DOMAIN flights /\ UNCHANGED <<asyncWrite, writeQueue, interval>>
  BY DEF WriteEntry
<1>2. Once(flights[i]) /\ flights[i] # <<>> /\ ToSet(flights[i]) \subseteq InFlight
  <2>1. Once(flights[i]) /\ flights[i] # <<>>
    BY <1>1 DEF LoggerInv, Batches, Once
  <2>. QED BY <1>1, <2>1 DEF InFlight
<1>3. CASE GivesUp(i) /\ UNCHANGED written
  <2>1. Batches(flights') /\ Whole(flights') = Whole(flights) \ ToSet(flights[i])
    BY <1>1, <1>3, DropBatch DEF GivesUp, LoggerInv
  <2>2. InFlight' = InFlight \ ToSet(flights[i])
    BY <2>1 DEF InFlight, Whole
  <2>3. failed' = failed \cup ToSet(flights[i]) /\ ToSet(flights[i]) \subseteq Entry
    BY <1>2, <1>3 DEF GivesUp, Once, ToSet
  <2>. QED BY <1>1, <1>2, <1>3, <2>1, <2>2, <2>3 DEF LoggerInv, Keeps, Logged
<1>4. CASE /\ written' = Append(written, Head(flights[i])) /\ UNCHANGED failed
           /\ flights' = IF Len(flights[i]) = 1 THEN RemoveAt(flights, i)
                         ELSE [flights EXCEPT ![i] = Tail(@)]
  <2>1. PICK e \in Entry : e = Head(flights[i]) /\ e \in InFlight
    BY <1>2, TailOnce
  <2>2. Batches(flights') /\ Whole(flights') = Whole(flights) \ {e}
    <3>1. CASE Len(flights[i]) = 1
      <4>1. ToSet(flights[i]) = {e}
        BY <1>2, <2>1, <3>1, TailOnce
      <4>. QED BY <1>1, <1>4, <3>1, <4>1, DropBatch DEF LoggerInv
    <3>2. CASE Len(flights[i]) # 1
      BY <1>1, <1>4, <2>1, <3>2, AdvanceBatch DEF LoggerInv
    <3>. QED BY <3>1, <3>2
  <2>3. InFlight' = InFlight \ {e}
    BY <2>2 DEF InFlight, Whole
  <2>4. Once(written') /\ ToSet(written') = ToSet(written) \cup {e}
    BY <1>4, <2>1, AppendOnce DEF LoggerInv
  <2>. QED BY <1>1, <1>4, <2>1, <2>2, <2>3, <2>4 DEF LoggerInv, Keeps, Logged
<1>. QED BY <1>3, <1>4 DEF WriteEntry

LEMMA LoggerStep == LoggerInv /\ [LoggerNext]_loggerVars => LoggerInv' /\ Keeps
<1> SUFFICES ASSUME LoggerInv, [LoggerNext]_loggerVars PROVE LoggerInv' /\ Keeps
  OBVIOUS
<1>1. CASE UNCHANGED loggerVars
  <2>1. UNCHANGED <<asyncWrite, writeQueue, flights, written, failed, interval>>
    BY <1>1 DEF loggerVars
  <2>2. InFlight' = InFlight
    BY <2>1 DEF InFlight
  <2>. QED BY <2>1, <2>2 DEF LoggerInv, Keeps, Logged
<1>. QED BY <1>1, LogKeeps, FlushKeeps, WriteKeeps DEF LoggerNext

(* However flushes overlap with each other, with new entries and with a    *)
(* close, an entry is queued, on its way, written or given up, and never in *)
(* two places nor twice in one; for any entries and any length of queue.   *)
(* Code: flush and writeEntry, src/src/logging/request-log.ts.             *)
THEOREM EntriesStayOnce == LoggerSpec => []EachEntryOnce
<1>1. LoggerInv => EachEntryOnce
  BY DEF LoggerInv, EachEntryOnce, Once, Batches
<1>. QED BY <1>1, LoggerInitSound, LoggerStep, PTL DEF LoggerSpec

(* No step of the logger drops an entry: what has been logged stays queued,*)
(* on its way, written or given up, and the last two are final.             *)
(* Code: logRequest, flush and close, src/src/logging/request-log.ts.      *)
THEOREM EntriesStayLogged == LoggerSpec => [][Keeps]_loggerVars
BY LoggerInitSound, LoggerStep, PTL DEF LoggerSpec

-----------------------------------------------------------------------------
(***************************************************************************)
(* IpPool.                                                                 *)
(***************************************************************************)

(* U[i] is the sum of f over the first i elements of s.                    *)
Partial(U, f, s) ==
  /\ U \in [0 .. Len(s) -> Nat]
  /\ U[0] = 0
  /\ \A i \in 1 .. Len(s) : U[i] = U[i - 1] + f[s[i]]

(* What Total's fold chooses: it sums the elements at a set of places.     *)
SumsSets(h, f, s) ==
  h = [T \in SUBSET DOMAIN s |-> IF T = {} THEN 0 ELSE h[T \ {Max(T)}] + f[s[Max(T)]]]

LEMMA TotalFolds == ASSUME NEW f, NEW s PROVE Total(f, s) = (CHOOSE h : SumsSets(h, f, s))[DOMAIN s]
BY DEF Total, FoldLeft, MapThenFoldSet, SumsSets

(* Total is the last of the partial sums.                                  *)
LEMMA TotalIs ==
  ASSUME NEW E, NEW s \in Seq(E), NEW f \in [E -> Nat]
  PROVE  \E U : Partial(U, f, s) /\ Total(f, s) = U[Len(s)]
<1> DEFINE n == Len(s)
           g == [p \in (1 .. n) \X Nat |-> p[2] + f[s[p[1]]]]
<1>1. n \in Nat /\ DOMAIN s = 1 .. n /\ \A i \in 1 .. n : f[s[i]] \in Nat
  OBVIOUS
<1>2. g \in [(1 .. n) \X Nat -> Nat] /\ \A i \in 1 .. n, v \in Nat : g[<<i, v>>] = v + f[s[i]]
  BY <1>1
<1> HIDE DEF n, g
<1>3. PICK h \in [SUBSET (1 .. n) -> Nat] : Folds(h, n, 0, g)
  <2>1. 0 \in Nat
    OBVIOUS
  <2>. QED BY <1>1, <1>2, <2>1, FoldExists
<1>4. SumsSets(h, f, s)
  <2>1. ASSUME NEW T \in SUBSET (1 .. n), T # {}
        PROVE  g[<<Max(T), h[T \ {Max(T)}]>>] = h[T \ {Max(T)}] + f[s[Max(T)]]
    <3>1. Max(T) \in 1 .. n
      BY <1>1, <2>1, MaxIn
    <3>2. h[T \ {Max(T)}] \in Nat
      OBVIOUS
    <3>. QED BY <1>2, <3>1, <3>2
  <2>2. \A T \in SUBSET (1 .. n) :
          (IF T = {} THEN 0 ELSE g[<<Max(T), h[T \ {Max(T)}]>>])
             = IF T = {} THEN 0 ELSE h[T \ {Max(T)}] + f[s[Max(T)]]
    BY <2>1
  <2>. QED BY <1>1, <1>3, <2>2 DEF Folds, SumsSets
<1> DEFINE c == CHOOSE x : SumsSets(x, f, s)
<1>5. SumsSets(c, f, s)
  BY <1>4
<1> HIDE DEF c
<1> DEFINE U == [i \in 0 .. n |-> c[1 .. i]]
<1>6. U[0] = 0
  BY <1>1, <1>5, InitialSegments DEF SumsSets
<1>7. \A i \in 1 .. n : U[i] = U[i - 1] + f[s[i]]
  <2> SUFFICES ASSUME NEW i \in 1 .. n PROVE U[i] = U[i - 1] + f[s[i]]
    OBVIOUS
  <2>1. c[1 .. i] = c[1 .. i - 1] + f[s[i]]
    <3>1. \A T \in SUBSET (1 .. n) : T # {} => c[T] = c[T \ {Max(T)}] + f[s[Max(T)]]
      BY <1>1, <1>5 DEF SumsSets
    <3>2. /\ 1 .. i \in SUBSET (1 .. n) /\ 1 .. i # {} /\ Max(1 .. i) = i
          /\ (1 .. i) \ {i} = 1 .. i - 1
      BY <1>1, InitialSegments
    <3>3. c[1 .. i] = c[(1 .. i) \ {Max(1 .. i)}] + f[s[Max(1 .. i)]]
      BY <3>1, <3>2
    <3>. QED BY <3>2, <3>3
  <2>2. i \in 0 .. n /\ i - 1 \in 0 .. n
    BY <1>1
  <2>. QED BY <2>1, <2>2
<1>8. \A i \in 0 .. n : U[i] \in Nat
  <2> DEFINE S == {i \in 0 .. n : U[i] \in Nat}
  <2>1. 0 \in S
    BY <1>1, <1>6
  <2>2. ASSUME NEW k \in 0 .. n - 1, k \in S PROVE k + 1 \in S
    <3>1. k + 1 \in 1 .. n /\ (k + 1) - 1 = k
      BY <1>1
    <3>2. U[k + 1] = U[k] + f[s[k + 1]] /\ f[s[k + 1]] \in Nat /\ U[k] \in Nat
      BY <1>1, <1>7, <2>2, <3>1
    <3>. QED BY <3>1, <3>2
  <2> HIDE DEF S
  <2>3. \A i \in 0 .. n : i \in S
    BY <1>1, <2>1, <2>2, Induction
  <2>. QED BY <2>3 DEF S
<1>9. U \in [0 .. n -> Nat]
  BY <1>8
<1>10. Total(f, s) = U[n]
  <2>1. Total(f, s) = c[1 .. n]
    BY <1>1, TotalFolds, Zenon DEF c
  <2>. QED BY <1>1, <2>1
<1> HIDE DEF U
<1>. QED BY <1>6, <1>7, <1>9, <1>10 DEF Partial, n

(* ... and the total of each prefix one of the others.                     *)
LEMMA TotalsOfPrefixes ==
  ASSUME NEW E, NEW s \in Seq(E), NEW f \in [E -> Nat], NEW U, Partial(U, f, s)
  PROVE  \A i \in 0 .. Len(s) : Total(f, SubSeq(s, 1, i)) = U[i]
<1> SUFFICES ASSUME NEW i \in 0 .. Len(s) PROVE Total(f, SubSeq(s, 1, i)) = U[i]
  OBVIOUS
<1> DEFINE p == SubSeq(s, 1, i)
<1>1. Len(s) \in Nat /\ i \in Nat
  OBVIOUS
<1>2. p \in Seq(E) /\ Len(p) = i /\ \A j \in 1 .. i : p[j] = s[j]
  <2>1. \A j \in 1 .. i : s[j] \in E
    BY <1>1
  <2>. QED BY <1>1, <2>1, SubSeqProperties
<1> HIDE DEF p
<1>3. PICK W : Partial(W, f, p) /\ Total(f, p) = W[Len(p)]
  BY <1>2, TotalIs
<1>4. U[0] = W[0] /\ \A j \in 1 .. i : U[j - 1] = W[j - 1] => U[j] = W[j]
  <2>1. \A j \in 1 .. i : j \in 1 .. Len(s)
    BY <1>1
  <2>2. U[0] = W[0] /\ \A j \in 1 .. Len(s) : U[j] = U[j - 1] + f[s[j]]
    BY <1>3 DEF Partial
  <2>3. \A j \in 1 .. i : W[j] = W[j - 1] + f[p[j]]
    BY <1>2, <1>3 DEF Partial
  <2>. QED BY <1>2, <2>1, <2>2, <2>3
<1>5. U[i] = W[i]
  <2> DEFINE S == {j \in 0 .. i : U[j] = W[j]}
  <2>1. 0 \in S
    BY <1>1, <1>4
  <2>2. ASSUME NEW k \in 0 .. i - 1, k \in S PROVE k + 1 \in S
    <3>1. k + 1 \in 1 .. i /\ (k + 1) - 1 = k
      BY <1>1
    <3>. QED BY <1>4, <2>2, <3>1
  <2> HIDE DEF S
  <2>3. \A j \in 0 .. i : j \in S
    BY <1>1, <2>1, <2>2, Induction
  <2>. QED BY <1>1, <2>3 DEF S
<1>. QED BY <1>2, <1>3, <1>5 DEF p

(* Partial sums do not decrease.                                           *)
LEMMA PartialGrows ==
  ASSUME NEW n \in Nat, NEW U \in [0 .. n -> Nat],
         \A i \in 1 .. n : U[i - 1] <= U[i]
  PROVE  \A i, j \in 0 .. n : i <= j => U[i] <= U[j]
<1> SUFFICES ASSUME NEW i \in 0 .. n PROVE \A j \in 0 .. n : i <= j => U[i] <= U[j]
  OBVIOUS
<1> DEFINE S == {j \in 0 .. n : i <= j => U[i] <= U[j]}
<1>1. 0 \in S
  OBVIOUS
<1>2. ASSUME NEW k \in 0 .. n - 1, k \in S PROVE k + 1 \in S
  <2>1. k + 1 \in 1 .. n /\ (k + 1) - 1 = k /\ k \in 0 .. n /\ k + 1 \in 0 .. n
    OBVIOUS
  <2>2. U[k] <= U[k + 1] /\ U[k] \in Nat /\ U[k + 1] \in Nat /\ U[i] \in Nat
    BY <2>1
  <2>3. CASE i = k + 1
    BY <2>1, <2>2, <2>3
  <2>4. CASE i <= k
    BY <1>2, <2>1, <2>2, <2>4
  <2>5. CASE i > k + 1
    BY <2>1, <2>5
  <2>. QED BY <2>3, <2>4, <2>5
<1> HIDE DEF S
<1>3. \A j \in 0 .. n : j \in S
  BY <1>1, <1>2, Induction
<1>. QED BY <1>3 DEF S

(* A number below the total falls into one of the parts.                   *)
LEMMA PartFound ==
  ASSUME NEW n \in Nat, NEW U \in [0 .. n -> Nat], U[0] = 0, NEW c \in Nat, c < U[n]
  PROVE  \E i \in 1 .. n : U[i - 1] <= c /\ c < U[i]
<1> DEFINE S == {i \in 0 .. n : c < U[i]}
<1>1. n \in S /\ S \subseteq Nat
  OBVIOUS
<1>2. PICK i \in S : \A j \in S : i <= j
  <2> HIDE DEF S
  <2>. QED BY <1>1, LeastNat
<1>3. i \in 1 .. n /\ i - 1 \in 0 .. n
  BY <1>2
<1>4. U[i - 1] \in Nat /\ i - 1 \notin S
  BY <1>2, <1>3
<1>. QED BY <1>2, <1>3, <1>4

(* ... and into one only.                                                  *)
LEMMA PartUnique ==
  ASSUME NEW n \in Nat, NEW U \in [0 .. n -> Nat],
         \A i \in 1 .. n : U[i - 1] <= U[i],
         NEW c \in Nat, NEW i \in 1 .. n, U[i - 1] <= c, c < U[i],
         NEW j \in 1 .. n, j # i
  PROVE  (c < U[j - 1] /\ c + 1 <= U[j - 1]) \/ U[j] <= c
<1>1. \A k, l \in 0 .. n : k <= l => U[k] <= U[l]
  BY PartialGrows
<1>2. /\ i - 1 \in 0 .. n /\ j - 1 \in 0 .. n /\ i \in 0 .. n /\ j \in 0 .. n
      /\ j <= i - 1 \/ i <= j - 1
  OBVIOUS
<1>3. U[i - 1] \in Nat /\ U[i] \in Nat /\ U[j - 1] \in Nat /\ U[j] \in Nat
  BY <1>2
<1>4. CASE j <= i - 1
  <2>1. U[j] <= U[i - 1]
    BY <1>1, <1>2, <1>4
  <2>. QED BY <1>3, <2>1
<1>5. CASE i <= j - 1
  <2>1. U[i] <= U[j - 1]
    BY <1>1, <1>2, <1>5
  <2>. QED BY <1>3, <2>1
<1>. QED BY <1>2, <1>4, <1>5

(* Arithmetic with products of variables.                                  *)
LEMMA ProductGrows ==
  ASSUME NEW k \in Nat, NEW x \in Int, NEW y \in Int, x <= y
  PROVE  k * x <= k * y /\ x * k <= y * k
OBVIOUS

LEMMA ProductSum ==
  ASSUME NEW k \in Int, NEW x \in Int, NEW y \in Int
  PROVE  /\ k * x \in Int /\ k * (x + y) = k * x + k * y
         /\ (k + 1) * x = k * x + x /\ k * x = x * k
OBVIOUS

LEMMA Quotient ==
  ASSUME NEW q \in Nat, NEW w \in Nat \ {0}, NEW m \in Nat, NEW p \in Int, p = q * w,
         p <= m, m < p + w
  PROVE  m \div w = q
<1>1. PICK d \in Int : d = m \div w
  OBVIOUS
<1>2. w * d <= m /\ m < w * d + w
  BY <1>1
<1>3. q * w \in Int /\ w * d \in Int /\ d * w = w * d
  BY <1>1, ProductSum
<1>4. ASSUME q + 1 <= d PROVE FALSE
  <2>1. (q + 1) * w <= d * w
    BY <1>4, ProductGrows
  <2>2. (q + 1) * w = p + w
    BY ProductSum
  <2>. QED BY <1>2, <1>3, <2>1, <2>2
<1>5. ASSUME d + 1 <= q PROVE FALSE
  <2>1. (d + 1) * w <= q * w
    BY <1>5, ProductGrows
  <2>2. (d + 1) * w = d * w + w
    BY ProductSum
  <2>. QED BY <1>2, <1>3, <2>1, <2>2
<1>. QED BY <1>1, <1>4, <1>5

LEMMA NextRemainder ==
  ASSUME NEW m \in Nat, NEW w \in Nat \ {0}
  PROVE  /\ m % w \in 0 .. w - 1
         /\ (m + 1) % w = IF (m % w) + 1 = w THEN 0 ELSE (m % w) + 1
         /\ m < w => m % w = m
<1>1. PICK d \in Int, r \in Int : d = m \div w /\ r = m % w
  OBVIOUS
<1>2. r \in 0 .. w - 1 /\ m = w * d + r
  BY <1>1
<1>3. PICK e \in Int, z \in Int : e = (m + 1) \div w /\ z = (m + 1) % w
  OBVIOUS
<1>4. z \in 0 .. w - 1 /\ m + 1 = w * e + z
  BY <1>3
<1>5. PICK x \in Int, y \in Int : x = w * d /\ y = w * e
  OBVIOUS
<1>6. y - x = w * (e - d)
  BY <1>1, <1>3, <1>5, ProductSum
<1>7. y - x = r + 1 - z /\ r + 1 - z \in Int
  BY <1>2, <1>4, <1>5
<1>8. e - d = 0 \/ e - d >= 1 \/ e - d <= -1
  OBVIOUS
<1>9. (e - d >= 1 => w * 1 <= w * (e - d)) /\ (e - d <= -1 => w * (e - d) <= w * (-1))
  BY ProductGrows
<1>10. w * 1 = w /\ w * (-1) = -w /\ w * 0 = 0
  OBVIOUS
<1>11. ASSUME e - d <= -1 PROVE FALSE
  BY <1>2, <1>4, <1>6, <1>7, <1>9, <1>10, <1>11
<1>12. CASE e - d = 0
  <2>1. z = r + 1
    BY <1>6, <1>7, <1>10, <1>12, <1>2, <1>4
  <2>. QED BY <1>1, <1>2, <1>3, <1>4, <2>1
<1>13. CASE e - d >= 1
  <2>1. w <= r + 1 - z
    BY <1>6, <1>7, <1>9, <1>10, <1>13
  <2>2. r + 1 = w /\ z = 0
    BY <1>2, <1>4, <2>1
  <2>. QED BY <1>1, <1>2, <1>3, <2>2
<1>14. (m + 1) % w = IF (m % w) + 1 = w THEN 0 ELSE (m % w) + 1
  BY <1>1, <1>3, <1>8, <1>11, <1>12, <1>13
<1>15. ASSUME m < w PROVE m % w = m
  <2>1. ASSUME d >= 1 PROVE FALSE
    <3>1. w * 1 <= w * d
      BY <2>1, ProductGrows
    <3>. QED BY <1>2, <1>5, <1>10, <1>15, <3>1
  <2>2. ASSUME d <= -1 PROVE FALSE
    <3>1. w * d <= w * (-1)
      BY <2>2, ProductGrows
    <3>. QED BY <1>2, <1>5, <1>10, <1>15, <3>1
  <2>3. d = 0
    BY <2>1, <2>2
  <2>. QED BY <1>1, <1>2, <1>10, <2>3
<1>. QED BY <1>1, <1>2, <1>14, <1>15

-----------------------------------------------------------------------------
(* Of the slots from a to b, how many come before slot x.                  *)
Before(a, b, x) == IF x <= a THEN 0 ELSE IF x >= b THEN b - a ELSE x - a

LEMMA BeforeIs ==
  ASSUME NEW a \in Nat, NEW b \in Nat, a <= b, NEW x \in Nat
  PROVE  /\ Before(a, b, x) \in Nat
         /\ Before(a, b, 0) = 0
         /\ b <= x => Before(a, b, x) = b - a
BY DEF Before

LEMMA BeforeNext ==
  ASSUME NEW a \in Nat, NEW b \in Nat, a <= b, NEW x \in Nat
  PROVE  /\ (a <= x /\ x < b) => Before(a, b, x + 1) = Before(a, b, x) + 1
         /\ (x + 1 <= a \/ b <= x) => Before(a, b, x + 1) = Before(a, b, x)
BY DEF Before

(* A cycle of U[n] slots, those from U[i - 1] to U[i] the i-th address's:  *)
(* the turns t of the addresses P are those from slot s to slot c, the end *)
(* of the cycle having been passed k times.                                *)
DealtFrom(P, t, U, c, k, s) ==
  /\ c >= s \/ k >= 1
  /\ \A i \in 1 .. Len(P) :
       t[P[i]] = k * (U[i] - U[i - 1]) + Before(U[i - 1], U[i], c)
                                       - Before(U[i - 1], U[i], s)

Dealt(P, t, U, c) ==
  \E k \in Nat, s \in 0 .. U[Len(P)] - 1 : DealtFrom(P, t, U, c, k, s)

Ascending(U, n) ==
  /\ U \in [0 .. n -> Nat] /\ U[0] = 0
  /\ \A i \in 1 .. n : U[i - 1] <= U[i]

LEMMA Slots ==
  ASSUME NEW n \in Nat, NEW U, Ascending(U, n)
  PROVE  /\ U[n] \in Nat
         /\ \A i \in 1 .. n : /\ U[i] \in Nat /\ U[i - 1] \in Nat
                             /\ U[i - 1] <= U[i] /\ U[i] <= U[n]
<1>1. U \in [0 .. n -> Nat] /\ n \in 0 .. n /\ \A i \in 1 .. n : U[i - 1] <= U[i]
  BY DEF Ascending
<1>2. ASSUME NEW i \in 1 .. n PROVE U[i] \in Nat /\ U[i - 1] \in Nat
  <2>1. i \in 0 .. n /\ i - 1 \in 0 .. n
    OBVIOUS
  <2>. QED BY <1>1, <2>1
<1>3. ASSUME NEW i \in 1 .. n PROVE U[i] <= U[n]
  <2>1. \A j, l \in 0 .. n : j <= l => U[j] <= U[l]
    BY <1>1, PartialGrows
  <2>2. i \in 0 .. n /\ i <= n
    OBVIOUS
  <2>. QED BY <1>1, <2>1, <2>2
<1>. QED BY <1>1, <1>2, <1>3

(* Where no turn was taken, it is from the slot to itself.                 *)
LEMMA NoneDealt ==
  ASSUME NEW E, NEW P \in Seq(E), NEW U, Ascending(U, Len(P)), NEW c \in 0 .. U[Len(P)] - 1
  PROVE  Dealt(P, [a \in E |-> 0], U, c)
<1> DEFINE t == [a \in E |-> 0]
<1>1. Len(P) \in Nat /\ \A i \in 1 .. Len(P) : P[i] \in E
  OBVIOUS
<1>2. U[Len(P)] \in Nat /\ c \in Nat
  BY <1>1, Slots
<1>3. ASSUME NEW i \in 1 .. Len(P)
      PROVE  t[P[i]] = 0 * (U[i] - U[i - 1]) + Before(U[i - 1], U[i], c) - Before(U[i - 1], U[i], c)
  <2>1. U[i] \in Nat /\ U[i - 1] \in Nat /\ U[i - 1] <= U[i]
    BY <1>1, Slots
  <2>2. Before(U[i - 1], U[i], c) \in Nat
    BY <1>2, <2>1, BeforeIs
  <2>3. 0 * (U[i] - U[i - 1]) = 0
    BY <2>1
  <2>4. t[P[i]] = 0
    BY <1>1
  <2>. QED BY <2>2, <2>3, <2>4
<1> HIDE DEF t
<1>4. c >= c /\ c \in 0 .. U[Len(P)] - 1 /\ 0 \in Nat
  BY <1>2
<1>5. DealtFrom(P, t, U, c, 0, c)
  BY <1>3, <1>4 DEF DealtFrom
<1>. QED BY <1>4, <1>5 DEF Dealt, t

(* The address whose slot comes next takes its turn.                       *)
LEMMA DealtNext ==
  ASSUME NEW E, NEW P \in Seq(E), IsInjective(P), NEW U, Ascending(U, Len(P)),
         NEW c \in 0 .. U[Len(P)] - 1,
         NEW i \in 1 .. Len(P), U[i - 1] <= c, c < U[i],
         NEW t \in [E -> Nat], Dealt(P, t, U, c)
  PROVE  Dealt(P, [t EXCEPT ![P[i]] = @ + 1], U, IF c + 1 = U[Len(P)] THEN 0 ELSE c + 1)
<1> DEFINE u == [t EXCEPT ![P[i]] = @ + 1]
<1>1. PICK n \in Nat : n = Len(P)
  OBVIOUS
<1>2. U[n] \in Nat /\ c \in Nat /\ c + 1 \in Nat /\ c < U[n]
  <2>1. U[n] \in Nat
    BY <1>1, Slots
  <2>. QED BY <1>1, <2>1
<1>3. PICK k \in Nat, s \in 0 .. U[n] - 1 : DealtFrom(P, t, U, c, k, s)
  BY <1>1 DEF Dealt
<1>4. s \in Nat
  BY <1>2
<1>5. ASSUME NEW j \in 1 .. n
      PROVE  /\ t[P[j]] \in Nat
             /\ j = i => u[P[j]] = t[P[j]] + 1
             /\ j # i => u[P[j]] = t[P[j]]
  <2>1. P[j] \in E /\ P[i] \in E /\ i \in DOMAIN P /\ j \in DOMAIN P
    BY <1>1
  <2>2. P[j] = P[i] => j = i
    BY <2>1 DEF IsInjective
  <2>. QED BY <2>1, <2>2
<1> HIDE DEF u
<1>6. ASSUME NEW j \in 1 .. n
      PROVE  /\ u[P[j]] = k * (U[j] - U[j - 1]) + Before(U[j - 1], U[j], c + 1)
                                                - Before(U[j - 1], U[j], s)
             /\ c + 1 = U[n] =>
                  u[P[j]] = (k + 1) * (U[j] - U[j - 1]) + Before(U[j - 1], U[j], 0)
                                                        - Before(U[j - 1], U[j], s)
  <2>1. PICK a \in Nat, b \in Nat : a = U[j - 1] /\ b = U[j] /\ a <= b /\ b <= U[n]
    BY <1>1, Slots
  <2>0. a <= b /\ c \in Nat
    BY <1>2, <2>1
  <2>2. PICK w \in Int, x \in Int : w = b - a /\ x = k * w
    OBVIOUS
  <2>3. PICK y \in Nat, z \in Nat : y = Before(a, b, c) /\ z = Before(a, b, s)
    BY <1>2, <1>4, <2>1, BeforeIs
  <2>4. t[P[j]] = x + y - z
    BY <1>1, <1>3, <2>1, <2>2, <2>3 DEF DealtFrom
  <2>5. u[P[j]] = x + Before(a, b, c + 1) - z
    <3>1. CASE j = i
      <4>1. a <= c /\ c < b
        BY <2>1, <3>1
      <4>2. Before(a, b, c + 1) = Before(a, b, c) + 1
        BY <2>0, <4>1, BeforeNext
      <4>3. u[P[j]] = (x + y - z) + 1
        BY <1>5, <2>4, <3>1
      <4>4. (x + y - z) + 1 = x + (y + 1) - z
        BY <2>2, <2>3
      <4>. QED BY <2>3, <4>2, <4>3, <4>4
    <3>2. CASE j # i
      <4>1. c + 1 <= a \/ b <= c
        <5>1. U \in [0 .. n -> Nat] /\ \A l \in 1 .. n : U[l - 1] <= U[l]
          BY <1>1 DEF Ascending
        <5>. QED BY <1>1, <1>2, <2>1, <3>2, <5>1, PartUnique
      <4>2. Before(a, b, c + 1) = Before(a, b, c)
        BY <2>0, <4>1, BeforeNext
      <4>. QED BY <1>5, <2>2, <2>3, <2>4, <3>2, <4>2
    <3>. QED BY <3>1, <3>2
  <2>6. (k + 1) * w = x + w
    BY <2>2, ProductSum
  <2>7. ASSUME c + 1 = U[n] PROVE u[P[j]] = (k + 1) * w + Before(a, b, 0) - z
    <3>1. b <= c + 1
      BY <1>2, <2>1, <2>7
    <3>2. Before(a, b, c + 1) = b - a /\ Before(a, b, 0) = 0
      BY <1>2, <2>1, <3>1, BeforeIs
    <3>. QED BY <2>2, <2>3, <2>5, <2>6, <3>2
  <2>. QED BY <2>1, <2>2, <2>3, <2>5, <2>7
<1>7. CASE c + 1 # U[n]
  <2>1. c + 1 >= s \/ k >= 1
    BY <1>2, <1>3, <1>4 DEF DealtFrom
  <2>2. DealtFrom(P, u, U, c + 1, k, s)
    BY <1>1, <1>6, <2>1 DEF DealtFrom
  <2>. QED BY <1>1, <1>7, <2>2 DEF Dealt, u
<1>8. CASE c + 1 = U[n]
  <2>1. k + 1 >= 1 /\ k + 1 \in Nat
    OBVIOUS
  <2>2. DealtFrom(P, u, U, 0, k + 1, s)
    BY <1>1, <1>6, <1>8, <2>1 DEF DealtFrom
  <2>. QED BY <1>1, <1>8, <2>1, <2>2 DEF Dealt, u
<1>. QED BY <1>7, <1>8

LEMMA BeforeSplits ==
  ASSUME NEW a \in Nat, NEW b \in Nat, a <= b, NEW x \in Nat
  PROVE  /\ Before(0, b, x) = Before(0, a, x) + Before(a, b, x)
         /\ x <= b => Before(0, b, x) = x
BY DEF Before

LEMMA BeforeGrows ==
  ASSUME NEW a \in Nat, NEW b \in Nat, a <= b, NEW x \in Nat, NEW y \in Nat, x <= y
  PROVE  Before(a, b, x) <= Before(a, b, y) /\ Before(a, b, y) <= b - a
BY DEF Before

(* The turns dealt are as many as the slots passed.                        *)
LEMMA MadeIs ==
  ASSUME NEW E, NEW P \in Seq(E), NEW t \in [E -> Nat], NEW U, Ascending(U, Len(P)),
         NEW c \in 0 .. U[Len(P)] - 1, NEW k \in Nat, NEW s \in 0 .. U[Len(P)] - 1,
         DealtFrom(P, t, U, c, k, s)
  PROVE  Total(t, P) = k * U[Len(P)] + c - s
<1>1. PICK n \in Nat : n = Len(P)
  OBVIOUS
<1>2. U[n] \in Nat /\ c \in Nat /\ s \in Nat /\ c < U[n] /\ s < U[n]
  <2>1. U[n] \in Nat
    BY <1>1, Slots
  <2>. QED BY <1>1, <2>1
<1>3. PICK V : Partial(V, t, P) /\ Total(t, P) = V[n]
  BY <1>1, TotalIs
<1> DEFINE Good(j) == V[j] = k * U[j] + Before(0, U[j], c) - Before(0, U[j], s)
           S == {j \in 0 .. n : Good(j)}
<1>4. Good(0)
  <2>1. U[0] = 0 /\ V[0] = 0
    BY <1>1, <1>3 DEF Ascending, Partial
  <2>2. Before(0, 0, c) = 0 /\ Before(0, 0, s) = 0 /\ k * 0 = 0
    BY <1>2 DEF Before
  <2>. QED BY <2>1, <2>2
<1>5. ASSUME NEW j \in 1 .. n, Good(j - 1) PROVE Good(j)
  <2>1. PICK a \in Nat, b \in Nat : a = U[j - 1] /\ b = U[j] /\ a <= b
    <3>1. U[j] \in Nat /\ U[j - 1] \in Nat /\ U[j - 1] <= U[j]
      BY <1>1, Slots
    <3>. QED BY <3>1
  <2>2. a <= b /\ c \in Nat /\ s \in Nat
    BY <1>2, <2>1
  <2>3. PICK v \in Int, w \in Int : v = k * a /\ w = k * (b - a)
    OBVIOUS
  <2>4. PICK x0 \in Nat, x1 \in Nat, y0 \in Nat, y1 \in Nat :
          /\ x0 = Before(0, a, c) /\ x1 = Before(a, b, c)
          /\ y0 = Before(0, a, s) /\ y1 = Before(a, b, s)
    <3>1. Before(0, a, c) \in Nat /\ Before(0, a, s) \in Nat
      BY <2>2 DEF Before
    <3>2. Before(a, b, c) \in Nat /\ Before(a, b, s) \in Nat
      BY <2>2, BeforeIs
    <3>. QED BY <3>1, <3>2
  <2>5. Before(0, b, c) = x0 + x1
    BY <2>2, <2>4, BeforeSplits
  <2>6. Before(0, b, s) = y0 + y1
    BY <2>2, <2>4, BeforeSplits
  <2>7. V[j] = V[j - 1] + t[P[j]]
    BY <1>1, <1>3 DEF Partial
  <2>8. V[j - 1] = v + x0 - y0
    BY <1>5, <2>1, <2>3, <2>4
  <2>9. t[P[j]] = w + x1 - y1
    BY <1>1, <2>1, <2>3, <2>4 DEF DealtFrom
  <2>10. k * b = v + w
    <3>1. k * (a + (b - a)) = k * a + k * (b - a) /\ a + (b - a) = b
      BY ProductSum
    <3>. QED BY <2>3, <3>1
  <2>11. V[j] = (v + w) + (x0 + x1) - (y0 + y1)
    <3>1. V[j] = (v + x0 - y0) + (w + x1 - y1)
      BY <2>7, <2>8, <2>9
    <3>. QED BY <3>1
  <2>. QED BY <2>1, <2>5, <2>6, <2>10, <2>11
<1> HIDE DEF Good
<1>6. \A j \in 0 .. n : j \in S
  <2>1. 0 \in S
    BY <1>4
  <2>2. ASSUME NEW j \in 0 .. n - 1, j \in S PROVE j + 1 \in S
    <3>1. j + 1 \in 1 .. n /\ (j + 1) - 1 = j
      OBVIOUS
    <3>. QED BY <1>5, <2>2, <3>1
  <2> HIDE DEF S
  <2>. QED BY <2>1, <2>2, Induction
<1>7. V[n] = k * U[n] + Before(0, U[n], c) - Before(0, U[n], s)
  BY <1>6 DEF Good
<1>8. Before(0, U[n], c) = c /\ Before(0, U[n], s) = s
  BY <1>2 DEF Before
<1>. QED BY <1>1, <1>3, <1>7, <1>8

(* The turns of each address are its slots in the full cycles at least and *)
(* those of the cycle begun at most.                                       *)
LEMMA DealtFairly ==
  ASSUME NEW E, NEW P \in Seq(E), NEW t \in [E -> Nat], NEW U, Ascending(U, Len(P)),
         NEW c \in 0 .. U[Len(P)] - 1, Dealt(P, t, U, c), NEW i \in 1 .. Len(P)
  PROVE  /\ t[P[i]] >= (U[i] - U[i - 1]) * (Total(t, P) \div U[Len(P)])
         /\ t[P[i]] <= (U[i] - U[i - 1]) * ((Total(t, P) + U[Len(P)] - 1) \div U[Len(P)])
<1>1. PICK n \in Nat : n = Len(P)
  OBVIOUS
<1>2. PICK W \in Nat \ {0} : W = U[n]
  <2>1. U[n] \in Nat
    BY <1>1, Slots
  <2>. QED BY <1>1, <2>1
<1>3. PICK k \in Nat, s \in 0 .. W - 1 : DealtFrom(P, t, U, c, k, s)
  BY <1>1, <1>2 DEF Dealt
<1>4. c \in 0 .. W - 1
  BY <1>1, <1>2
<1>5. PICK a \in Nat, b \in Nat : a = U[i - 1] /\ b = U[i] /\ a <= b
  <2>1. U[i] \in Nat /\ U[i - 1] \in Nat /\ U[i - 1] <= U[i]
    BY <1>1, Slots
  <2>. QED BY <2>1
<1>6. a <= b /\ c \in Nat /\ s \in Nat /\ c < W /\ s < W
  BY <1>4, <1>5
<1>7. PICK w \in Nat, v \in Int : w = b - a /\ v = k * w
  BY <1>6
<1>8. PICK x \in Nat, y \in Nat : x = Before(a, b, c) /\ y = Before(a, b, s)
  BY <1>6, BeforeIs
<1>9. x <= w /\ y <= w
  <2>1. Before(a, b, c) <= b - a /\ Before(a, b, s) <= b - a
    BY <1>6, BeforeGrows
  <2>. QED BY <1>7, <1>8, <2>1
<1>10. t[P[i]] = v + x - y
  BY <1>1, <1>3, <1>5, <1>7, <1>8 DEF DealtFrom
<1>11. PICK m \in Int, z \in Int : m = Total(t, P) /\ z = k * W /\ m = z + c - s
  <2>1. Total(t, P) = k * U[Len(P)] + c - s
    <3>1. s \in 0 .. U[Len(P)] - 1
      BY <1>1, <1>2
    <3>. QED BY <1>3, <3>1, MadeIs
  <2>2. k * W \in Int
    BY ProductSum
  <2>. QED BY <1>1, <1>2, <1>6, <2>1, <2>2
<1>12. c >= s \/ k >= 1
  BY <1>3 DEF DealtFrom
<1>13. (k + 1) * W = z + W /\ (k + 1) * w = v + w
  BY <1>7, <1>11, ProductSum
<1>14. m = z + c - s /\ z >= 0
  <2>1. 0 * W <= k * W /\ 0 * W = 0
    BY ProductGrows
  <2>. QED BY <1>11, <2>1
<1> DEFINE Goal == v + x - y >= w * (m \div W) /\ v + x - y <= w * ((m + W - 1) \div W)
<1>15. ASSUME c = s PROVE Goal
  <2>1. m \div W = k
    <3>1. m \in Nat /\ z <= m /\ m < z + W
      BY <1>6, <1>14, <1>15
    <3>. QED BY <1>11, <3>1, Quotient
  <2>2. (m + W - 1) \div W = k
    <3>1. m + W - 1 \in Nat /\ z <= m + W - 1 /\ m + W - 1 < z + W
      BY <1>6, <1>14, <1>15
    <3>. QED BY <1>11, <3>1, Quotient
  <2>3. x = y /\ w * k = v
    BY <1>7, <1>8, <1>15, ProductSum
  <2>. QED BY <2>1, <2>2, <2>3
<1>16. ASSUME c > s PROVE Goal
  <2>1. m \div W = k
    <3>1. m \in Nat /\ z <= m /\ m < z + W
      BY <1>6, <1>14, <1>16
    <3>. QED BY <1>11, <3>1, Quotient
  <2>2. (m + W - 1) \div W = k + 1
    <3>1. m + W - 1 \in Nat /\ z + W <= m + W - 1 /\ m + W - 1 < (z + W) + W
      BY <1>6, <1>14, <1>16
    <3>2. k + 1 \in Nat /\ z + W \in Int /\ z + W = (k + 1) * W
      BY <1>13
    <3>. QED BY <3>1, <3>2, Quotient
  <2>3. y <= x
    BY <1>6, <1>8, <1>16, BeforeGrows
  <2>4. w * k = v /\ w * (k + 1) = v + w
    BY <1>7, <1>13, ProductSum
  <2>5. v + x - y >= v /\ v + x - y <= v + w
    BY <1>9, <2>3
  <2>. QED BY <2>1, <2>2, <2>4, <2>5
<1>17. ASSUME c < s PROVE Goal
  <2>1. PICK l \in Nat : k = l + 1
    <3>1. k >= 1 /\ k - 1 \in Nat /\ k = (k - 1) + 1
      BY <1>6, <1>12, <1>17
    <3>. QED BY <3>1
  <2>2. PICK r \in Int, q \in Int : r = l * W /\ q = l * w
    OBVIOUS
  <2>3. z = r + W /\ v = q + w /\ r >= 0
    <3>1. (l + 1) * W = l * W + W /\ (l + 1) * w = l * w + w
      BY ProductSum
    <3>2. l * 0 <= l * W /\ l * 0 = 0
      BY ProductGrows
    <3>. QED BY <1>7, <1>11, <2>1, <2>2, <3>1, <3>2
  <2>4. m \div W = l
    <3>1. m \in Nat /\ r <= m /\ m < r + W
      BY <1>6, <1>14, <1>17, <2>3
    <3>. QED BY <2>2, <3>1, Quotient
  <2>5. (m + W - 1) \div W = k
    <3>1. m + W - 1 \in Nat /\ z <= m + W - 1 /\ m + W - 1 < z + W
      BY <1>6, <1>14, <1>17, <2>3
    <3>. QED BY <1>11, <3>1, Quotient
  <2>6. x <= y
    BY <1>6, <1>8, <1>17, BeforeGrows
  <2>7. w * k = v /\ w * l = q
    BY <1>7, <2>2, ProductSum
  <2>8. v + x - y >= q /\ v + x - y <= v
    BY <1>9, <2>3, <2>6
  <2>. QED BY <2>4, <2>5, <2>7, <2>8
<1>18. Goal
  BY <1>6, <1>15, <1>16, <1>17
<1>. QED BY <1>1, <1>2, <1>5, <1>7, <1>10, <1>11, <1>18

Misses(s, e) == \A i \in 1 .. Len(s) : s[i] # e

LEMMA AppendMissing ==
  ASSUME NEW E, NEW s \in Seq(E), IsInjective(s), NEW e \in E, Misses(s, e)
  PROVE  Append(s, e) \in Seq(E) /\ IsInjective(Append(s, e))
<1> DEFINE t == Append(s, e)
<1>1. /\ t \in Seq(E) /\ Len(t) = Len(s) + 1 /\ t[Len(s) + 1] = e
      /\ Len(s) \in Nat /\ \A i \in 1 .. Len(s) : t[i] = s[i]
  OBVIOUS
<1>2. DOMAIN t = 1 .. Len(s) + 1 /\ DOMAIN s = 1 .. Len(s)
  BY <1>1
<1> HIDE DEF t
<1>3. ASSUME NEW i \in DOMAIN t, NEW j \in DOMAIN t, t[i] = t[j] PROVE i = j
  <2>1. \A k \in 1 .. Len(s) + 1 : k \in 1 .. Len(s) \/ k = Len(s) + 1
    BY <1>1
  <2>2. CASE i \in 1 .. Len(s) /\ j \in 1 .. Len(s)
    BY <1>1, <1>2, <1>3, <2>2 DEF IsInjective
  <2>3. CASE i = Len(s) + 1 \/ j = Len(s) + 1
    BY <1>1, <1>2, <1>3, <2>1, <2>3 DEF Misses
  <2>. QED BY <1>2, <2>1, <2>2, <2>3
<1>4. IsInjective(t)
  BY <1>3 DEF IsInjective
<1>. QED BY <1>1, <1>4 DEF t

(* What Among's fold chooses.                                              *)
KeepsSets(h, T, s) ==
  h = [D \in SUBSET DOMAIN s |->
         IF D = {} THEN <<>>
         ELSE IF s[Max(D)] \in T THEN Append(h[D \ {Max(D)}], s[Max(D)])
         ELSE h[D \ {Max(D)}]]

LEMMA AmongFolds ==
  ASSUME NEW T PROVE Among(T) = (CHOOSE h : KeepsSets(h, T, Ips))[DOMAIN Ips]
BY DEF Among, FoldLeft, MapThenFoldSet, KeepsSets

(* The addresses in T, each once.                                          *)
LEMMA AmongIs ==
  ASSUME NEW T
  PROVE  Among(T) \in Seq(ToSet(Ips)) /\ IsInjective(Among(T))
<1> DEFINE E == ToSet(Ips)
           V == Seq(E)
           n == Len(Ips)
           g == [p \in (1 .. n) \X V |-> IF Ips[p[1]] \in T THEN Append(p[2], Ips[p[1]]) ELSE p[2]]
<1>1. Ips \in Seq(E) /\ IsInjective(Ips)
  BY PoolAssumption
<1>2. /\ n \in Nat /\ DOMAIN Ips = 1 .. n /\ \A i \in 1 .. n : Ips[i] \in E
      /\ <<>> \in V
  BY <1>1
<1>3. /\ g \in [(1 .. n) \X V -> V]
      /\ \A i \in 1 .. n, v \in V :
           g[<<i, v>>] = IF Ips[i] \in T THEN Append(v, Ips[i]) ELSE v
  BY <1>2
<1> HIDE DEF n, g, E, V
<1>4. PICK h \in [SUBSET (1 .. n) -> V] : Folds(h, n, <<>>, g)
  BY <1>2, <1>3, FoldExists
<1>5. KeepsSets(h, T, Ips)
  <2>1. ASSUME NEW D \in SUBSET (1 .. n), D # {}
        PROVE  g[<<Max(D), h[D \ {Max(D)}]>>]
                 = IF Ips[Max(D)] \in T THEN Append(h[D \ {Max(D)}], Ips[Max(D)])
                   ELSE h[D \ {Max(D)}]
    <3>1. Max(D) \in 1 .. n
      BY <1>2, <2>1, MaxIn
    <3>2. h[D \ {Max(D)}] \in V
      OBVIOUS
    <3>. QED BY <1>3, <3>1, <3>2
  <2>2. \A D \in SUBSET (1 .. n) :
          (IF D = {} THEN <<>> ELSE g[<<Max(D), h[D \ {Max(D)}]>>])
             = IF D = {} THEN <<>>
               ELSE IF Ips[Max(D)] \in T THEN Append(h[D \ {Max(D)}], Ips[Max(D)])
               ELSE h[D \ {Max(D)}]
    BY <2>1
  <2>. QED BY <1>2, <1>4, <2>2 DEF Folds, KeepsSets
<1> DEFINE c == CHOOSE x : KeepsSets(x, T, Ips)
<1>6. KeepsSets(c, T, Ips)
  BY <1>5
<1>7. Among(T) = c[1 .. n]
  BY <1>2, AmongFolds, Zenon
<1> HIDE DEF c
<1> DEFINE Good(i) == /\ c[1 .. i] \in V /\ IsInjective(c[1 .. i])
                      /\ \A j \in 1 .. Len(c[1 .. i]) : \E l \in 1 .. i : c[1 .. i][j] = Ips[l]
           S == {i \in 0 .. n : Good(i)}
<1>8. Good(0)
  <2>1. c[1 .. 0] = <<>>
    <3>1. 1 .. 0 = {} /\ {} \in SUBSET DOMAIN Ips
      OBVIOUS
    <3>. QED BY <1>6, <3>1 DEF KeepsSets
  <2>2. IsInjective(<<>>)
    BY DEF IsInjective
  <2>. QED BY <1>2, <2>1, <2>2
<1>9. ASSUME NEW i \in 1 .. n, Good(i - 1) PROVE Good(i)
  <2>1. c[1 .. i] = IF Ips[i] \in T THEN Append(c[1 .. i - 1], Ips[i]) ELSE c[1 .. i - 1]
    <3>1. \A D \in SUBSET (1 .. n) :
            D # {} => c[D] = IF Ips[Max(D)] \in T THEN Append(c[D \ {Max(D)}], Ips[Max(D)])
                             ELSE c[D \ {Max(D)}]
      BY <1>2, <1>6 DEF KeepsSets
    <3>2. /\ 1 .. i \in SUBSET (1 .. n) /\ 1 .. i # {} /\ Max(1 .. i) = i
          /\ (1 .. i) \ {i} = 1 .. i - 1
      BY <1>2, InitialSegments
    <3>3. c[1 .. i] = IF Ips[Max(1 .. i)] \in T
                      THEN Append(c[(1 .. i) \ {Max(1 .. i)}], Ips[Max(1 .. i)])
                      ELSE c[(1 .. i) \ {Max(1 .. i)}]
      BY <3>1, <3>2
    <3>. QED BY <3>2, <3>3
  <2>2. PICK p : p = c[1 .. i - 1]
    OBVIOUS
  <2>3. /\ p \in V /\ IsInjective(p)
        /\ \A j \in 1 .. Len(p) : \E l \in 1 .. i - 1 : p[j] = Ips[l]
    BY <1>9, <2>2
  <2>4. \A l \in 1 .. i - 1 : l \in 1 .. i /\ Ips[l] # Ips[i]
    BY <1>1, <1>2 DEF IsInjective
  <2>5. CASE Ips[i] \in T
    <3>1. c[1 .. i] = Append(p, Ips[i]) /\ Ips[i] \in E
      BY <1>2, <2>1, <2>2, <2>5
    <3>2. Append(p, Ips[i]) \in V /\ IsInjective(Append(p, Ips[i]))
      <4>1. \A j \in 1 .. Len(p) : p[j] # Ips[i]
        BY <2>3, <2>4
      <4>2. p \in Seq(E) /\ IsInjective(p)
        BY <2>3 DEF V
      <4>3. PICK e \in E : e = Ips[i]
        BY <3>1
      <4>4. Misses(p, e)
        BY <4>1, <4>3 DEF Misses
      <4>5. Append(p, e) \in Seq(E) /\ IsInjective(Append(p, e))
        BY <4>2, <4>4, AppendMissing
      <4>. QED BY <4>3, <4>5 DEF V
    <3>3. ASSUME NEW j \in 1 .. Len(Append(p, Ips[i]))
          PROVE  \E l \in 1 .. i : Append(p, Ips[i])[j] = Ips[l]
      <4>1. p \in Seq(E) /\ Ips[i] \in E /\ i \in 1 .. i
        BY <1>2, <2>3 DEF V
      <4>2. j \in 1 .. Len(p) \/ j = Len(p) + 1
        BY <4>1
      <4>3. CASE j \in 1 .. Len(p)
        BY <2>3, <2>4, <4>1, <4>3
      <4>4. CASE j = Len(p) + 1
        BY <4>1, <4>4
      <4>. QED BY <4>2, <4>3, <4>4
    <3>. QED BY <3>1, <3>2, <3>3
  <2>6. CASE Ips[i] \notin T
    <3>1. c[1 .. i] = p
      BY <2>1, <2>2, <2>6
    <3>. QED BY <2>3, <2>4, <3>1
  <2>. QED BY <2>5, <2>6
<1> HIDE DEF Good
<1>10. \A i \in 0 .. n : i \in S
  <2>1. 0 \in S
    BY <1>2, <1>8
  <2>2. ASSUME NEW i \in 0 .. n - 1, i \in S PROVE i + 1 \in S
    <3>1. i + 1 \in 1 .. n /\ (i + 1) - 1 = i /\ i + 1 \in 0 .. n
      BY <1>2
    <3>. QED BY <1>9, <2>2, <3>1
  <2> HIDE DEF S
  <2>. QED BY <1>2, <2>1, <2>2, Induction
<1>11. Good(n)
  BY <1>2, <1>10
<1>. QED BY <1>7, <1>11 DEF Good, V, E

Address == ToSet(Ips)

(* The turns of a cycle each address has under the strategy, and how many  *)
(* were ever taken in turn.                                                *)
Shares == [a \in Address |-> IF strategy = "round-robin" THEN 1 ELSE Weight[a]]
Taken  == IF strategy = "round-robin" THEN roundRobinIndex ELSE weightedCounter

(* t are the turns dealt of the slots up to the x-th.                      *)
DealtAt(P, t, x) ==
  \E U : Partial(U, Shares, P) /\ Dealt(P, t, U, x % U[Len(P)])

PoolTyped ==
  /\ strategy \in Strategies
  /\ roundRobinIndex \in Nat /\ weightedCounter \in Nat
  /\ turns \in [Address -> Nat]
  /\ pool \in Seq(Address) /\ IsInjective(pool)

(* The inductive invariant: the turns counted for a pool of several        *)
(* addresses are those of the slots from where it was first chosen from to *)
(* where the index stands.                                                 *)
PoolInv == PoolTyped /\ (Len(pool) > 1 => DealtAt(pool, turns, Taken))

(* Every address has a share, so the partial sums ascend.                  *)
LEMMA SharesAscend ==
  ASSUME PoolTyped, NEW P \in Seq(Address), NEW U, Partial(U, Shares, P), Len(P) > 0
  PROVE  /\ Ascending(U, Len(P)) /\ U[Len(P)] \in Nat \ {0}
         /\ \A i \in 1 .. Len(P) : U[i] - U[i - 1] = Shares[P[i]]
<1>1. \A a \in Address : Shares[a] \in Nat \ {0}
  BY PoolAssumption DEF Shares, Address
<1>2. PICK n \in Nat \ {0} : n = Len(P)
  OBVIOUS
<1>3. U \in [0 .. n -> Nat] /\ U[0] = 0
  BY <1>2 DEF Partial
<1>4. ASSUME NEW i \in 1 .. n
      PROVE  /\ U[i] \in Nat /\ U[i - 1] \in Nat /\ U[i] >= U[i - 1] + 1
             /\ U[i] - U[i - 1] = Shares[P[i]]
  <2>1. PICK a \in Nat, b \in Nat : a = U[i - 1] /\ b = U[i]
    <3>1. i \in 0 .. n /\ i - 1 \in 0 .. n
      OBVIOUS
    <3>. QED BY <1>3, <3>1
  <2>2. PICK w \in Nat \ {0} : w = Shares[P[i]]
    <3>1. P[i] \in Address
      BY <1>2
    <3>. QED BY <1>1, <3>1
  <2>3. b = a + w
    BY <1>2, <2>1, <2>2 DEF Partial
  <2>4. b - a = w /\ b >= a + 1
    BY <2>3
  <2>. QED BY <2>1, <2>2, <2>4
<1>5. \A i \in 1 .. n : U[i - 1] <= U[i]
  <2> SUFFICES ASSUME NEW i \in 1 .. n PROVE U[i - 1] <= U[i]
    OBVIOUS
  <2>1. PICK a \in Nat, b \in Nat : a = U[i - 1] /\ b = U[i] /\ b >= a + 1
    BY <1>4
  <2>2. a <= b
    BY <2>1
  <2>. QED BY <2>1, <2>2
<1>6. Ascending(U, n)
  BY <1>3, <1>5 DEF Ascending
<1>7. U[n] \in Nat \ {0}
  <2>1. n \in 1 .. n
    OBVIOUS
  <2>2. PICK a \in Nat, b \in Nat : a = U[n - 1] /\ b = U[n] /\ b >= a + 1
    BY <1>4, <2>1
  <2>3. b # 0
    BY <2>2
  <2>. QED BY <2>2, <2>3
<1>. QED BY <1>2, <1>4, <1>6, <1>7

LEMMA PoolInitSound == PoolInit => PoolInv
<1> SUFFICES ASSUME PoolInit PROVE PoolInv
  OBVIOUS
<1>1. pool = <<>> /\ pool \in Seq(Address) /\ Len(pool) = 0 /\ IsInjective(pool)
  BY DEF PoolInit, IsInjective
<1>. QED BY <1>1 DEF PoolInit, PoolInv, PoolTyped, Address

(* Whichever strategy, the address selected is the one whose slots hold    *)
(* the cursor.                                                             *)
LEMMA InTurnIs ==
  ASSUME PoolTyped, strategy = "round-robin", NEW P \in Seq(Address), Len(P) > 0,
         NEW U, Partial(U, Shares, P)
  PROVE  /\ U[Len(P)] = Len(P)
         /\ \E i \in 1 .. Len(P) : /\ InTurn(P) = P[i]
                                   /\ U[i - 1] <= Taken % U[Len(P)]
                                   /\ Taken % U[Len(P)] < U[i]
<1>1. PICK n \in Nat \ {0} : n = Len(P)
  OBVIOUS
<1>2. \A i \in 0 .. n : U[i] = i
  <2> DEFINE S == {i \in 0 .. n : U[i] = i}
  <2>1. 0 \in S
    BY DEF Partial
  <2>2. ASSUME NEW i \in 0 .. n - 1, i \in S PROVE i + 1 \in S
    <3>1. i + 1 \in 1 .. n /\ (i + 1) - 1 = i /\ i + 1 \in 0 .. n
      OBVIOUS
    <3>2. U[i + 1] = U[i] + Shares[P[i + 1]] /\ P[i + 1] \in Address
      BY <1>1, <3>1 DEF Partial
    <3>3. Shares[P[i + 1]] = 1
      BY <3>2 DEF Shares
    <3>. QED BY <2>2, <3>1, <3>2, <3>3
  <2>3. n \in Nat
    OBVIOUS
  <2> HIDE DEF S
  <2>4. \A i \in 0 .. n : i \in S
    BY <2>1, <2>2, <2>3, Induction
  <2>. QED BY <2>4 DEF S
<1>3. PICK c \in 0 .. n - 1 : c = roundRobinIndex % n
  BY NextRemainder DEF PoolTyped
<1>4. c + 1 \in 1 .. n /\ (c + 1) - 1 = c /\ c \in 0 .. n /\ c + 1 \in 0 .. n /\ n \in 0 .. n
  BY <1>3
<1>5. U[n] = n /\ U[c] = c /\ U[c + 1] = c + 1 /\ Taken = roundRobinIndex
  BY <1>2, <1>4 DEF Taken
<1>6. InTurn(P) = P[c + 1]
  BY <1>1, <1>3 DEF InTurn
<1>7. U[(c + 1) - 1] <= c /\ c < U[c + 1]
  BY <1>3, <1>4, <1>5
<1>. QED BY <1>1, <1>3, <1>4, <1>5, <1>6, <1>7

LEMMA WeightedIs ==
  ASSUME PoolTyped, strategy # "round-robin", NEW P \in Seq(Address), Len(P) > 0,
         NEW U, Partial(U, Shares, P)
  PROVE  \E i \in 1 .. Len(P) : /\ Weighted(P) = P[i]
                                /\ U[i - 1] <= Taken % U[Len(P)]
                                /\ Taken % U[Len(P)] < U[i]
<1>1. PICK n \in Nat \ {0} : n = Len(P)
  OBVIOUS
<1>2. Weight \in [Address -> Nat]
  BY PoolAssumption DEF Address
<1>3. Shares = Weight
  BY <1>2 DEF Shares
<1>4. \A i \in 0 .. n : Weights(SubSeq(P, 1, i)) = U[i]
  <2>1. Partial(U, Weight, P)
    BY <1>3
  <2>. QED BY <1>1, <1>2, <2>1, TotalsOfPrefixes DEF Weights
<1>5. Weights(P) = U[n]
  <2>1. SubSeq(P, 1, n) = P
    BY <1>1, SubSeqProperties
  <2>2. n \in 0 .. n
    OBVIOUS
  <2>. QED BY <1>4, <2>1, <2>2
<1>6. U[n] \in Nat \ {0} /\ U \in [0 .. n -> Nat] /\ U[0] = 0
  BY <1>1, SharesAscend DEF Partial
<1>7. PICK c \in Nat : c = weightedCounter % U[n] /\ c < U[n]
  <2>1. weightedCounter % U[n] \in 0 .. U[n] - 1
    BY <1>6, NextRemainder DEF PoolTyped
  <2>. QED BY <1>6, <2>1
<1>8. \E i \in 1 .. n : U[i - 1] <= c /\ c < U[i]
  BY <1>6, <1>7, PartFound
<1> DEFINE Next(i) == Weights(SubSeq(P, 1, i - 1)) <= c /\ c < Weights(SubSeq(P, 1, i))
<1>9. \A i \in 1 .. n : Next(i) <=> U[i - 1] <= c /\ c < U[i]
  <2>1. \A i \in 1 .. n : i \in 0 .. n /\ i - 1 \in 0 .. n
    OBVIOUS
  <2>. QED BY <1>4, <2>1
<1>10. DOMAIN P = 1 .. n
  BY <1>1
<1>11. Weighted(P) = P[CHOOSE i \in 1 .. n : Next(i)]
  BY <1>5, <1>7, <1>10 DEF Weighted
<1> HIDE DEF Next
<1>12. PICK i \in 1 .. n : Next(i) /\ Weighted(P) = P[i]
  BY <1>8, <1>9, <1>11
<1>13. Taken = weightedCounter
  BY DEF Taken
<1>. QED BY <1>1, <1>7, <1>9, <1>12, <1>13

(* The turns counted before a selection from P.                            *)
Counted(P) == IF P = pool THEN turns ELSE [a \in DOMAIN turns |-> 0]

(* A selection from the addresses P.                                       *)
SelectedFrom(P) ==
  /\ pool' = P /\ strategy' = strategy
  /\ Len(P) = 1 =>
       /\ roundRobinIndex' = roundRobinIndex
       /\ weightedCounter' = weightedCounter
       /\ turns' = [Counted(P) EXCEPT ![P[1]] = @ + 1]
  /\ Len(P) # 1 /\ strategy = "round-robin" =>
       /\ roundRobinIndex' = (roundRobinIndex + 1) % Len(P)
       /\ weightedCounter' = weightedCounter
       /\ turns' = [Counted(P) EXCEPT ![InTurn(P)] = @ + 1]
  /\ Len(P) # 1 /\ strategy # "round-robin" =>
       /\ roundRobinIndex' = roundRobinIndex
       /\ weightedCounter' = weightedCounter + 1
       /\ turns' = [Counted(P) EXCEPT ![Weighted(P)] = @ + 1]

LEMMA SelectMoves ==
  ASSUME NEW p \in DOMAIN Allowed, SelectIp(p)
  PROVE  \E P \in Seq(Address) : IsInjective(P) /\ Len(P) > 0 /\ SelectedFrom(P)
<1> DEFINE candidates == Among(Allowed[p])
           marked     == rateLimited \ {a \in Allowed[p] : poolTime >= rateLimitedUntil[a]}
           healthy    == Among(Allowed[p] \ marked)
<1>1. PICK P : P = IF healthy # <<>> THEN healthy ELSE candidates
  OBVIOUS
<1>2. candidates \in Seq(Address) /\ IsInjective(candidates)
  BY AmongIs DEF Address
<1>3. healthy \in Seq(Address) /\ IsInjective(healthy)
  BY AmongIs DEF Address
<1>4. candidates # <<>>
  BY DEF SelectIp
<1>5. /\ roundRobinIndex' = (IF strategy = "round-robin" /\ Len(P) > 1
                             THEN (roundRobinIndex + 1) % Len(P) ELSE roundRobinIndex)
      /\ weightedCounter' = (IF strategy = "round-robin" \/ Len(P) = 1
                             THEN weightedCounter ELSE weightedCounter + 1)
      /\ pool' = P /\ strategy' = strategy
  BY <1>1 DEF SelectIp
<1>6. turns' = [Counted(P) EXCEPT ![IF Len(P) = 1 THEN P[1]
                  ELSE IF strategy = "round-robin" THEN InTurn(P) ELSE Weighted(P)] = @ + 1]
  BY <1>1 DEF SelectIp, Counted
<1> HIDE DEF candidates, healthy, marked
<1>7. P \in Seq(Address) /\ IsInjective(P) /\ P # <<>>
  BY <1>1, <1>2, <1>3, <1>4
<1>8. Len(P) \in Nat /\ Len(P) > 0
  BY <1>7
<1>9. SelectedFrom(P)
  <2>1. CASE Len(P) = 1
    BY <1>5, <1>6, <2>1 DEF SelectedFrom
  <2>2. CASE Len(P) # 1
    <3>1. Len(P) > 1
      BY <1>7, <1>8, <2>2
    <3>. QED BY <1>5, <1>6, <2>2, <3>1 DEF SelectedFrom
  <2>. QED BY <2>1, <2>2
<1>. QED BY <1>7, <1>8, <1>9

LEMMA CountedTyped ==
  ASSUME PoolTyped, NEW P
  PROVE  /\ Counted(P) \in [Address -> Nat]
         /\ P # pool => Counted(P) = [a \in Address |-> 0]
         /\ P = pool => Counted(P) = turns
<1>1. turns \in [Address -> Nat] /\ DOMAIN turns = Address
  BY DEF PoolTyped
<1>. QED BY <1>1 DEF Counted

(* The turn taken is the next of the cycle.                                *)
LEMMA TurnTaken ==
  ASSUME PoolInv, NEW P \in Seq(Address), IsInjective(P), Len(P) > 1,
         NEW a, a = IF strategy = "round-robin" THEN InTurn(P) ELSE Weighted(P)
  PROVE  /\ [Counted(P) EXCEPT ![a] = @ + 1] \in [Address -> Nat]
         /\ \E U : /\ Partial(U, Shares, P) /\ U[Len(P)] \in Nat \ {0}
                   /\ strategy = "round-robin" => U[Len(P)] = Len(P)
                   /\ Dealt(P, [Counted(P) EXCEPT ![a] = @ + 1], U, (Taken + 1) % U[Len(P)])
<1>1. PoolTyped /\ Len(P) \in Nat /\ Len(P) > 0
  BY DEF PoolInv
<1>2. Shares \in [Address -> Nat] /\ Taken \in Nat
  <2>1. \A x \in Address : Weight[x] \in Nat
    BY PoolAssumption DEF Address
  <2>2. Shares \in [Address -> Nat]
    BY <2>1 DEF Shares
  <2>3. Taken \in Nat
    BY <1>1 DEF PoolTyped, Taken
  <2>. QED BY <2>2, <2>3
<1>3. Counted(P) \in [Address -> Nat]
  BY <1>1, CountedTyped
<1>4. PICK U : Partial(U, Shares, P) /\ (P = pool => Dealt(P, turns, U, Taken % U[Len(P)]))
  <2>1. CASE P = pool
    BY <2>1 DEF PoolInv, DealtAt
  <2>2. CASE P # pool
    BY <1>2, <2>2, TotalIs
  <2>. QED BY <2>1, <2>2
<1>5. Ascending(U, Len(P)) /\ U[Len(P)] \in Nat \ {0}
  BY <1>1, <1>4, SharesAscend
<1>6. PICK W \in Nat \ {0} : W = U[Len(P)]
  BY <1>5
<1>7. PICK c \in 0 .. W - 1 : c = Taken % W
  BY <1>2, NextRemainder
<1>8. (Taken + 1) % W = IF c + 1 = W THEN 0 ELSE c + 1
  BY <1>2, <1>7, NextRemainder
<1>9. Dealt(P, Counted(P), U, c)
  <2>1. CASE P = pool
    <3>1. Counted(P) = turns
      BY <1>1, <2>1, CountedTyped
    <3>. QED BY <1>4, <1>6, <1>7, <2>1, <3>1
  <2>2. CASE P # pool
    <3>1. Counted(P) = [x \in Address |-> 0]
      BY <1>1, <2>2, CountedTyped
    <3>2. c \in 0 .. U[Len(P)] - 1
      BY <1>6, <1>7
    <3>. QED BY <1>5, <3>1, <3>2, NoneDealt
  <2>. QED BY <2>1, <2>2
<1>10. PICK i \in 1 .. Len(P) : a = P[i] /\ U[i - 1] <= c /\ c < U[i]
  <2>1. CASE strategy = "round-robin"
    BY <1>1, <1>4, <1>6, <1>7, <2>1, InTurnIs
  <2>2. CASE strategy # "round-robin"
    BY <1>1, <1>4, <1>6, <1>7, <2>2, WeightedIs
  <2>. QED BY <2>1, <2>2
<1> DEFINE t == [Counted(P) EXCEPT ![a] = @ + 1]
<1>11. t \in [Address -> Nat]
  <2>1. a \in Address
    BY <1>10
  <2>2. Counted(P)[a] \in Nat
    BY <1>3, <2>1
  <2>. QED BY <1>3, <2>1, <2>2
<1>12. Dealt(P, t, U, IF c + 1 = W THEN 0 ELSE c + 1)
  <2>1. c \in 0 .. U[Len(P)] - 1
    BY <1>6, <1>7
  <2>2. Dealt(P, [Counted(P) EXCEPT ![P[i]] = @ + 1], U,
              IF c + 1 = U[Len(P)] THEN 0 ELSE c + 1)
    BY <1>3, <1>5, <1>9, <1>10, <2>1, DealtNext
  <2>. QED BY <1>6, <1>10, <2>2
<1>13. strategy = "round-robin" => U[Len(P)] = Len(P)
  BY <1>1, <1>4, InTurnIs
<1> HIDE DEF t
<1>14. Dealt(P, t, U, (Taken + 1) % U[Len(P)])
  BY <1>6, <1>8, <1>12
<1>. QED BY <1>4, <1>5, <1>11, <1>13, <1>14 DEF t

LEMMA SelectKeeps ==
  ASSUME PoolInv, NEW P \in Seq(Address), IsInjective(P), Len(P) > 0, SelectedFrom(P)
  PROVE  PoolInv'
<1>1. PoolTyped /\ Len(P) \in Nat /\ P \in Seq(Address)
  BY DEF PoolInv
<1>2. CASE Len(P) = 1
  <2>1. P[1] \in Address
    BY <1>2
  <2>2. Counted(P) \in [Address -> Nat]
    BY <1>1, CountedTyped
  <2>3. [Counted(P) EXCEPT ![P[1]] = @ + 1] \in [Address -> Nat]
    <3>1. Counted(P)[P[1]] \in Nat
      BY <2>1, <2>2
    <3>. QED BY <2>1, <2>2, <3>1
  <2>4. PoolTyped'
    BY <1>1, <1>2, <2>3 DEF PoolTyped, SelectedFrom, Address
  <2>. QED BY <1>2, <2>4 DEF PoolInv, SelectedFrom
<1>3. CASE Len(P) > 1
  <2>1. PICK a : a = IF strategy = "round-robin" THEN InTurn(P) ELSE Weighted(P)
    OBVIOUS
  <2>2. PICK t : t = [Counted(P) EXCEPT ![a] = @ + 1]
    OBVIOUS
  <2>3. PICK U : /\ t \in [Address -> Nat]
                 /\ Partial(U, Shares, P) /\ U[Len(P)] \in Nat \ {0}
                 /\ strategy = "round-robin" => U[Len(P)] = Len(P)
                 /\ Dealt(P, t, U, (Taken + 1) % U[Len(P)])
    BY <1>3, <2>1, <2>2, TurnTaken
  <2>4. Len(P) # 1
    <3>1. PICK n \in Nat : n = Len(P)
      BY <1>1
    <3>2. n > 1 => n # 1
      OBVIOUS
    <3>. QED BY <1>3, <3>1, <3>2
  <2>5. strategy' = strategy /\ pool' = P /\ turns' = t /\ Shares' = Shares
    BY <2>1, <2>2, <2>4 DEF SelectedFrom, Shares, Address
  <2>6. roundRobinIndex \in Nat /\ weightedCounter \in Nat
    BY <1>1 DEF PoolTyped
  <2>7. /\ Taken' % U[Len(P)] = (Taken + 1) % U[Len(P)]
        /\ roundRobinIndex' \in Nat /\ weightedCounter' \in Nat
    <3>1. CASE strategy = "round-robin"
      <4>1. PICK n \in Nat \ {0} : n = Len(P) /\ U[Len(P)] = n
        BY <1>1, <1>3, <2>3, <3>1
      <4>2. PICK r \in 0 .. n - 1 : r = (roundRobinIndex + 1) % n
        <5>1. roundRobinIndex + 1 \in Nat
          BY <2>6
        <5>. QED BY <5>1, NextRemainder
      <4>3. r % n = r
        <5>1. r \in Nat /\ r < n
          BY <4>2
        <5>. QED BY <5>1, NextRemainder
      <4>4. roundRobinIndex' = r /\ weightedCounter' = weightedCounter /\ Taken' = r
        BY <2>4, <2>5, <3>1, <4>1, <4>2 DEF SelectedFrom, Taken
      <4>5. Taken + 1 = roundRobinIndex + 1
        BY <3>1 DEF Taken
      <4>. QED BY <2>6, <4>1, <4>2, <4>3, <4>4, <4>5
    <3>2. CASE strategy # "round-robin"
      <4>1. roundRobinIndex' = roundRobinIndex /\ weightedCounter' = weightedCounter + 1
        BY <2>4, <3>2 DEF SelectedFrom
      <4>2. Taken' = Taken + 1
        BY <2>5, <3>2, <4>1 DEF Taken
      <4>. QED BY <2>6, <4>1, <4>2
    <3>. QED BY <3>1, <3>2
  <2>8. PoolTyped'
    BY <1>1, <2>3, <2>5, <2>7 DEF PoolTyped, Address
  <2>9. Len(pool') > 1 => DealtAt(pool, turns, Taken)'
    <3>1. Partial(U, Shares', pool') /\ Dealt(pool', turns', U, Taken' % U[Len(pool')])
      BY <2>3, <2>5, <2>7
    <3>. QED BY <3>1 DEF DealtAt, Partial, Dealt, DealtFrom
  <2>. QED BY <2>8, <2>9 DEF PoolInv
<1>4. Len(P) = 1 \/ Len(P) > 1
  <2>1. PICK n \in Nat : n = Len(P)
    BY <1>1
  <2>2. n > 0 => n = 1 \/ n > 1
    OBVIOUS
  <2>. QED BY <2>1, <2>2
<1>. QED BY <1>2, <1>3, <1>4

LEMMA PoolStepSound == PoolInv /\ [PoolNext]_poolVars => PoolInv'
<1> SUFFICES ASSUME PoolInv, [PoolNext]_poolVars PROVE PoolInv'
  OBVIOUS
<1>1. CASE \E p \in DOMAIN Allowed : SelectIp(p)
  <2>1. PICK p \in DOMAIN Allowed : SelectIp(p)
    BY <1>1
  <2>2. PICK P \in Seq(Address) : IsInjective(P) /\ Len(P) > 0 /\ SelectedFrom(P)
    BY <2>1, SelectMoves
  <2>. QED BY <2>2, SelectKeeps
<1>2. CASE UNCHANGED <<strategy, roundRobinIndex, weightedCounter, pool, turns>>
  <2>1. Shares' = Shares /\ Taken' = Taken
    BY <1>2 DEF Shares, Taken, Address
  <2>2. PoolTyped'
    BY <1>2 DEF PoolInv, PoolTyped, Address
  <2>3. Len(pool') > 1 => DealtAt(pool, turns, Taken)'
    BY <1>2, <2>1 DEF PoolInv, DealtAt, Partial, Dealt, DealtFrom
  <2>. QED BY <2>2, <2>3 DEF PoolInv
<1>3. CASE \E a \in ToSet(Ips) : MarkRateLimited(a, 1) \/ ClearRateLimit(a)
  BY <1>2, <1>3 DEF MarkRateLimited, ClearRateLimit
<1>4. CASE PoolTick
  BY <1>2, <1>4 DEF PoolTick
<1>5. CASE UNCHANGED poolVars
  BY <1>2, <1>5 DEF poolVars
<1>. QED BY <1>1, <1>3, <1>4, <1>5 DEF PoolNext

LEMMA DealtMeansFair ==
  ASSUME PoolTyped, Len(pool) > 0, NEW U, Partial(U, Shares, pool),
         NEW c \in 0 .. U[Len(pool)] - 1, Dealt(pool, turns, U, c)
  PROVE  FairShare
<1>1. PICK n \in Nat \ {0} : n = Len(pool)
  BY DEF PoolTyped
<1>2. /\ Ascending(U, n) /\ U[n] \in Nat \ {0}
      /\ \A i \in 1 .. n : U[i] - U[i - 1] = Shares[pool[i]]
  BY <1>1, SharesAscend DEF PoolTyped
<1>3. U[n] = IF strategy = "round-robin" THEN Len(pool) ELSE Weights(pool)
  <2>1. CASE strategy = "round-robin"
    BY <1>1, <2>1, InTurnIs DEF PoolTyped
  <2>2. CASE strategy # "round-robin"
    <3>1. Shares = Weight
      BY <2>2, PoolAssumption DEF Shares, Address
    <3>2. Weight \in [Address -> Nat]
      BY PoolAssumption DEF Address
    <3>3. pool \in Seq(Address) /\ n \in 0 .. n
      BY DEF PoolTyped
    <3>4. Total(Weight, SubSeq(pool, 1, n)) = U[n]
      BY <1>1, <3>1, <3>2, <3>3, TotalsOfPrefixes
    <3>5. SubSeq(pool, 1, n) = pool
      BY <1>1, <3>3, SubSeqProperties
    <3>. QED BY <2>2, <3>4, <3>5 DEF Weights
  <2>. QED BY <2>1, <2>2
<1>4. ASSUME NEW a \in ToSet(pool)
      PROVE  LET share == IF strategy = "round-robin" THEN 1 ELSE Weight[a]
             IN  /\ turns[a] >= share * (Total(turns, pool) \div U[n])
                 /\ turns[a] <= share * ((Total(turns, pool) + U[n] - 1) \div U[n])
  <2>1. PICK i \in 1 .. n : a = pool[i]
    BY <1>1 DEF ToSet, PoolTyped
  <2>2. a \in Address
    BY <1>1, <2>1 DEF PoolTyped
  <2>3. U[i] - U[i - 1] = IF strategy = "round-robin" THEN 1 ELSE Weight[a]
    BY <1>2, <2>1, <2>2 DEF Shares
  <2>4. /\ turns[pool[i]] >= (U[i] - U[i - 1]) * (Total(turns, pool) \div U[Len(pool)])
        /\ turns[pool[i]] <= (U[i] - U[i - 1]) * ((Total(turns, pool) + U[Len(pool)] - 1) \div U[Len(pool)])
    BY <1>1, <1>2, DealtFairly DEF PoolTyped
  <2>. QED BY <1>1, <2>1, <2>3, <2>4
<1>. QED BY <1>3, <1>4 DEF FairShare

LEMMA FairEnough == PoolInv => FairShare
<1> SUFFICES ASSUME PoolInv PROVE FairShare
  OBVIOUS
<1>1. PoolTyped /\ pool \in Seq(Address) /\ Len(pool) \in Nat
  BY DEF PoolInv, PoolTyped
<1>2. CASE Len(pool) = 0
  <2>1. ToSet(pool) = {}
    BY <1>1, <1>2 DEF ToSet
  <2>. QED BY <2>1 DEF FairShare
<1>3. CASE Len(pool) = 1
  <2>1. Shares \in [Address -> Nat] /\ turns \in [Address -> Nat]
    <3>1. \A x \in Address : Weight[x] \in Nat
      BY PoolAssumption DEF Address
    <3>. QED BY <1>1, <3>1 DEF Shares, PoolTyped
  <2>2. PICK U : Partial(U, Shares, pool)
    BY <1>1, <2>1, TotalIs
  <2>3. PICK w \in Nat \ {0} : w = U[1] /\ U[0] = 0
    BY <1>1, <1>3, <2>2, SharesAscend DEF Partial
  <2>4. PICK m \in Nat : m = turns[pool[1]]
    <3>1. pool[1] \in Address
      BY <1>1, <1>3
    <3>2. turns[pool[1]] \in Nat
      BY <2>1, <3>1
    <3>. QED BY <3>2
  <2>5. PICK k \in Nat, c \in 0 .. w - 1 : m = k * w + c
    <3>1. PICK k \in Int, c \in Int : k = m \div w /\ c = m % w
      OBVIOUS
    <3>2. c \in 0 .. w - 1 /\ m = w * k + c
      BY <3>1
    <3>3. w * k = k * w
      BY <3>1, ProductSum
    <3>4. ASSUME k <= -1 PROVE FALSE
      <4>1. w * k <= w * (-1) /\ w * (-1) = -w
        BY <3>4, ProductGrows
      <4>. QED BY <3>2, <4>1
    <3>5. k \in Nat
      BY <3>4
    <3>. QED BY <3>2, <3>3, <3>5
  <2>6. DealtFrom(pool, turns, U, c, k, 0)
    <3>1. c >= 0
      OBVIOUS
    <3>2. Before(0, w, c) = c /\ Before(0, w, 0) = 0
      BY DEF Before
    <3>3. \A i \in 1 .. Len(pool) : i = 1 /\ i - 1 = 0
      BY <1>3
    <3>4. turns[pool[1]] = k * (w - 0) + Before(0, w, c) - Before(0, w, 0)
      BY <2>4, <2>5, <3>2
    <3>. QED BY <2>3, <3>1, <3>3, <3>4 DEF DealtFrom
  <2>7. c \in 0 .. U[Len(pool)] - 1 /\ 0 \in 0 .. U[Len(pool)] - 1
    BY <1>3, <2>3
  <2>8. Dealt(pool, turns, U, c)
    BY <2>6, <2>7 DEF Dealt
  <2>. QED BY <1>1, <1>3, <2>2, <2>7, <2>8, DealtMeansFair
<1>4. CASE Len(pool) > 1
  <2>1. PICK U : Partial(U, Shares, pool) /\ Dealt(pool, turns, U, Taken % U[Len(pool)])
    BY <1>4 DEF PoolInv, DealtAt
  <2>2. U[Len(pool)] \in Nat \ {0}
    BY <1>1, <1>4, <2>1, SharesAscend
  <2>3. Taken \in Nat
    BY <1>1 DEF PoolTyped, Taken
  <2>4. Taken % U[Len(pool)] \in 0 .. U[Len(pool)] - 1
    BY <2>2, <2>3, NextRemainder
  <2>. QED BY <1>1, <1>4, <2>1, <2>4, DealtMeansFair
<1>. QED BY <1>1, <1>2, <1>3, <1>4

(* As long as requests choose from the same addresses, each has its share  *)
(* of them, whatever the indexes were before (selectIp, ip-pool.ts:75).    *)
THEOREM SharesAlwaysFair == PoolSpec => []FairShare
<1>1. PoolSpec => []PoolInv
  BY PoolInitSound, PoolStepSound, PTL DEF PoolSpec
<1>. QED BY <1>1, FairEnough, PTL

=============================================================================
