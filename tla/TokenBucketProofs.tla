-------------------------- MODULE TokenBucketProofs --------------------------
(***************************************************************************)
(* The rate limiter, for any number of checks, any rate and any lengths of *)
(* a minute, a second and an expiry.  Its types hold for any listeners; the*)
(* bounds are those of a listener that has its store to itself.            *)
(*                                                                         *)
(* A check works on the copy of the bucket it looked up.  What makes the   *)
(* copies add up is that the checks run in the order of their lookups, so  *)
(* time never runs backwards in a bucket, and that every pair of checks on *)
(* different copies has been counted as a race when the second one came.   *)
(***************************************************************************)
EXTENDS TokenBucket, FiniteSetTheorems, TLAPS

Looked == {c \in Check : phase[c] = "looked"}

(* Time does not run backwards in the buckets.                             *)
Times ==
  /\ \A c \in Check : now[c] <= clock /\ heap[c].lastRefill <= clock
  /\ \A c \in Looked : entry[c] # NoEntry => heap[entry[c]].lastRefill <= now[c]

(* The checks that are still to work on the bucket wait in the order of    *)
(* their lookups; a check that has done so holds a bucket.                 *)
Queue ==
  /\ \A c \in Looked : \E i \in 1 .. Len(tasks) : tasks[i] = c
  /\ \A i, j \in 1 .. Len(tasks) :
       i <= j /\ tasks[i] \in Looked /\ tasks[j] \in Looked =>
         now[tasks[i]] <= now[tasks[j]]
  /\ \A i \in 1 .. Len(tasks) : phase[tasks[i]] # "idle"
  /\ IsFiniteSet(Looked)
  /\ \A c \in Check : phase[c] \in {"granting", "denying"} => entry[c] # NoEntry

(* A check that has not made a bucket yet has none that is in use.         *)
Unmade ==
  \A c \in Check :
    phase[c] = "idle" \/ (phase[c] = "looked" /\ entry[c] = NoEntry) =>
      stored.entry # c /\ \A d \in Looked : entry[d] # c

BaseInv == TypeOK /\ Times /\ Queue /\ Unmade

-----------------------------------------------------------------------------
(* From here on, of a listener that has its store to itself.               *)

(* The buckets that are in use.                                            *)
Used == {e \in Check : stored.entry = e \/ \E c \in Looked : entry[c] = e}

(* The reset time of a bucket is when it is full, or a tick later.         *)
ResetRight(l, b) ==
  /\ b.tokens + Rpm[l] * (b.resetAt - b.lastRefill) >= Capacity(l)
  /\ b.tokens + Rpm[l] * (b.resetAt - 1 - b.lastRefill) <= Capacity(l)

(* A stored bucket outlives the time it takes to fill.                     *)
Outlives ==
  stored.entry # NoEntry =>
    stored.expiresAt >= heap[stored.entry].lastRefill + Ttl

(* The level of the stored bucket, expired or not.                         *)
Stock(l) ==
  IF stored.entry = NoEntry THEN Capacity(l)
                            ELSE Refilled(l, heap[stored.entry], clock)

(* What a check finds, the tokens granted already, and one for each other  *)
(* check on a different copy, are paid for by the refill and the races.    *)
Others(c) == Rivals(entry[c]) \ {c}
Paid(l) ==
  /\ granted[l] * Minute + Stock(l) <= Capacity(l) + Rpm[l] * clock + races * Minute
  /\ \A c \in Looked :
       granted[l] * Minute + Level(c) + Cardinality(Others(c)) * Minute
         <= Capacity(l) + Rpm[l] * now[c] + races * Minute

(* Without races all checks that look at the bucket look at the same, and  *)
(* the bucket has a token when the first denial promised one.              *)
Promised(l) ==
  races = 0 =>
    /\ \A c, d \in Looked : c # d => entry[c] = entry[d] /\ entry[c] # NoEntry
    /\ promise # 0 => \A e \in Used :
         heap[e].tokens + Rpm[l] * (promise - heap[e].lastRefill) >= Minute

BucketInv(l) ==
  /\ \A e \in Used : ResetRight(l, heap[e])
  /\ Outlives
  /\ Paid(l)
  /\ Promised(l)

-----------------------------------------------------------------------------
(* Arithmetic.                                                             *)
LEMMA TimesMore ==
  ASSUME NEW r \in Nat, NEW x \in Int, NEW y \in Int, x <= y
  PROVE  r * x <= r * y
OBVIOUS

LEMMA TimesSum ==
  ASSUME NEW r \in Nat, NEW x \in Int, NEW y \in Int
  PROVE  /\ r * x \in Int /\ r * (x + y) = r * x + r * y
         /\ r * (x - y) = r * x - r * y
OBVIOUS

LEMMA CeilBounds ==
  ASSUME NEW x \in Nat, NEW y \in Nat \ {0}
  PROVE  /\ CeilDiv(x, y) \in Nat
         /\ y * CeilDiv(x, y) >= x
         /\ y * (CeilDiv(x, y) - 1) < x
BY DEF CeilDiv

LEMMA CeilingsBounds ==
  ASSUME NEW x \in Nat, NEW y \in Nat \ {0}, NEW q \in Ceilings(x, y)
  PROVE  q \in Nat /\ y * q >= x /\ y * (q - 1) <= x
<1>1. PICK z \in Nat : z = CeilDiv(x, y) /\ y * z >= x
  BY CeilBounds
<1>2. (q = z \/ q = z + 1) /\ y * (q - 1) <= x
  BY <1>1 DEF Ceilings
<1>3. q \in Nat /\ z <= q
  BY <1>1, <1>2
<1>4. y * z <= y * q /\ y * z \in Int /\ y * q \in Int
  BY <1>1, <1>3, TimesMore
<1>. QED BY <1>1, <1>2, <1>3, <1>4

LEMMA SecondsBounds ==
  ASSUME NEW x \in Nat
  PROVE  Seconds(x) \in Nat /\ Seconds(x) >= x
<1>1. Second \in Nat \ {0}
  BY BucketAssumption
<1>2. CeilDiv(x, Second) \in Nat /\ Second * CeilDiv(x, Second) >= x
  BY <1>1, CeilBounds
<1>3. Seconds(x) = Second * CeilDiv(x, Second)
  BY <1>1, <1>2 DEF Seconds
<1>. QED BY <1>1, <1>2, <1>3

LEMMA RpmTyped == ASSUME NEW l \in Listener PROVE Rpm[l] \in Nat \ {0}
BY BucketAssumption

LEMMA CapacityTyped ==
  ASSUME NEW l \in Listener
  PROVE  Capacity(l) \in Nat /\ Capacity(l) >= Minute
<1>1. Rpm[l] \in Nat \ {0} /\ Minute \in Nat \ {0}
  BY BucketAssumption
<1>2. Minute * 1 <= Minute * Rpm[l]
  BY <1>1, TimesMore
<1>. QED BY <1>1, <1>2 DEF Capacity

(* What a bucket holds after some time.                                    *)
LEMMA RefilledAt ==
  ASSUME NEW l \in Listener, NEW b \in Bucket, NEW t \in Nat, b.lastRefill <= t
  PROVE  /\ Refilled(l, b, t) \in Nat
         /\ Refilled(l, b, t) <= Capacity(l)
         /\ Refilled(l, b, t) <= b.tokens + Rpm[l] * (t - b.lastRefill)
         /\ \/ Refilled(l, b, t) = Capacity(l)
            \/ Refilled(l, b, t) = b.tokens + Rpm[l] * (t - b.lastRefill)
<1>1. Rpm[l] \in Nat /\ Capacity(l) \in Nat
  BY RpmTyped, CapacityTyped
<1>2. b.tokens \in Nat /\ b.lastRefill \in Nat
  BY DEF Bucket
<1>3. Rpm[l] * 0 <= Rpm[l] * (t - b.lastRefill)
  BY <1>1, <1>2, TimesMore
<1>4. b.tokens + Rpm[l] * (t - b.lastRefill) \in Nat
  BY <1>1, <1>2, <1>3
<1>. QED BY <1>1, <1>4 DEF Refilled, Min2

(* What a check finds when its turn comes.                                 *)
LEMMA FoundAt ==
  ASSUME TypeOK, Times, NEW c \in Looked
  PROVE  /\ c \in Check /\ Held(c) \in Check /\ port[c] \in Listener
         /\ now[c] \in Nat
         /\ Found(c) \in Bucket /\ Found(c).lastRefill <= now[c]
         /\ entry[c] = NoEntry => Found(c).tokens = Capacity(port[c])
                                  /\ Found(c).lastRefill = now[c]
<1>1. c \in Check /\ port[c] \in Listener /\ now[c] \in Nat
  BY DEF Looked, TypeOK
<1>2. CASE entry[c] = NoEntry
  <2>1. Capacity(port[c]) \in Nat /\ now[c] + Minute \in Nat
    BY <1>1, CapacityTyped, BucketAssumption
  <2>. QED BY <1>1, <1>2, <2>1 DEF Held, Found, FullBucket, Bucket
<1>3. CASE entry[c] # NoEntry
  <2>1. entry[c] \in Check /\ heap[entry[c]] \in Bucket
    BY <1>1, <1>3 DEF TypeOK
  <2>. QED BY <1>1, <1>3, <2>1 DEF Held, Found, Times
<1>. QED BY <1>2, <1>3

LEMMA LevelAt ==
  ASSUME TypeOK, Times, NEW c \in Looked
  PROVE  /\ Level(c) \in Nat /\ Level(c) <= Capacity(port[c])
         /\ Level(c) <= Found(c).tokens + Rpm[port[c]] * (now[c] - Found(c).lastRefill)
         /\ \/ Level(c) = Capacity(port[c])
            \/ Level(c) = Found(c).tokens + Rpm[port[c]] * (now[c] - Found(c).lastRefill)
         /\ entry[c] = NoEntry => Level(c) = Capacity(port[c])
<1>1. /\ port[c] \in Listener /\ now[c] \in Nat
      /\ Found(c) \in Bucket /\ Found(c).lastRefill <= now[c]
      /\ entry[c] = NoEntry => Found(c).tokens = Capacity(port[c])
                               /\ Found(c).lastRefill = now[c]
  BY FoundAt
<1>2. entry[c] = NoEntry => Level(c) = Capacity(port[c])
  <2>1. Rpm[port[c]] * (now[c] - now[c]) = 0 /\ Capacity(port[c]) \in Nat
    BY <1>1, RpmTyped, CapacityTyped
  <2>. QED BY <1>1, <2>1 DEF Level, Refilled, Min2
<1>. QED BY <1>1, <1>2, RefilledAt DEF Level

(* A float that is short holds something.                                  *)
LEMMA ShortAt ==
  ASSUME TypeOK, Times, NEW c \in Looked, NEW short \in Shorts(c)
  PROVE  /\ short \in BOOLEAN
         /\ short => Level(c) > 0
         /\ short => Level(c) = Found(c).tokens + Rpm[port[c]] * (now[c] - Found(c).lastRefill)
         /\ short => entry[c] # NoEntry
<1>1. /\ port[c] \in Listener /\ now[c] \in Nat /\ Minute \in Nat \ {0}
      /\ Found(c) \in Bucket /\ Found(c).lastRefill <= now[c]
      /\ Rpm[port[c]] \in Nat \ {0}
      /\ Capacity(port[c]) \in Nat /\ Capacity(port[c]) >= Minute
  BY FoundAt, RpmTyped, CapacityTyped, BucketAssumption
<1>2. /\ Found(c).tokens \in Nat /\ Found(c).lastRefill \in Nat
      /\ Found(c).short \in BOOLEAN /\ (Found(c).short => Found(c).tokens > 0)
  BY <1>1 DEF Bucket
<1>3. PICK t \in Nat : t = now[c] - Found(c).lastRefill
  BY <1>1, <1>2
<1>4. PICK x \in Int : x = Rpm[port[c]] * t /\ x >= t
  <2>1. t * 1 <= t * Rpm[port[c]]
    BY <1>1, <1>3, TimesMore
  <2>. QED BY <1>1, <1>3, <2>1
<1>5. Level(c) = IF Capacity(port[c]) <= Found(c).tokens + x
                   THEN Capacity(port[c]) ELSE Found(c).tokens + x
  BY <1>3, <1>4 DEF Level, Refilled, Min2
<1>6. \/ ~short
      \/ /\ Found(c).tokens + x <= Capacity(port[c])
         /\ (t = 0 /\ short = Found(c).short) \/ (t # 0 /\ short \in BOOLEAN)
  <2>1. short \in IF Found(c).tokens + x > Capacity(port[c]) THEN {FALSE}
                  ELSE IF now[c] = Found(c).lastRefill THEN {Found(c).short}
                  ELSE BOOLEAN
    BY <1>3, <1>4 DEF Shorts, Rounded
  <2>2. (now[c] = Found(c).lastRefill) = (t = 0)
    BY <1>1, <1>2, <1>3
  <2>3. CASE Found(c).tokens + x > Capacity(port[c])
    BY <2>1, <2>3
  <2>4. CASE ~(Found(c).tokens + x > Capacity(port[c]))
    <3>1. Found(c).tokens + x <= Capacity(port[c])
      BY <1>1, <1>2, <1>4, <2>4
    <3>. QED BY <2>1, <2>2, <2>4, <3>1
  <2>. QED BY <2>3, <2>4
<1>7. short \in BOOLEAN
  BY <1>2 DEF Shorts, Rounded
<1>8. ASSUME short PROVE Level(c) = Found(c).tokens + x
  BY <1>1, <1>2, <1>4, <1>5, <1>6, <1>8
<1>9. ASSUME short PROVE Found(c).tokens + x > 0
  <2>1. CASE t = 0
    <3>1. Found(c).short
      BY <1>6, <1>9, <2>1
    <3>2. Found(c).tokens > 0 /\ x >= 0
      BY <1>2, <1>4, <2>1, <3>1
    <3>. QED BY <1>2, <1>4, <3>2
  <2>2. CASE t # 0
    BY <1>2, <1>3, <1>4, <2>2
  <2>. QED BY <2>1, <2>2
<1>10. ASSUME short, entry[c] = NoEntry PROVE FALSE
  <2>1. Found(c) = FullBucket(port[c], now[c])
    BY <1>10 DEF Found
  <2>2. ~Found(c).short /\ Found(c).lastRefill = now[c]
    BY <2>1 DEF FullBucket
  <2>3. t = 0
    BY <1>1, <1>3, <2>2
  <2>. QED BY <1>6, <1>10, <2>2, <2>3
<1>. QED BY <1>3, <1>4, <1>7, <1>8, <1>9, <1>10

-----------------------------------------------------------------------------
(* The two shapes of a check's steps on the bucket, and the buckets that a *)
(* granted and a denied check leave.                                       *)
Spends(c, b) ==
  \E short \in Shorts(c) :
    /\ Units(Level(c), short) >= Minute
    /\ \E q \in Ceilings(Capacity(port[c]) - (Level(c) - Minute), Rpm[port[c]]) :
         b = Spent(Found(c), Level(c), short, now[c], now[c] + q)

Keeps(c, b) ==
  \E short \in Shorts(c) :
    /\ Units(Level(c), short) < Minute
    /\ b = Kept(Found(c), Level(c), short, now[c])

(* It looks a copy up, e its entry ...                                     *)
Looks(c, e) ==
  /\ c \in Check /\ phase[c] = "idle" /\ phase'[c] = "looked"
  /\ now'[c] = clock /\ entry'[c] = e
  /\ \A d \in Check \ {c} :
       phase'[d] = phase[d] /\ now'[d] = now[d] /\ entry'[d] = entry[d]
  /\ tasks' = Append(tasks, c)
  /\ races' = races + Cardinality(Rivals(e))
  /\ UNCHANGED <<backend, clock, port, wait, reply, granted, promise>>
  /\ \A d \in Check \ {c} : heap'[d] = heap[d]
  /\ \/ /\ e = NoEntry /\ ~Live /\ UNCHANGED heap
        /\ stored' = stored \/ stored' = Nothing
     \/ e = stored.entry /\ Live /\ UNCHANGED <<heap, stored>>
     \/ /\ e = c /\ Live /\ UNCHANGED stored
        /\ heap'[c] = heap[stored.entry]

(* ... and stores what becomes of it, b.                                   *)
Stores(c, b, next) ==
  /\ c \in Looked /\ phase'[c] = next /\ next \in {"granting", "denying"}
  /\ entry'[c] = Held(c) /\ heap'[Held(c)] = b
  /\ b.lastRefill = now[c]
  /\ \A d \in Check \ {c} : phase'[d] = phase[d] /\ entry'[d] = entry[d]
  /\ \A d \in Check \ {Held(c)} : heap'[d] = heap[d]
  /\ stored' = [entry |-> Held(c), expiresAt |-> clock + Ttl]
  /\ tasks # <<>> /\ Head(tasks) = c /\ tasks' = Append(Tail(tasks), c)
  /\ UNCHANGED <<backend, clock, port, now, reply, races>>

LEMMA LooksAt ==
  ASSUME TypeOK, NEW c \in Check, FindNone(c) \/ FindObject(c) \/ FindRow(c)
  PROVE  \E e \in Check \cup {NoEntry} : Looks(c, e)
<1>1. ASSUME NEW e, LookUp(c, e)
      PROVE  /\ phase[c] = "idle" /\ phase'[c] = "looked"
             /\ now'[c] = clock /\ entry'[c] = e
             /\ \A d \in Check \ {c} :
                  phase'[d] = phase[d] /\ now'[d] = now[d] /\ entry'[d] = entry[d]
             /\ tasks' = Append(tasks, c)
             /\ races' = races + Cardinality(Rivals(e))
             /\ UNCHANGED <<backend, clock, port, wait, reply, granted, promise>>
  BY <1>1 DEF LookUp, TypeOK
<1>2. CASE FindNone(c)
  <2>1. LookUp(c, NoEntry) /\ ~Live /\ UNCHANGED heap
    BY <1>2 DEF FindNone
  <2>2. stored' = stored \/ stored' = Nothing
    BY <1>2 DEF FindNone
  <2>. QED BY <1>1, <2>1, <2>2 DEF Looks
<1>3. CASE FindObject(c)
  <2>1. LookUp(c, stored.entry) /\ Live /\ UNCHANGED <<heap, stored>>
    BY <1>3 DEF FindObject
  <2>2. stored.entry \in Check \cup {NoEntry}
    BY DEF TypeOK
  <2>. QED BY <1>1, <2>1, <2>2 DEF Looks
<1>4. CASE FindRow(c)
  <2>1. LookUp(c, c) /\ Live /\ UNCHANGED stored
    BY <1>4 DEF FindRow
  <2>2. heap'[c] = heap[stored.entry] /\ \A d \in Check \ {c} : heap'[d] = heap[d]
    BY <1>4 DEF FindRow, TypeOK
  <2>. QED BY <1>1, <2>1, <2>2 DEF Looks
<1>. QED BY <1>2, <1>3, <1>4

LEMMA SpendsAt ==
  ASSUME TypeOK, Times, NEW c \in Looked, NEW b, Spends(c, b)
  PROVE  /\ b \in Bucket /\ b.tokens = Level(c) - Minute /\ b.lastRefill = now[c]
         /\ Level(c) >= Minute /\ Capacity(port[c]) - b.tokens \in Nat
         /\ \E q \in Nat : /\ b.resetAt = now[c] + q
                          /\ Rpm[port[c]] * q >= Capacity(port[c]) - b.tokens
                          /\ Rpm[port[c]] * (q - 1) <= Capacity(port[c]) - b.tokens
<1>1. /\ port[c] \in Listener /\ now[c] \in Nat
      /\ Rpm[port[c]] \in Nat \ {0} /\ Capacity(port[c]) \in Nat
      /\ Level(c) \in Nat /\ Level(c) <= Capacity(port[c])
      /\ Minute \in Nat
  BY FoundAt, LevelAt, RpmTyped, CapacityTyped, BucketAssumption
<1>2. PICK short \in Shorts(c) :
        /\ Units(Level(c), short) >= Minute
        /\ \E q \in Ceilings(Capacity(port[c]) - (Level(c) - Minute), Rpm[port[c]]) :
             b = Spent(Found(c), Level(c), short, now[c], now[c] + q)
  BY DEF Spends
<1>3. PICK q \in Ceilings(Capacity(port[c]) - (Level(c) - Minute), Rpm[port[c]]) :
        b = Spent(Found(c), Level(c), short, now[c], now[c] + q)
  BY <1>2
<1>4. short \in BOOLEAN
  BY ShortAt
<1>5. Level(c) >= Minute /\ (short => Level(c) - Minute > 0)
  BY <1>1, <1>2, <1>4 DEF Units
<1>6. PICK x \in Nat : x = Capacity(port[c]) - (Level(c) - Minute)
  BY <1>1, <1>5
<1>7. q \in Nat /\ Rpm[port[c]] * q >= x /\ Rpm[port[c]] * (q - 1) <= x
  <2>1. q \in Ceilings(x, Rpm[port[c]])
    BY <1>3, <1>6
  <2>. QED BY <1>1, <2>1, CeilingsBounds
<1>8. /\ b = [tokens |-> Level(c) - Minute, short |-> short, lastRefill |-> now[c],
               resetAt |-> now[c] + q]
      /\ Level(c) - Minute \in Nat /\ now[c] + q \in Nat
  BY <1>1, <1>3, <1>5, <1>7 DEF Spent
<1>9. b \in Bucket
  BY <1>1, <1>4, <1>5, <1>8 DEF Bucket
<1>. QED BY <1>1, <1>5, <1>6, <1>7, <1>8, <1>9

LEMMA KeepsAt ==
  ASSUME TypeOK, Times, NEW c \in Looked, NEW b, Keeps(c, b)
  PROVE  /\ b \in Bucket /\ b.tokens = Level(c) /\ b.lastRefill = now[c]
         /\ b.resetAt = Found(c).resetAt /\ Level(c) <= Minute
<1>1. PICK short \in Shorts(c) :
        Units(Level(c), short) < Minute /\ b = Kept(Found(c), Level(c), short, now[c])
  BY DEF Keeps
<1>2. Found(c) \in Bucket /\ Level(c) \in Nat /\ now[c] \in Nat /\ Minute \in Nat
  BY FoundAt, LevelAt, BucketAssumption
<1>3. short \in BOOLEAN /\ (short => Level(c) > 0)
  BY ShortAt
<1>4. Level(c) <= Minute
  BY <1>1, <1>2, <1>3 DEF Units
<1>. QED BY <1>1, <1>2, <1>3, <1>4 DEF Kept, Bucket

(* A bucket that has too little for a check is not a new one, and not full.*)
LEMMA PoorAt ==
  ASSUME TypeOK, Times, NEW c \in Looked, NEW b, Keeps(c, b)
  PROVE  /\ entry[c] # NoEntry
         /\ Level(c) = Found(c).tokens + Rpm[port[c]] * (now[c] - Found(c).lastRefill)
<1>1. PICK short \in Shorts(c) : Units(Level(c), short) < Minute
  BY DEF Keeps
<1>2. CASE short
  BY <1>2, ShortAt
<1>3. CASE ~short
  <2>1. /\ Level(c) < Minute /\ port[c] \in Listener
        /\ Minute \in Nat /\ Level(c) \in Nat
    BY <1>1, <1>3, FoundAt, LevelAt, BucketAssumption DEF Units
  <2>2. Capacity(port[c]) \in Nat /\ Capacity(port[c]) >= Minute
    BY <2>1, CapacityTyped
  <2>3. Level(c) # Capacity(port[c])
    BY <2>1, <2>2
  <2>. QED BY <2>3, LevelAt
<1>. QED BY <1>2, <1>3

LEMMA StoresAt ==
  ASSUME TypeOK, Times, NEW c \in Check, Grant(c) \/ Deny(c)
  PROVE  \/ /\ promise' = 0 /\ UNCHANGED wait
            /\ \E b : Spends(c, b) /\ Stores(c, b, "granting")
            /\ granted' = [granted EXCEPT ![port[c]] = @ + 1]
         \/ /\ UNCHANGED granted
            /\ \E b : Keeps(c, b) /\ Stores(c, b, "denying")
            /\ \E q \in Ceilings(Minute - Level(c), Rpm[port[c]]) \ {0} :
                 /\ wait' = [wait EXCEPT ![c] = q]
                 /\ promise' = IF promise = 0 THEN now[c] + Seconds(q) ELSE promise
<1>1. c \in Looked
  BY DEF Grant, Deny, Looked
<1>2. Held(c) \in Check /\ Found(c) \in Bucket
  BY <1>1, FoundAt
<1>3. ASSUME NEW b, NEW next \in {"granting", "denying"}, b.lastRefill = now[c],
             Turn(c), Store(c, b), phase' = [phase EXCEPT ![c] = next]
      PROVE  Stores(c, b, next)
  BY <1>1, <1>2, <1>3 DEF Stores, Store, Turn, TypeOK
<1>4. CASE Grant(c)
  <2>1. PICK b : Spends(c, b) /\ Store(c, b)
    BY <1>4 DEF Grant, Spends
  <2>2. b.lastRefill = now[c]
    BY <1>1, <2>1, SpendsAt
  <2>3. Stores(c, b, "granting")
    BY <1>3, <1>4, <2>1, <2>2 DEF Grant
  <2>. QED BY <1>4, <2>1, <2>3 DEF Grant
<1>5. CASE Deny(c)
  <2>1. PICK b : Keeps(c, b) /\ Store(c, b)
    BY <1>5 DEF Deny, Keeps
  <2>2. b.lastRefill = now[c]
    BY <1>1, <2>1, KeepsAt
  <2>3. Stores(c, b, "denying")
    BY <1>3, <1>5, <2>1, <2>2 DEF Deny
  <2>. QED BY <1>5, <2>1, <2>3 DEF Deny
<1>. QED BY <1>4, <1>5

(* What a denied check waits for.                                          *)
LEMMA WaitAt ==
  ASSUME TypeOK, Times, NEW c \in Looked, NEW b, Keeps(c, b),
         NEW q \in Ceilings(Minute - Level(c), Rpm[port[c]])
  PROVE  q \in Nat /\ Minute - Level(c) \in Nat
         /\ Rpm[port[c]] * q >= Minute - Level(c)
<1>1. /\ port[c] \in Listener /\ Level(c) \in Nat /\ Minute \in Nat
      /\ Level(c) <= Minute
  BY FoundAt, LevelAt, KeepsAt, BucketAssumption
<1>2. Minute - Level(c) \in Nat /\ Rpm[port[c]] \in Nat \ {0}
  BY <1>1, RpmTyped
<1>. QED BY <1>2, CeilingsBounds

-----------------------------------------------------------------------------
(* The types, for any listeners.                                           *)
LEMMA RivalsFinite ==
  ASSUME Queue, NEW e
  PROVE  /\ Rivals(e) \subseteq Looked
         /\ IsFiniteSet(Rivals(e)) /\ Cardinality(Rivals(e)) \in Nat
<1>1. Rivals(e) \subseteq Looked
  BY DEF Rivals, Looked
<1>2. IsFiniteSet(Rivals(e))
  BY <1>1, FS_Subset DEF Queue
<1>. QED BY <1>1, <1>2, FS_CardinalityType

LEMMA LookTyped ==
  ASSUME TypeOK, Queue, NEW c \in Check, FindNone(c) \/ FindObject(c) \/ FindRow(c)
  PROVE  TypeOK'
<1>1. ASSUME NEW e \in Check \cup {NoEntry}, LookUp(c, e)
      PROVE  /\ phase' \in [Check -> Phase] /\ now' \in [Check -> Nat]
             /\ entry' \in [Check -> Check \cup {NoEntry}] /\ tasks' \in Seq(Check)
             /\ races' \in Nat
             /\ UNCHANGED <<backend, clock, port, wait, reply, granted, promise>>
  <2>1. races' \in Nat
    <3>1. races \in Nat /\ Cardinality(Rivals(e)) \in Nat
      BY RivalsFinite DEF TypeOK
    <3>2. races' = races + Cardinality(Rivals(e))
      BY <1>1 DEF LookUp
    <3>. QED BY <3>1, <3>2
  <2>2. tasks' \in Seq(Check)
    BY <1>1 DEF LookUp, TypeOK
  <2>3. now' \in [Check -> Nat] /\ entry' \in [Check -> Check \cup {NoEntry}]
    BY <1>1 DEF LookUp, TypeOK
  <2>4. phase' \in [Check -> Phase]
    BY <1>1 DEF LookUp, TypeOK, Phase
  <2>. QED BY <1>1, <2>1, <2>2, <2>3, <2>4 DEF LookUp
<1>2. stored' \in [entry : Check \cup {NoEntry}, expiresAt : Nat]
  BY DEF FindNone, FindObject, FindRow, Nothing, TypeOK
<1>3. \/ UNCHANGED heap
      \/ /\ stored.entry \in Check
         /\ heap' = [heap EXCEPT ![c] = heap[stored.entry]]
  BY DEF FindNone, FindObject, FindRow, Live, TypeOK
<1>4. /\ heap' \in [Check -> Bucket]
      /\ \A d \in Check : \E l \in Listener : heap'[d].tokens <= Capacity(l)
  <2>1. CASE UNCHANGED heap
    BY <2>1 DEF TypeOK
  <2>2. CASE stored.entry \in Check /\ heap' = [heap EXCEPT ![c] = heap[stored.entry]]
    <3>1. heap' \in [Check -> Bucket]
      BY <2>2 DEF TypeOK
    <3>2. \A d \in Check : \E x \in Check : heap'[d] = heap[x]
      BY <2>2 DEF TypeOK
    <3>. QED BY <3>1, <3>2 DEF TypeOK
  <2>. QED BY <1>3, <2>1, <2>2
<1>5. \E e \in Check \cup {NoEntry} : LookUp(c, e)
  BY DEF FindNone, FindObject, FindRow, TypeOK
<1>. QED BY <1>1, <1>2, <1>4, <1>5 DEF TypeOK

LEMMA StoreTyped ==
  ASSUME TypeOK, Times, NEW c \in Check, Grant(c) \/ Deny(c)
  PROVE  TypeOK'
<1>1. c \in Looked
  BY DEF Grant, Deny, Looked
<1>2. /\ port[c] \in Listener /\ Held(c) \in Check
      /\ Level(c) \in Nat /\ Level(c) <= Capacity(port[c])
      /\ now[c] \in Nat
  BY <1>1, FoundAt, LevelAt
<1>3. ASSUME NEW b \in Bucket, b.tokens <= Capacity(port[c]), Turn(c), Store(c, b)
      PROVE  /\ heap' \in [Check -> Bucket]
             /\ \A d \in Check : \E l \in Listener : heap'[d].tokens <= Capacity(l)
             /\ entry' \in [Check -> Check \cup {NoEntry}]
             /\ stored' \in [entry : Check \cup {NoEntry}, expiresAt : Nat]
             /\ tasks' \in Seq(Check)
             /\ UNCHANGED <<backend, clock, port, now, reply, races>>
  <2>1. heap' = [heap EXCEPT ![Held(c)] = b]
    BY <1>3 DEF Store
  <2>2. heap' \in [Check -> Bucket]
    BY <1>2, <2>1 DEF TypeOK
  <2>3. ASSUME NEW d \in Check PROVE \E l \in Listener : heap'[d].tokens <= Capacity(l)
    <3>1. CASE d = Held(c)
      BY <1>2, <1>3, <2>1, <3>1 DEF TypeOK
    <3>2. CASE d # Held(c)
      BY <2>1, <3>2 DEF TypeOK
    <3>. QED BY <3>1, <3>2
  <2>4. entry' \in [Check -> Check \cup {NoEntry}]
    BY <1>2, <1>3 DEF Store, TypeOK
  <2>5. stored' \in [entry : Check \cup {NoEntry}, expiresAt : Nat]
    <3>1. clock + Ttl \in Nat
      BY BucketAssumption DEF TypeOK
    <3>. QED BY <1>2, <1>3, <3>1 DEF Store
  <2>6. tasks' \in Seq(Check)
    BY <1>3 DEF Store, Turn, TypeOK
  <2>. QED BY <1>3, <2>2, <2>3, <2>4, <2>5, <2>6 DEF Store
<1>4. CASE Grant(c)
  <2>1. PICK b : Spends(c, b) /\ Store(c, b)
    BY <1>4 DEF Grant, Spends
  <2>2. b \in Bucket /\ b.tokens <= Capacity(port[c]) /\ Turn(c)
    <3>1. b \in Bucket /\ Capacity(port[c]) - b.tokens \in Nat
      BY <1>1, <2>1, SpendsAt
    <3>2. b.tokens \in Nat /\ Capacity(port[c]) \in Nat
      BY <1>2, <3>1, CapacityTyped DEF Bucket
    <3>. QED BY <1>4, <3>1, <3>2 DEF Grant
  <2>3. phase' \in [Check -> Phase] /\ promise' \in Nat /\ wait' \in [Check -> Nat]
    BY <1>4 DEF Grant, TypeOK, Phase
  <2>4. granted' \in [Listener -> Nat]
    <3>0. granted[port[c]] \in Nat
      BY <1>2 DEF TypeOK
    <3>1. granted[port[c]] + 1 \in Nat
      BY <3>0
    <3>2. granted' = [granted EXCEPT ![port[c]] = granted[port[c]] + 1]
      BY <1>4 DEF Grant
    <3>. QED BY <3>1, <3>2 DEF TypeOK
  <2>. QED BY <1>3, <2>1, <2>2, <2>3, <2>4 DEF TypeOK
<1>5. CASE Deny(c)
  <2>1. PICK b : Keeps(c, b) /\ Store(c, b)
    BY <1>5 DEF Deny, Keeps
  <2>2. b \in Bucket /\ b.tokens <= Capacity(port[c]) /\ Turn(c)
    BY <1>1, <1>2, <1>5, <2>1, KeepsAt DEF Deny
  <2>3. phase' \in [Check -> Phase] /\ granted' \in [Listener -> Nat]
    BY <1>5 DEF Deny, TypeOK, Phase
  <2>4. PICK q \in Ceilings(Minute - Level(c), Rpm[port[c]]) :
          /\ wait' = [wait EXCEPT ![c] = q]
          /\ promise' = IF promise = 0 THEN now[c] + Seconds(q) ELSE promise
    BY <1>5 DEF Deny
  <2>5. q \in Nat
    BY <1>1, <2>1, WaitAt
  <2>6. wait' \in [Check -> Nat]
    BY <2>4, <2>5 DEF TypeOK
  <2>7. promise' \in Nat
    <3>1. Seconds(q) \in Nat
      BY <2>5, SecondsBounds
    <3>2. now[c] + Seconds(q) \in Nat
      BY <1>2, <3>1
    <3>. QED BY <2>4, <3>2 DEF TypeOK
  <2>. QED BY <1>3, <2>1, <2>2, <2>3, <2>6, <2>7 DEF TypeOK
<1>. QED BY <1>4, <1>5

LEMMA ReplyTyped ==
  ASSUME TypeOK, Queue, NEW c \in Check, Reply(c)
  PROVE  TypeOK'
<1>1. entry[c] \in Check
  BY DEF Reply, Queue, TypeOK
<1>2. /\ heap[entry[c]].tokens \in Nat /\ heap[entry[c]].resetAt \in Nat
      /\ wait[c] \in Nat /\ heap[entry[c]].short \in BOOLEAN
      /\ heap[entry[c]].short => heap[entry[c]].tokens > 0
  BY <1>1 DEF TypeOK, Bucket
<1>3. Units(heap[entry[c]].tokens, heap[entry[c]].short) \div Minute \in Nat
  <2>1. Units(heap[entry[c]].tokens, heap[entry[c]].short) \in Nat
    BY <1>2 DEF Units
  <2>. QED BY <2>1, BucketAssumption
<1>4. Seconds(heap[entry[c]].resetAt) \in Nat /\ Seconds(wait[c]) \in Nat
  BY <1>2, SecondsBounds
<1>5. \E x \in [remaining : Nat, reset : Nat, retryAfter : Nat] :
        reply' = [reply EXCEPT ![c] = x]
  <2> DEFINE x == [remaining  |-> IF phase[c] = "granting"
                                    THEN Units(heap[entry[c]].tokens, heap[entry[c]].short)
                                           \div Minute
                                    ELSE 0,
                   reset      |-> Seconds(heap[entry[c]].resetAt),
                   retryAfter |-> Seconds(wait[c])]
  <2>1. x \in [remaining : Nat, reset : Nat, retryAfter : Nat]
    BY <1>3, <1>4
  <2>2. reply' = [reply EXCEPT ![c] = x]
    BY DEF Reply
  <2>. QED BY <2>1, <2>2
<1>6. reply' \in [Check -> [remaining : Nat, reset : Nat, retryAfter : Nat]]
  BY <1>5 DEF TypeOK
<1>7. phase' \in [Check -> Phase] /\ tasks' \in Seq(Check)
  BY DEF Reply, Turn, TypeOK, Phase
<1>. QED BY <1>6, <1>7 DEF Reply, TypeOK

-----------------------------------------------------------------------------
(* The order of the checks.                                                *)

(* The check whose turn it is came first.                                  *)
LEMMA TurnIsFirst ==
  ASSUME TypeOK, Queue, NEW c \in Looked, tasks # <<>>, Head(tasks) = c
  PROVE  \A d \in Looked : now[c] <= now[d]
<1> SUFFICES ASSUME NEW d \in Looked PROVE now[c] <= now[d]
  OBVIOUS
<1>1. tasks \in Seq(Check) /\ 1 \in 1 .. Len(tasks) /\ tasks[1] = c
  BY DEF TypeOK
<1>2. PICK j \in 1 .. Len(tasks) : tasks[j] = d
  BY DEF Queue
<1>3. 1 <= j
  BY <1>2
<1>. QED BY <1>1, <1>2, <1>3 DEF Queue

LEMMA LooksBase ==
  ASSUME BaseInv, NEW c \in Check, NEW e \in Check \cup {NoEntry}, Looks(c, e)
  PROVE  Times' /\ Queue' /\ Unmade'
<1>1. /\ TypeOK /\ clock \in Nat /\ tasks \in Seq(Check)
      /\ \A d \in Check : now[d] \in Nat /\ heap[d].lastRefill \in Nat
  BY DEF BaseInv, TypeOK, Bucket
<1>2. Looked' = Looked \cup {c} /\ c \notin Looked
  BY DEF Looks, Looked
<1>3. /\ stored.entry # c /\ NoEntry \notin Check
      /\ \A d \in Looked : entry[d] # c
      /\ e \in {NoEntry, stored.entry, c}
      /\ stored'.entry \in {stored.entry, NoEntry}
      /\ e = NoEntry \/ e = stored.entry => UNCHANGED heap
  BY BucketAssumption DEF BaseInv, Unmade, Looks, Nothing
<1>4. \A d \in Check : heap'[d].lastRefill <= clock
  <2>1. CASE UNCHANGED heap
    BY <2>1 DEF BaseInv, Times
  <2>2. CASE Live /\ heap'[c] = heap[stored.entry]
    <3>1. stored.entry \in Check
      BY <1>1, <2>2 DEF Live, TypeOK
    <3>. QED BY <2>2, <3>1 DEF Looks, BaseInv, Times
  <2>. QED BY <2>1, <2>2 DEF Looks
<1>5. Times'
  <2>1. \A d \in Check : now'[d] <= clock'
    BY <1>1 DEF Looks, BaseInv, Times
  <2>2. ASSUME NEW d \in Looked', entry'[d] # NoEntry
        PROVE  heap'[entry'[d]].lastRefill <= now'[d]
    <3>1. CASE d = c
      <4>1. entry'[c] \in Check /\ now'[c] = clock
        BY <2>2, <3>1 DEF Looks
      <4>. QED BY <1>4, <3>1, <4>1
    <3>2. CASE d # c
      <4>0. d \in Looked /\ d \in Check
        BY <1>2, <2>2, <3>2 DEF Looked
      <4>1. /\ d \in Looked /\ entry'[d] = entry[d] /\ now'[d] = now[d]
            /\ entry[d] \in Check /\ entry[d] # c
        BY <1>1, <1>3, <2>2, <3>2, <4>0 DEF Looks, TypeOK
      <4>2. heap'[entry[d]] = heap[entry[d]]
        BY <4>1 DEF Looks
      <4>. QED BY <2>2, <4>1, <4>2 DEF BaseInv, Times
    <3>. QED BY <3>1, <3>2
  <2>3. UNCHANGED clock
    BY DEF Looks
  <2>. QED BY <1>4, <2>1, <2>2, <2>3 DEF Times
<1>6. Queue'
  <2>1. /\ Len(tasks') = Len(tasks) + 1 /\ Len(tasks) \in Nat
        /\ \A i \in 1 .. Len(tasks) : tasks'[i] = tasks[i]
        /\ tasks'[Len(tasks) + 1] = c
    BY <1>1 DEF Looks
  <2>2. \A d \in Looked' : \E i \in 1 .. Len(tasks') : tasks'[i] = d
    <3>1. ASSUME NEW d \in Looked PROVE \E i \in 1 .. Len(tasks') : tasks'[i] = d
      <4>1. PICK i \in 1 .. Len(tasks) : tasks[i] = d
        BY DEF BaseInv, Queue
      <4>2. i \in 1 .. Len(tasks') /\ tasks'[i] = d
        BY <2>1, <4>1
      <4>. QED BY <4>2
    <3>2. Len(tasks) + 1 \in 1 .. Len(tasks')
      BY <2>1
    <3>. QED BY <1>2, <2>1, <3>1, <3>2
  <2>3. ASSUME NEW i \in 1 .. Len(tasks'), NEW j \in 1 .. Len(tasks'), i <= j,
               tasks'[i] \in Looked', tasks'[j] \in Looked'
        PROVE  now'[tasks'[i]] <= now'[tasks'[j]]
    <3>1. now'[c] = clock /\ \A d \in Check : now'[d] <= clock
      BY <1>5 DEF Times, Looks
    <3>2. CASE tasks'[j] = c
      BY <1>2, <2>3, <3>1, <3>2 DEF Looked
    <3>3. CASE tasks'[j] # c
      <4>1. j \in 1 .. Len(tasks) /\ i \in 1 .. Len(tasks)
        BY <2>1, <2>3, <3>3
      <4>2. tasks'[i] = tasks[i] /\ tasks'[j] = tasks[j]
        BY <2>1, <4>1
      <4>3. tasks[j] \in Looked /\ now'[tasks[j]] = now[tasks[j]]
        BY <1>2, <2>3, <3>3, <4>2 DEF Looks, Looked
      <4>4. tasks[i] # c
        BY <4>1 DEF Looks, BaseInv, Queue
      <4>. QED
        BY <1>2, <2>3, <4>1, <4>2, <4>3, <4>4 DEF BaseInv, Queue, Looks, Looked
    <3>. QED BY <3>2, <3>3
  <2>4. IsFiniteSet(Looked')
    BY <1>2, FS_AddElement DEF BaseInv, Queue
  <2>5. \A i \in 1 .. Len(tasks') : phase'[tasks'[i]] # "idle"
    <3>1. \A i \in 1 .. Len(tasks) : tasks[i] \in Check /\ phase[tasks[i]] # "idle"
      BY <1>1 DEF BaseInv, Queue
    <3>2. \A d \in Check : phase[d] # "idle" => phase'[d] # "idle"
      BY DEF Looks
    <3>3. phase'[c] # "idle"
      BY DEF Looks
    <3>4. \A i \in 1 .. Len(tasks') : i \in 1 .. Len(tasks) \/ i = Len(tasks) + 1
      BY <2>1
    <3>. QED BY <2>1, <3>1, <3>2, <3>3, <3>4
  <2>6. \A d \in Check : phase'[d] \in {"granting", "denying"} => entry'[d] # NoEntry
    BY DEF Looks, BaseInv, Queue
  <2>. QED BY <2>2, <2>3, <2>4, <2>5, <2>6 DEF Queue
<1>7. Unmade'
  <2> SUFFICES ASSUME NEW d \in Check,
                      phase'[d] = "idle" \/ (phase'[d] = "looked" /\ entry'[d] = NoEntry)
               PROVE  stored'.entry # d /\ \A x \in Looked' : entry'[x] # d
    BY DEF Unmade
  <2>1. stored.entry # d /\ \A x \in Looked : entry[x] # d
    BY <1>3 DEF Looks, BaseInv, Unmade
  <2>2. stored'.entry # d
    BY <1>3, <2>1
  <2>3. entry'[c] # d
    BY <1>3, <2>1 DEF Looks
  <2>4. \A x \in Looked : entry'[x] # d
    BY <1>2, <2>1 DEF Looks, Looked
  <2>. QED BY <1>2, <2>2, <2>3, <2>4
<1>. QED BY <1>5, <1>6, <1>7

(* A queue that loses its head, and may get it back at the end.            *)
LEMMA TailAt ==
  ASSUME tasks \in Seq(Check), tasks # <<>>
  PROVE  /\ Tail(tasks) \in Seq(Check)
         /\ Len(tasks) \in Nat /\ Len(tasks) >= 1 /\ Len(Tail(tasks)) = Len(tasks) - 1
         /\ \A i \in 1 .. Len(tasks) - 1 : Tail(tasks)[i] = tasks[i + 1]
         /\ tasks[1] = Head(tasks)
OBVIOUS

(* Moving a check to the end, once it no longer looks, keeps the order.    *)
LEMMA RotateQueue ==
  ASSUME BaseInv, NEW c \in Check, tasks # <<>>, Head(tasks) = c,
         tasks' = Tail(tasks) \/ tasks' = Append(Tail(tasks), c),
         Looked' = Looked \ {c}, UNCHANGED now,
         phase'[c] # "idle", \A d \in Check \ {c} : phase'[d] = phase[d],
         \A d \in Check : phase'[d] \in {"granting", "denying"} => entry'[d] # NoEntry
  PROVE  Queue'
<1>0. tasks \in Seq(Check)
  BY DEF BaseInv, TypeOK
<1>1. /\ Len(tasks) \in Nat /\ Len(tasks) >= 1 /\ tasks[1] = c
      /\ Len(tasks') \in {Len(tasks) - 1, Len(tasks)}
      /\ \A i \in 1 .. Len(tasks) - 1 : tasks'[i] = tasks[i + 1]
      /\ Len(tasks') = Len(tasks) => tasks'[Len(tasks)] = c
  <2>1. /\ Tail(tasks) \in Seq(Check)
        /\ Len(tasks) \in Nat /\ Len(tasks) >= 1 /\ Len(Tail(tasks)) = Len(tasks) - 1
        /\ \A i \in 1 .. Len(tasks) - 1 : Tail(tasks)[i] = tasks[i + 1]
        /\ tasks[1] = Head(tasks)
    BY <1>0, TailAt
  <2>2. CASE tasks' = Tail(tasks)
    <3>1. Len(tasks') = Len(tasks) - 1
      BY <2>1, <2>2
    <3>2. Len(tasks') # Len(tasks)
      <4>1. \A n \in Nat : n - 1 # n
        OBVIOUS
      <4>2. Len(tasks) \in Nat
        BY <2>1
      <4>. QED BY <3>1, <4>1, <4>2, Zenon
    <3>3. \A i \in 1 .. Len(tasks) - 1 : tasks'[i] = tasks[i + 1]
      BY <2>1, <2>2
    <3>. QED BY <2>1, <3>1, <3>2, <3>3
  <2>3. CASE tasks' = Append(Tail(tasks), c)
    <3>1. /\ Len(tasks') = Len(Tail(tasks)) + 1
          /\ \A i \in 1 .. Len(Tail(tasks)) : tasks'[i] = Tail(tasks)[i]
          /\ tasks'[Len(Tail(tasks)) + 1] = c
      BY <2>1, <2>3
    <3>2. Len(Tail(tasks)) + 1 = Len(tasks)
      BY <2>1
    <3>3. Len(tasks') = Len(tasks) /\ tasks'[Len(tasks)] = c
      BY <3>1, <3>2
    <3>4. \A i \in 1 .. Len(tasks) - 1 : tasks'[i] = tasks[i + 1]
      <4>1. \A i \in 1 .. Len(tasks) - 1 : tasks'[i] = Tail(tasks)[i]
        BY <2>1, <3>1
      <4>. QED BY <2>1, <4>1
    <3>. QED BY <2>1, <3>3, <3>4
  <2>. QED BY <2>2, <2>3
<1>2. ASSUME NEW i \in 1 .. Len(tasks')
      PROVE  \/ i + 1 \in 1 .. Len(tasks) /\ tasks'[i] = tasks[i + 1]
             \/ tasks'[i] = c
  BY <1>1
<1>3. ASSUME NEW d \in Looked' PROVE \E i \in 1 .. Len(tasks') : tasks'[i] = d
  <2>1. PICK i \in 1 .. Len(tasks) : tasks[i] = d
    BY <1>3 DEF BaseInv, Queue
  <2>2. i # 1
    BY <1>1, <1>3, <2>1
  <2>3. i - 1 \in 1 .. Len(tasks') /\ i - 1 \in 1 .. Len(tasks) - 1
    BY <1>1, <2>1, <2>2
  <2>4. tasks'[i - 1] = tasks[(i - 1) + 1] /\ (i - 1) + 1 = i
    BY <1>1, <2>3
  <2>. QED BY <2>1, <2>3, <2>4
<1>4. ASSUME NEW i \in 1 .. Len(tasks'), NEW j \in 1 .. Len(tasks'), i <= j,
             tasks'[i] \in Looked', tasks'[j] \in Looked'
      PROVE  now'[tasks'[i]] <= now'[tasks'[j]]
  <2>1. /\ i + 1 \in 1 .. Len(tasks) /\ tasks'[i] = tasks[i + 1]
        /\ j + 1 \in 1 .. Len(tasks) /\ tasks'[j] = tasks[j + 1]
    BY <1>2, <1>4
  <2>2. i + 1 <= j + 1
    BY <1>4
  <2>3. tasks[i + 1] \in Looked /\ tasks[j + 1] \in Looked
    BY <1>4, <2>1
  <2>4. now[tasks[i + 1]] <= now[tasks[j + 1]]
    BY <2>1, <2>2, <2>3 DEF BaseInv, Queue
  <2>. QED BY <2>1, <2>4
<1>5. ASSUME NEW i \in 1 .. Len(tasks') PROVE phase'[tasks'[i]] # "idle"
  <2>1. CASE tasks'[i] = c
    BY <2>1
  <2>2. CASE i + 1 \in 1 .. Len(tasks) /\ tasks'[i] = tasks[i + 1]
    <3>1. tasks[i + 1] \in Check /\ phase[tasks[i + 1]] # "idle"
      BY <1>0, <2>2 DEF BaseInv, Queue
    <3>. QED BY <2>2, <3>1
  <2>. QED BY <1>2, <2>1, <2>2
<1>6. IsFiniteSet(Looked')
  BY FS_Subset DEF BaseInv, Queue
<1>. QED BY <1>3, <1>4, <1>5, <1>6 DEF Queue

LEMMA StoresBase ==
  ASSUME BaseInv, NEW c \in Check, NEW b, NEW next, Stores(c, b, next)
  PROVE  Times' /\ Queue' /\ Unmade'
<1>1. /\ TypeOK /\ Times /\ Queue /\ Unmade
      /\ c \in Looked /\ Held(c) \in Check /\ now[c] \in Nat
  BY FoundAt DEF BaseInv, Stores
<1>2. Looked' = Looked \ {c}
  BY DEF Stores, Looked
<1>3. \A d \in Looked : now[c] <= now[d]
  BY <1>1, TurnIsFirst DEF Stores
<1>4. Times'
  <2>1. \A d \in Check : now'[d] <= clock' /\ heap'[d].lastRefill <= clock'
    BY <1>1 DEF Stores, Times
  <2>2. ASSUME NEW d \in Looked', entry'[d] # NoEntry
        PROVE  heap'[entry'[d]].lastRefill <= now'[d]
    <3>1. d \in Looked /\ d \in Check /\ entry'[d] = entry[d] /\ entry[d] \in Check
      BY <1>1, <1>2, <2>2 DEF Stores, Looked, TypeOK
    <3>2. CASE entry[d] = Held(c)
      BY <1>3, <3>1, <3>2 DEF Stores
    <3>3. CASE entry[d] # Held(c)
      BY <1>1, <2>2, <3>1, <3>3 DEF Stores, Times
    <3>. QED BY <3>2, <3>3
  <2>. QED BY <2>1, <2>2 DEF Times
<1>5. Queue'
  <2>1. \A d \in Check : phase'[d] \in {"granting", "denying"} => entry'[d] # NoEntry
    <3>1. entry'[c] # NoEntry
      BY <1>1, BucketAssumption DEF Stores
    <3>. QED BY <1>1, <3>1 DEF Stores, Queue
  <2>2. /\ tasks # <<>> /\ Head(tasks) = c /\ tasks' = Append(Tail(tasks), c)
        /\ UNCHANGED now /\ phase'[c] # "idle"
        /\ \A d \in Check \ {c} : phase'[d] = phase[d]
    BY DEF Stores
  <2>. QED BY <1>2, <2>1, <2>2, RotateQueue
<1>6. Unmade'
  <2> SUFFICES ASSUME NEW d \in Check,
                      phase'[d] = "idle" \/ (phase'[d] = "looked" /\ entry'[d] = NoEntry)
               PROVE  stored'.entry # d /\ \A x \in Looked' : entry'[x] # d
    BY DEF Unmade
  <2>1. d # c
    BY DEF Stores
  <2>2. stored.entry # d /\ \A x \in Looked : entry[x] # d
    BY <1>1, <2>1 DEF Stores, Unmade
  <2>3. stored'.entry # d
    BY <1>1, <2>1, <2>2 DEF Stores, Held
  <2>4. \A x \in Looked' : entry'[x] = entry[x]
    BY <1>2 DEF Stores, Looked
  <2>. QED BY <1>2, <2>2, <2>3, <2>4
<1>. QED BY <1>4, <1>5, <1>6

LEMMA ReplyBase ==
  ASSUME BaseInv, NEW c \in Check, Reply(c)
  PROVE  Times' /\ Queue' /\ Unmade'
<1>1. /\ phase[c] \in {"granting", "denying"} /\ phase'[c] \in {"allowed", "denied"}
      /\ \A d \in Check \ {c} : phase'[d] = phase[d]
      /\ tasks # <<>> /\ Head(tasks) = c /\ tasks' = Tail(tasks)
      /\ UNCHANGED <<clock, now, entry, heap, stored>>
  BY DEF Reply, Turn, BaseInv, TypeOK
<1>2. Looked' = Looked /\ c \notin Looked
  BY <1>1 DEF Looked
<1>3. Looked' = Looked \ {c}
  BY <1>2
<1>4. Times'
  BY <1>1, <1>2 DEF BaseInv, Times
<1>5. \A d \in Check : phase'[d] \in {"granting", "denying"} => entry'[d] # NoEntry
  BY <1>1 DEF BaseInv, Queue
<1>6. Queue'
  BY <1>1, <1>3, <1>5, RotateQueue
<1>7. Unmade'
  BY <1>1, <1>2 DEF BaseInv, Unmade
<1>. QED BY <1>4, <1>6, <1>7

LEMMA BaseInit == Init => BaseInv
<1> SUFFICES ASSUME Init PROVE BaseInv
  OBVIOUS
<1>1. Looked = {}
  BY DEF Init, Looked
<1>2. TypeOK
  <2>1. 0 \in Nat
    OBVIOUS
  <2>2. ASSUME NEW c \in Check PROVE \E l \in Listener : heap[c].tokens <= Capacity(l)
    <3>1. port[c] \in Listener /\ heap[c].tokens = 0
      BY DEF Init
    <3>. QED BY <3>1, CapacityTyped
  <2>. QED BY <2>1, <2>2 DEF Init, TypeOK, Bucket, Phase, Nothing
<1>3. Times
  BY <1>1 DEF Init, Times
<1>4. Queue
  BY <1>1, FS_EmptySet DEF Init, Queue
<1>5. Unmade
  BY <1>1, BucketAssumption DEF Init, Unmade, Nothing
<1>. QED BY <1>2, <1>3, <1>4, <1>5 DEF BaseInv

LEMMA ClockBase ==
  ASSUME BaseInv, Tick \/ Cleanup \/ UNCHANGED vars
  PROVE  BaseInv'
<1>1. UNCHANGED <<tasks, phase, port, now, entry, heap>>
  BY DEF Tick, Cleanup, vars
<1>2. clock \in Nat /\ clock' \in {clock, clock + 1}
  BY DEF Tick, Cleanup, vars, BaseInv, TypeOK
<1>3. stored' \in {stored, Nothing}
  BY DEF Tick, Cleanup, vars
<1>4. TypeOK'
  <2>1. clock' \in Nat
    BY <1>2
  <2>2. stored' \in [entry : Check \cup {NoEntry}, expiresAt : Nat]
    BY <1>3 DEF BaseInv, TypeOK, Nothing
  <2>3. UNCHANGED <<backend, wait, reply, granted, races, promise>>
    BY DEF Tick, Cleanup, vars
  <2>. QED BY <1>1, <2>1, <2>2, <2>3 DEF BaseInv, TypeOK
<1>5. Looked' = Looked
  BY <1>1 DEF Looked
<1>6. Times'
  <2>1. \A c \in Check : now[c] \in Nat /\ heap[c].lastRefill \in Nat
    BY DEF BaseInv, TypeOK, Bucket
  <2>. QED BY <1>1, <1>2, <1>5, <2>1 DEF BaseInv, Times
<1>7. Queue'
  BY <1>1, <1>5 DEF BaseInv, Queue
<1>8. Unmade'
  BY <1>1, <1>3, <1>5, BucketAssumption DEF BaseInv, Unmade, Nothing
<1>. QED BY <1>4, <1>6, <1>7, <1>8 DEF BaseInv

LEMMA BaseStep == BaseInv /\ [Next]_vars => BaseInv'
<1> SUFFICES ASSUME BaseInv, [Next]_vars PROVE BaseInv'
  OBVIOUS
<1>1. TypeOK /\ Times /\ Queue
  BY DEF BaseInv
<1>2. ASSUME NEW c \in Check, FindNone(c) \/ FindObject(c) \/ FindRow(c)
      PROVE  BaseInv'
  BY <1>1, <1>2, LookTyped, LooksAt, LooksBase DEF BaseInv
<1>3. ASSUME NEW c \in Check, Grant(c) \/ Deny(c) PROVE BaseInv'
  <2>1. \E b, next : Stores(c, b, next)
    BY <1>1, <1>3, StoresAt
  <2>. QED BY <1>1, <1>3, <2>1, StoreTyped, StoresBase DEF BaseInv
<1>4. ASSUME NEW c \in Check, Reply(c) PROVE BaseInv'
  BY <1>1, <1>4, ReplyTyped, ReplyBase DEF BaseInv
<1>. QED BY <1>2, <1>3, <1>4, ClockBase DEF Next

(* Every variable of the limiter keeps its type: a bucket never holds less *)
(* than nothing nor more than a listener's capacity, and no wait and no    *)
(* header is negative, since no bucket is ahead of the check that reads it.*)
(* Code: check() in src/src/rate-limit/token-bucket.ts.                    *)
THEOREM BucketTyped == Spec => []TypeOK
<1>1. BaseInv => TypeOK
  BY DEF BaseInv
<1>. QED BY <1>1, BaseInit, BaseStep, PTL DEF Spec

-----------------------------------------------------------------------------
(* One listener with a store of its own.                                   *)
LEMMA OneListener ==
  ASSUME TypeOK, NEW l, Listener = {l}
  PROVE  /\ l \in Listener /\ \A c \in Check : port[c] = l
         /\ Rpm[l] \in Nat \ {0} /\ Minute \in Nat \ {0}
         /\ Capacity(l) \in Nat /\ Capacity(l) = Rpm[l] * Minute
         /\ granted[l] \in Nat /\ races \in Nat /\ clock \in Nat
<1>1. l \in Listener /\ \A c \in Check : port[c] = l
  BY DEF TypeOK
<1>2. granted[l] \in Nat /\ races \in Nat /\ clock \in Nat
  BY <1>1 DEF TypeOK
<1>. QED BY <1>1, <1>2, RpmTyped, CapacityTyped, BucketAssumption DEF Capacity

LEMMA StockAt ==
  ASSUME TypeOK, Times, NEW l \in Listener
  PROVE  /\ Stock(l) \in Nat /\ Stock(l) <= Capacity(l)
         /\ stored.entry # NoEntry =>
              /\ stored.entry \in Check /\ heap[stored.entry] \in Bucket
              /\ heap[stored.entry].lastRefill <= clock
<1>1. CASE stored.entry = NoEntry
  BY <1>1, CapacityTyped DEF Stock
<1>2. CASE stored.entry # NoEntry
  <2>1. /\ stored.entry \in Check /\ heap[stored.entry] \in Bucket /\ clock \in Nat
        /\ heap[stored.entry].lastRefill <= clock
    BY <1>2 DEF TypeOK, Times
  <2>. QED BY <1>2, <2>1, RefilledAt DEF Stock
<1>. QED BY <1>1, <1>2

(* A bucket refilled for long enough is full: after a minute, ...          *)
LEMMA FullAfterMinute ==
  ASSUME NEW l \in Listener, NEW b \in Bucket, NEW t \in Nat,
         b.lastRefill + Minute <= t
  PROVE  Refilled(l, b, t) = Capacity(l)
<1>1. /\ Rpm[l] \in Nat /\ Minute \in Nat /\ Capacity(l) \in Nat
      /\ b.tokens \in Nat /\ b.lastRefill \in Nat
  BY RpmTyped, CapacityTyped, BucketAssumption DEF Bucket
<1>2. Rpm[l] * Minute <= Rpm[l] * (t - b.lastRefill)
  BY <1>1, TimesMore
<1>3. Capacity(l) <= b.tokens + Rpm[l] * (t - b.lastRefill)
  BY <1>1, <1>2 DEF Capacity
<1>4. b.tokens + Rpm[l] * (t - b.lastRefill) \in Int
  BY <1>1
<1>. QED BY <1>1, <1>3, <1>4 DEF Refilled, Min2

(* ... and at its reset time.                                              *)
LEMMA FullAtReset ==
  ASSUME NEW l \in Listener, NEW b \in Bucket, NEW t \in Nat,
         ResetRight(l, b), b.resetAt <= t
  PROVE  Refilled(l, b, t) = Capacity(l)
<1>1. /\ Rpm[l] \in Nat /\ Capacity(l) \in Nat
      /\ b.tokens \in Nat /\ b.lastRefill \in Nat /\ b.resetAt \in Nat
  BY RpmTyped, CapacityTyped DEF Bucket
<1>2. Rpm[l] * (b.resetAt - b.lastRefill) <= Rpm[l] * (t - b.lastRefill)
  BY <1>1, TimesMore
<1>3. Capacity(l) <= b.tokens + Rpm[l] * (t - b.lastRefill)
  BY <1>1, <1>2 DEF ResetRight
<1>4. b.tokens + Rpm[l] * (t - b.lastRefill) \in Int
  BY <1>1
<1>. QED BY <1>1, <1>3, <1>4 DEF Refilled, Min2

(* A tick brings at most Rpm units.                                        *)
LEMMA RefilledNext ==
  ASSUME NEW l \in Listener, NEW b \in Bucket, NEW t \in Nat, b.lastRefill <= t
  PROVE  Refilled(l, b, t + 1) <= Refilled(l, b, t) + Rpm[l]
<1>1. /\ Rpm[l] \in Nat /\ Capacity(l) \in Nat
      /\ b.tokens \in Nat /\ b.lastRefill \in Nat
  BY RpmTyped, CapacityTyped DEF Bucket
<1>2. Rpm[l] * ((t + 1) - b.lastRefill) = Rpm[l] * (t - b.lastRefill) + Rpm[l]
  <2>1. (t + 1) - b.lastRefill = (t - b.lastRefill) + 1 /\ t - b.lastRefill \in Int
    BY <1>1
  <2>2. Rpm[l] * ((t - b.lastRefill) + 1) = Rpm[l] * (t - b.lastRefill) + Rpm[l] * 1
    BY <1>1, <2>1, TimesSum
  <2>. QED BY <1>1, <2>1, <2>2
<1>3. PICK x \in Int : x = Rpm[l] * (t - b.lastRefill)
  BY <1>1
<1>. QED BY <1>1, <1>2, <1>3 DEF Refilled, Min2

(* A bucket that the store no longer hands out was full anyway.            *)
LEMMA ExpiredWasFull ==
  ASSUME TypeOK, Times, Outlives, NEW l \in Listener, ~Live
  PROVE  Stock(l) = Capacity(l)
<1>1. CASE stored.entry = NoEntry
  BY <1>1 DEF Stock
<1>2. CASE stored.entry # NoEntry
  <2>1. heap[stored.entry] \in Bucket
    BY <1>2, StockAt
  <2>2. stored.expiresAt \in Nat /\ clock \in Nat /\ stored.expiresAt <= clock
    BY <1>2 DEF Live, Expired, TypeOK
  <2>3. stored.expiresAt >= heap[stored.entry].lastRefill + Ttl
    BY <1>2 DEF Outlives
  <2>4. heap[stored.entry].lastRefill + Minute <= clock
    BY <2>1, <2>2, <2>3, BucketAssumption DEF Bucket
  <2>. QED BY <1>2, <2>1, <2>2, <2>4, FullAfterMinute DEF Stock
<1>. QED BY <1>1, <1>2

(* Others are finitely many.                                               *)
LEMMA OthersFinite ==
  ASSUME Queue, NEW c
  PROVE  IsFiniteSet(Others(c)) /\ Cardinality(Others(c)) \in Nat
<1>1. Others(c) \subseteq Rivals(entry[c]) /\ IsFiniteSet(Rivals(entry[c]))
  BY RivalsFinite DEF Others
<1>. QED BY <1>1, FS_Subset, FS_CardinalityType

-----------------------------------------------------------------------------
(* A lookup spends nothing; it counts the copies it makes one too many.    *)

(* Every bucket in use is one that was, or a copy of it.                   *)
LEMMA LooksUsed ==
  ASSUME BaseInv, NEW c \in Check, NEW e \in Check \cup {NoEntry}, Looks(c, e)
  PROVE  /\ \A x \in Used' : \E y \in Used : heap'[x] = heap[y]
         /\ \A d \in Check \ {c} : heap'[d] = heap[d]
         /\ Looked' = Looked \cup {c} /\ c \notin Looked
         /\ \A d \in Looked : entry[d] # c
         /\ stored.entry # c /\ stored'.entry \in {stored.entry, NoEntry}
<1>1. Looked' = Looked \cup {c} /\ c \notin Looked
  BY DEF Looks, Looked
<1>2. /\ stored.entry # c /\ \A d \in Looked : entry[d] # c
      /\ stored'.entry \in {stored.entry, NoEntry}
      /\ NoEntry \notin Check
  BY BucketAssumption DEF BaseInv, Unmade, Looks, Nothing
<1>3. \A d \in Check \ {c} : heap'[d] = heap[d]
  BY DEF Looks
<1>4. ASSUME NEW x \in Used' PROVE \E y \in Used : heap'[x] = heap[y]
  <2>1. x \in Check /\ (stored'.entry = x \/ \E d \in Looked' : entry'[d] = x)
    BY <1>4 DEF Used
  <2>2. CASE x \in Used
    <3>1. x # c
      BY <1>2, <2>2 DEF Used
    <3>. QED BY <1>3, <2>1, <2>2, <3>1
  <2>3. CASE x \notin Used
    <3>1. stored'.entry # x
      BY <1>2, <2>1, <2>3 DEF Used
    <3>2. ASSUME NEW d \in Looked PROVE entry'[d] # x
      BY <1>1, <2>1, <2>3, <3>2 DEF Looks, Looked, Used
    <3>3. e = x
      BY <1>1, <2>1, <3>1, <3>2 DEF Looks
    <3>4. e # stored.entry
      BY <2>1, <2>3, <3>3 DEF Used
    <3>5. e = c /\ Live /\ heap'[c] = heap[stored.entry]
      BY <1>2, <2>1, <3>3, <3>4 DEF Looks
    <3>6. stored.entry \in Used
      BY <3>5 DEF Used, Live, BaseInv, TypeOK
    <3>. QED BY <3>3, <3>5, <3>6
  <2>. QED BY <2>2, <2>3
<1>. QED BY <1>1, <1>2, <1>3, <1>4

(* What the store holds does not change, and the check finds just that.    *)
LEMMA LooksLevels ==
  ASSUME BaseInv, NEW l, Listener = {l}, Outlives,
         NEW c \in Check, NEW e \in Check \cup {NoEntry}, Looks(c, e)
  PROVE  /\ Stock(l)' = Stock(l) /\ Level(c)' = Stock(l)
         /\ \A d \in Looked : Level(d)' = Level(d)
<1>1. /\ TypeOK /\ Times /\ l \in Listener /\ \A d \in Check : port[d] = l
      /\ clock \in Nat /\ Rpm[l] \in Nat /\ Capacity(l) \in Nat
  BY OneListener DEF BaseInv
<1>2. /\ \A d \in Check \ {c} : heap'[d] = heap[d]
      /\ \A d \in Looked : entry[d] # c
      /\ stored.entry # c /\ c \notin Looked
  BY LooksUsed
<1>3. ~Live => Stock(l) = Capacity(l)
  BY <1>1, ExpiredWasFull
<1>4. stored' = stored => Stock(l)' = Stock(l)
  <2> SUFFICES ASSUME stored' = stored PROVE Stock(l)' = Stock(l)
    OBVIOUS
  <2>1. stored.entry \in Check \cup {NoEntry} /\ UNCHANGED clock
    BY <1>1 DEF TypeOK, Looks
  <2>2. stored.entry # NoEntry => heap'[stored.entry] = heap[stored.entry]
    BY <1>2, <2>1
  <2>. QED BY <2>1, <2>2 DEF Stock
<1>5. Stock(l)' = Stock(l)
  <2>1. CASE stored' = stored
    BY <1>4, <2>1
  <2>2. CASE ~Live /\ stored' = Nothing
    BY <1>3, <2>2 DEF Stock, Nothing
  <2>. QED BY <2>1, <2>2 DEF Looks
<1>6. Level(c)' = Stock(l)
  <2>1. port'[c] = l /\ now'[c] = clock /\ entry'[c] = e
    BY <1>1 DEF Looks
  <2>2. CASE e = NoEntry /\ ~Live
    <3>1. Found(c)' = FullBucket(l, clock)
      BY <2>1, <2>2 DEF Found
    <3>2. Level(c)' = Refilled(l, FullBucket(l, clock), clock)
      BY <2>1, <3>1 DEF Level
    <3>3. Rpm[l] * (clock - clock) = 0
      BY <1>1
    <3>4. Level(c)' = Capacity(l)
      BY <1>1, <3>2, <3>3 DEF Refilled, FullBucket, Min2
    <3>. QED BY <1>3, <2>2, <3>4
  <2>3. CASE Live /\ heap'[e] = heap[stored.entry] /\ e # NoEntry
    <3>1. Found(c)' = heap[stored.entry]
      BY <2>1, <2>3 DEF Found
    <3>2. Level(c)' = Refilled(l, heap[stored.entry], clock)
      BY <2>1, <3>1 DEF Level
    <3>. QED BY <2>3, <3>2 DEF Stock, Live
  <2>. QED BY <2>2, <2>3, BucketAssumption DEF Looks, Live
<1>7. ASSUME NEW d \in Looked PROVE Level(d)' = Level(d)
  <2>1. d # c /\ d \in Check /\ entry[d] \in Check \cup {NoEntry}
    BY <1>1, <1>2 DEF Looked, TypeOK
  <2>2. entry'[d] = entry[d] /\ now'[d] = now[d] /\ port'[d] = port[d]
    BY <2>1 DEF Looks
  <2>3. entry[d] # NoEntry => heap'[entry[d]] = heap[entry[d]]
    BY <1>2, <2>1
  <2>4. Found(d)' = Found(d)
    BY <2>2, <2>3 DEF Found
  <2>. QED BY <2>2, <2>4 DEF Level
<1>. QED BY <1>5, <1>6, <1>7

(* The newcomer's copy is one more for each check that holds another, and  *)
(* that is what the race counter grew by.                                  *)
LEMMA LooksOthers ==
  ASSUME BaseInv, NEW c \in Check, NEW e \in Check \cup {NoEntry}, Looks(c, e)
  PROVE  /\ Cardinality(Rivals(e)) \in Nat
         /\ Others(c)' = Rivals(e)
         /\ \A d \in Looked :
              Cardinality(Others(d)') <= Cardinality(Others(d)) + Cardinality(Rivals(e))
<1>1. Looked' = Looked \cup {c} /\ c \notin Looked
  BY LooksUsed
<1>2. IsFiniteSet(Rivals(e)) /\ Cardinality(Rivals(e)) \in Nat
  BY RivalsFinite DEF BaseInv
<1>3. Others(c)' = Rivals(e)
  BY DEF Others, Rivals, Looks
<1>4. ASSUME NEW d \in Looked
      PROVE  Cardinality(Others(d)') <= Cardinality(Others(d)) + Cardinality(Rivals(e))
  <2>1. d # c /\ d \in Check /\ phase[d] = "looked" /\ entry'[d] = entry[d]
    BY <1>1 DEF Looked, Looks
  <2>2. IsFiniteSet(Others(d)) /\ Cardinality(Others(d)) \in Nat
    BY OthersFinite DEF BaseInv
  <2>3. Others(d)' \subseteq Others(d) \cup {c} /\ Others(d) \subseteq Others(d)'
    BY <2>1 DEF Others, Rivals, Looks
  <2>4. CASE c \notin Others(d)'
    <3>1. Others(d)' = Others(d)
      BY <2>3, <2>4
    <3>. QED BY <1>2, <2>2, <3>1
  <2>5. CASE c \in Others(d)'
    <3>1. Others(d)' = Others(d) \cup {c} /\ c \notin Others(d)
      BY <2>1, <2>3, <2>5 DEF Others, Rivals, Looks
    <3>2. Cardinality(Others(d)') = Cardinality(Others(d)) + 1
      BY <2>2, <3>1, FS_AddElement
    <3>3. d \in Rivals(e)
      BY <2>1, <2>5 DEF Others, Rivals, Looks
    <3>4. Cardinality(Rivals(e)) # 0
      BY <1>2, <3>3, FS_EmptySet
    <3>. QED BY <1>2, <2>2, <3>2, <3>4
  <2>. QED BY <2>4, <2>5
<1>. QED BY <1>2, <1>3, <1>4

LEMMA LooksBucket ==
  ASSUME BaseInv, NEW l, Listener = {l}, BucketInv(l),
         NEW c \in Check, NEW e \in Check \cup {NoEntry}, Looks(c, e)
  PROVE  BucketInv(l)'
<1>1. /\ TypeOK /\ Times /\ Outlives
      /\ Rpm[l] \in Nat /\ Minute \in Nat /\ Capacity(l) \in Nat
      /\ granted[l] \in Nat /\ races \in Nat /\ clock \in Nat
  BY OneListener DEF BaseInv, BucketInv
<1>2. /\ \A x \in Used' : \E y \in Used : heap'[x] = heap[y]
      /\ \A d \in Check \ {c} : heap'[d] = heap[d]
      /\ Looked' = Looked \cup {c} /\ c \notin Looked
      /\ \A d \in Looked : entry[d] # c
      /\ stored.entry # c /\ stored'.entry \in {stored.entry, NoEntry}
  BY LooksUsed
<1>3. \A x \in Used' : ResetRight(l, heap'[x])
  BY <1>2 DEF BucketInv
<1>4. Outlives'
  <2>1. CASE stored' = stored
    <3>1. stored.entry \in Check \cup {NoEntry}
      BY <1>1 DEF TypeOK
    <3>. QED BY <1>1, <1>2, <2>1, <3>1 DEF Outlives
  <2>2. CASE stored' = Nothing
    BY <2>2 DEF Outlives, Nothing
  <2>. QED BY <2>1, <2>2 DEF Looks
<1>5. Paid(l)'
  <2>1. /\ Stock(l)' = Stock(l) /\ Level(c)' = Stock(l)
        /\ \A d \in Looked : Level(d)' = Level(d)
    BY <1>1, LooksLevels
  <2>2. /\ Cardinality(Rivals(e)) \in Nat
        /\ Others(c)' = Rivals(e)
        /\ \A d \in Looked :
             Cardinality(Others(d)') <= Cardinality(Others(d)) + Cardinality(Rivals(e))
    BY LooksOthers
  <2>3. PICK n \in Nat : n = Cardinality(Rivals(e))
    BY <2>2
  <2>4. /\ races' = races + n /\ clock' = clock /\ granted' = granted
        /\ now'[c] = clock
    BY <2>3 DEF Looks
  <2>5. n * Minute \in Nat /\ (races + n) * Minute = races * Minute + n * Minute
    <3>1. Minute * (races + n) = Minute * races + Minute * n
      BY <1>1, TimesSum
    <3>. QED BY <1>1, <3>1
  <2>6. PICK s \in Nat : s = Stock(l)
    BY <1>1, OneListener, StockAt
  <2>7. PICK g \in Nat, p \in Int, k \in Int, r \in Int :
          /\ g = granted[l] * Minute /\ p = races * Minute
          /\ k = n * Minute /\ r = Rpm[l] * clock
    BY <1>1, <2>5
  <2>8. g + s <= Capacity(l) + r + p
    BY <2>6, <2>7 DEF BucketInv, Paid
  <2>9. (races + n) * Minute = p + k /\ k >= 0
    BY <2>5, <2>7
  <2>10. granted'[l] * Minute + Stock(l)'
           <= Capacity(l) + Rpm[l] * clock' + races' * Minute
    <3>1. g + s <= Capacity(l) + r + (p + k)
      BY <1>1, <2>8, <2>9
    <3>. QED BY <2>1, <2>4, <2>6, <2>7, <2>9, <3>1
  <2>11. ASSUME NEW d \in Looked'
         PROVE  granted'[l] * Minute + Level(d)' + Cardinality(Others(d)') * Minute
                  <= Capacity(l) + Rpm[l] * now'[d] + races' * Minute
    <3>1. CASE d = c
      <4>1. g + s + k <= Capacity(l) + r + (p + k)
        BY <1>1, <2>8
      <4>2. Level(d)' = s /\ Others(d)' = Rivals(e) /\ now'[d] = clock
        BY <2>1, <2>2, <2>4, <2>6, <3>1
      <4>. QED BY <2>3, <2>4, <2>7, <2>9, <4>1, <4>2
    <3>2. CASE d # c
      <4>1. d \in Looked /\ d \in Check
        BY <1>2, <2>11, <3>2 DEF Looked
      <4>2. /\ now'[d] = now[d] /\ Level(d)' = Level(d)
            /\ now[d] \in Nat /\ Level(d) \in Nat
        BY <1>1, <2>1, <3>2, <4>1, LevelAt DEF Looks, TypeOK
      <4>3. PICK o \in Nat : o = Cardinality(Others(d))
        BY <4>1, OthersFinite DEF BaseInv
      <4>4. PICK q \in Nat : q = Cardinality(Others(d)') /\ q <= o + n
        <5>1. Queue'
          BY LooksBase
        <5>2. Others(d)' \subseteq Looked' /\ IsFiniteSet(Looked')
          BY <5>1 DEF Others, Rivals, Looked, Queue
        <5>3. Cardinality(Others(d)') \in Nat
          BY <5>2, FS_Subset, FS_CardinalityType
        <5>. QED BY <2>2, <2>3, <4>1, <4>3, <5>3
      <4>5. g + Level(d) + o * Minute <= Capacity(l) + Rpm[l] * now[d] + p
        BY <2>7, <4>1, <4>3 DEF BucketInv, Paid
      <4>6. q * Minute <= o * Minute + k
        <5>1. Minute * q <= Minute * (o + n)
          BY <1>1, <4>4, TimesMore
        <5>2. Minute * (o + n) = Minute * o + Minute * n
          BY <1>1, TimesSum
        <5>. QED BY <1>1, <2>7, <5>1, <5>2
      <4>7. PICK x \in Int, y \in Int, z \in Int :
              x = Rpm[l] * now[d] /\ y = o * Minute /\ z = q * Minute
        BY <1>1, <4>2
      <4>8. g + Level(d) + z <= Capacity(l) + x + (p + k)
        BY <1>1, <4>2, <4>5, <4>6, <4>7
      <4>. QED BY <2>4, <2>7, <2>9, <4>2, <4>4, <4>7, <4>8
    <3>. QED BY <3>1, <3>2
  <2>. QED BY <2>10, <2>11 DEF Paid
<1>6. Promised(l)'
  <2> SUFFICES ASSUME races' = 0
               PROVE  /\ \A d, x \in Looked' : d # x => entry'[d] = entry'[x] /\ entry'[d] # NoEntry
                      /\ promise' # 0 => \A x \in Used' :
                           heap'[x].tokens + Rpm[l] * (promise' - heap'[x].lastRefill) >= Minute
    BY DEF Promised
  <2>1. races = 0 /\ Cardinality(Rivals(e)) = 0 /\ promise' = promise
    BY <1>1, LooksOthers DEF Looks
  <2>2. Rivals(e) = {}
    BY <2>1, RivalsFinite, FS_EmptySet DEF BaseInv
  <2>3. \A d \in Looked : entry'[d] = e /\ e # NoEntry
    BY <1>2, <2>2 DEF Rivals, Looks, Looked
  <2>4. entry'[c] = e
    BY DEF Looks
  <2>5. \A d, x \in Looked' : d # x => entry'[d] = entry'[x] /\ entry'[d] # NoEntry
    BY <1>2, <2>3, <2>4
  <2>6. ASSUME promise' # 0, NEW x \in Used'
        PROVE  heap'[x].tokens + Rpm[l] * (promise' - heap'[x].lastRefill) >= Minute
    <3>1. PICK y \in Used : heap'[x] = heap[y]
      BY <1>2, <2>6
    <3>. QED BY <2>1, <2>6, <3>1 DEF BucketInv, Promised
  <2>. QED BY <2>5, <2>6
<1>. QED BY <1>3, <1>4, <1>5, <1>6 DEF BucketInv

-----------------------------------------------------------------------------
(* A check that stores what it worked out.                                 *)

(* The bucket of a check that may not pass is refilled to the exact unit.  *)
LEMMA DeniedUncapped ==
  ASSUME BaseInv, NEW l, Listener = {l}, NEW c \in Looked, NEW b, Keeps(c, b)
  PROVE  /\ entry[c] # NoEntry /\ Held(c) = entry[c] /\ Found(c) = heap[entry[c]]
         /\ Held(c) \in Used
         /\ Level(c) = Found(c).tokens + Rpm[l] * (now[c] - Found(c).lastRefill)
<1>1. TypeOK /\ Times /\ c \in Check /\ port[c] = l
  BY OneListener DEF BaseInv, Looked
<1>2. entry[c] # NoEntry /\ entry[c] \in Check
  BY <1>1, PoorAt DEF TypeOK
<1>3. Held(c) = entry[c] /\ Found(c) = heap[entry[c]]
  BY <1>2 DEF Held, Found
<1>. QED BY <1>1, <1>2, <1>3, PoorAt DEF Used

(* The reset time of the bucket stays right: of a granted check ...        *)
LEMMA SpentResets ==
  ASSUME BaseInv, NEW l, Listener = {l}, NEW c \in Looked, NEW b, Spends(c, b)
  PROVE  ResetRight(l, b)
<1>1. /\ port[c] = l /\ now[c] \in Nat
      /\ Rpm[l] \in Nat \ {0} /\ Capacity(l) \in Nat
  BY OneListener, FoundAt DEF BaseInv, Looked
<1>2. /\ b \in Bucket /\ b.lastRefill = now[c]
      /\ Capacity(l) - b.tokens \in Nat
      /\ \E q \in Nat : /\ b.resetAt = now[c] + q
                       /\ Rpm[l] * q >= Capacity(l) - b.tokens
                       /\ Rpm[l] * (q - 1) <= Capacity(l) - b.tokens
  BY <1>1, SpendsAt DEF BaseInv
<1>3. b.tokens \in Nat /\ b.resetAt \in Nat
  BY <1>2 DEF Bucket
<1>4. PICK x \in Nat : x = Capacity(l) - b.tokens
  BY <1>1, <1>2
<1>5. PICK q \in Nat : /\ b.resetAt = now[c] + q
                       /\ Rpm[l] * q >= x /\ Rpm[l] * (q - 1) <= x
  BY <1>2, <1>4
<1>6. b.resetAt - b.lastRefill = q /\ b.resetAt - 1 - b.lastRefill = q - 1
  BY <1>1, <1>2, <1>3, <1>4, <1>5
<1>7. PICK y \in Int, z \in Int : y = Rpm[l] * q /\ z = Rpm[l] * (q - 1)
  BY <1>1, <1>5
<1>8. b.tokens + y >= Capacity(l) /\ b.tokens + z <= Capacity(l)
  BY <1>1, <1>3, <1>4, <1>5, <1>7
<1>. QED BY <1>6, <1>7, <1>8 DEF ResetRight

(* ... and of a denied one, whose bucket gains what the time brought.      *)
LEMMA KeptSums ==
  ASSUME BaseInv, NEW l, Listener = {l}, NEW c \in Looked, NEW b, Keeps(c, b),
         NEW t \in Int
  PROVE  Level(c) + Rpm[l] * (t - now[c])
           = Found(c).tokens + Rpm[l] * (t - Found(c).lastRefill)
<1>1. /\ now[c] \in Nat /\ Rpm[l] \in Nat
      /\ Found(c).tokens \in Nat /\ Found(c).lastRefill \in Nat
  BY OneListener, FoundAt DEF BaseInv, Bucket
<1>2. Level(c) = Found(c).tokens + Rpm[l] * (now[c] - Found(c).lastRefill)
  BY DeniedUncapped
<1>3. /\ Rpm[l] * (now[c] - Found(c).lastRefill)
           = Rpm[l] * now[c] - Rpm[l] * Found(c).lastRefill
      /\ Rpm[l] * (t - now[c]) = Rpm[l] * t - Rpm[l] * now[c]
      /\ Rpm[l] * (t - Found(c).lastRefill) = Rpm[l] * t - Rpm[l] * Found(c).lastRefill
  BY <1>1, TimesSum
<1>4. PICK x \in Int, y \in Int, z \in Int :
        x = Rpm[l] * t /\ y = Rpm[l] * now[c] /\ z = Rpm[l] * Found(c).lastRefill
  BY <1>1
<1>. QED BY <1>1, <1>2, <1>3, <1>4

LEMMA KeptResets ==
  ASSUME BaseInv, NEW l, Listener = {l}, NEW c \in Looked, NEW b, Keeps(c, b),
         ResetRight(l, Found(c))
  PROVE  ResetRight(l, b)
<1>1. /\ b.tokens = Level(c) /\ b.lastRefill = now[c] /\ b.resetAt = Found(c).resetAt
      /\ Found(c).resetAt \in Nat
  BY KeepsAt, FoundAt DEF BaseInv, Bucket
<1>2. /\ Level(c) + Rpm[l] * (Found(c).resetAt - now[c])
           = Found(c).tokens + Rpm[l] * (Found(c).resetAt - Found(c).lastRefill)
      /\ Level(c) + Rpm[l] * (Found(c).resetAt - 1 - now[c])
           = Found(c).tokens + Rpm[l] * (Found(c).resetAt - 1 - Found(c).lastRefill)
  <2>1. Found(c).resetAt - 1 \in Int
    BY <1>1
  <2>. QED BY <1>1, <2>1, KeptSums
<1>. QED BY <1>1, <1>2 DEF ResetRight

(* What is in use afterwards: the new bucket, and what else was.           *)
LEMMA StoresUsed ==
  ASSUME BaseInv, NEW c \in Check, NEW b, NEW next, Stores(c, b, next)
  PROVE  /\ Held(c) \in Check /\ heap'[Held(c)] = b
         /\ Looked' = Looked \ {c}
         /\ Used' \subseteq Used \cup {Held(c)}
         /\ \A x \in Used' \ {Held(c)} : x \in Used /\ heap'[x] = heap[x]
         /\ \A d \in Looked' : entry'[d] = entry[d] /\ (entry[d] = Held(c) => entry[c] = Held(c))
<1>1. Held(c) \in Check /\ heap'[Held(c)] = b
  BY FoundAt DEF Stores, BaseInv
<1>2. Looked' = Looked \ {c}
  BY DEF Stores, Looked
<1>3. \A d \in Looked' : entry'[d] = entry[d]
  BY <1>2 DEF Stores, Looked
<1>4. Used' \subseteq Used \cup {Held(c)}
  BY <1>2, <1>3 DEF Used, Stores
<1>5. ASSUME NEW d \in Looked', entry[d] = Held(c) PROVE entry[c] = Held(c)
  <2>1. CASE entry[c] = NoEntry
    <3>1. Held(c) = c /\ phase[c] = "looked" /\ d \in Looked
      BY <1>2, <1>5, <2>1 DEF Held, Stores, Looked
    <3>. QED BY <1>5, <2>1, <3>1 DEF BaseInv, Unmade
  <2>2. CASE entry[c] # NoEntry
    BY <2>2 DEF Held
  <2>. QED BY <2>1, <2>2
<1>6. \A x \in Used' \ {Held(c)} : x \in Used /\ heap'[x] = heap[x]
  BY <1>4 DEF Stores, Used
<1>. QED BY <1>1, <1>2, <1>3, <1>4, <1>5, <1>6

(* What it stores is what it found and what the time brought, less the     *)
(* token it took: the checks on the same copy pay for the token by finding *)
(* less, the others by being one fewer.                                    *)
LEMMA StoresPaid ==
  ASSUME BaseInv, NEW l, Listener = {l}, Paid(l),
         NEW c \in Check, NEW b \in Bucket, NEW next, NEW n \in {0, 1},
         Stores(c, b, next), b.tokens = Level(c) - n * Minute,
         granted'[l] = granted[l] + n
  PROVE  Paid(l)'
<1>1. /\ TypeOK /\ Times /\ Queue /\ c \in Looked
      /\ l \in Listener /\ \A d \in Check : port[d] = l
      /\ Rpm[l] \in Nat /\ Minute \in Nat /\ Capacity(l) \in Nat
      /\ granted[l] \in Nat /\ races \in Nat /\ clock \in Nat
      /\ now[c] \in Nat /\ now[c] <= clock
  BY OneListener, FoundAt DEF BaseInv, Stores, Times
<1>2. /\ Held(c) \in Check /\ heap'[Held(c)] = b /\ b.lastRefill = now[c]
      /\ Looked' = Looked \ {c}
      /\ \A d \in Looked' : entry'[d] = entry[d] /\ (entry[d] = Held(c) => entry[c] = Held(c))
      /\ UNCHANGED <<clock, port, now, races>>
  BY StoresUsed DEF Stores
<1>3. Level(c) \in Nat
  BY <1>1, LevelAt
<1>4. PICK m \in Nat, f \in Nat, o \in Nat :
        m = n * Minute /\ f = Level(c) /\ o = Cardinality(Others(c))
  <2>1. n * Minute \in Nat
    BY <1>1
  <2>. QED BY <1>1, <1>3, <2>1, OthersFinite
<1>5. PICK g \in Int, p \in Int, r \in Int, h \in Int, k \in Int :
        /\ g = granted[l] * Minute /\ p = races * Minute
        /\ r = Rpm[l] * now[c] /\ h = Rpm[l] * clock /\ k = o * Minute
  <2>1. granted[l] * Minute \in Int /\ races * Minute \in Int
    BY <1>1
  <2>2. o * Minute \in Int
    BY <1>1, <1>4
  <2>3. Rpm[l] * now[c] \in Int
    BY <1>1
  <2>4. Rpm[l] * clock \in Int
    BY <1>1
  <2>. QED BY <2>1, <2>2, <2>3, <2>4, Zenon
<1>6. g + f + k <= Capacity(l) + r + p /\ k >= 0
  <2>1. g + f + k <= Capacity(l) + r + p
    BY <1>1, <1>4, <1>5 DEF Paid
  <2>. QED BY <1>1, <1>4, <1>5, <2>1
<1>7. granted'[l] * Minute = g + m
  <2>1. Minute * (granted[l] + n) = Minute * granted[l] + Minute * n
    BY <1>1, TimesSum
  <2>2. granted'[l] * Minute = Minute * (granted[l] + n)
    BY <1>1
  <2>3. Minute * granted[l] = g /\ Minute * n = m
    BY <1>1, <1>4, <1>5
  <2>. QED BY <2>1, <2>2, <2>3
(* The bucket later on.                                                    *)
<1>8. ASSUME NEW t \in Nat, now[c] <= t
      PROVE  /\ Refilled(l, b, t) \in Nat
             /\ Refilled(l, b, t) <= f - m + Rpm[l] * t - r
  <2>1. /\ Refilled(l, b, t) \in Nat
        /\ Refilled(l, b, t) <= b.tokens + Rpm[l] * (t - b.lastRefill)
    BY <1>1, <1>2, <1>8, RefilledAt
  <2>2. Rpm[l] * (t - now[c]) = Rpm[l] * t - Rpm[l] * now[c]
    BY <1>1, TimesSum
  <2>3. PICK x \in Int : x = Rpm[l] * t
    BY <1>1
  <2>4. b.tokens = f - m
    BY <1>4
  <2>. QED BY <1>2, <1>5, <2>1, <2>2, <2>3, <2>4
<1>9. granted'[l] * Minute + Stock(l)' <= Capacity(l) + Rpm[l] * clock' + races' * Minute
  <2>1. Stock(l)' = Refilled(l, b, clock)
    <3>1. stored'.entry = Held(c) /\ stored'.entry # NoEntry
      BY <1>2, BucketAssumption DEF Stores
    <3>. QED BY <1>2, <3>1 DEF Stock
  <2>2. PICK s \in Nat : s = Stock(l)' /\ s <= f - m + h - r
    BY <1>1, <1>5, <1>8, <2>1
  <2>3. (g + m) + s <= Capacity(l) + h + p
    BY <1>1, <1>6, <2>2
  <2>. QED BY <1>2, <1>5, <1>7, <2>2, <2>3
<1>10. ASSUME NEW d \in Looked'
       PROVE  granted'[l] * Minute + Level(d)' + Cardinality(Others(d)') * Minute
                <= Capacity(l) + Rpm[l] * now'[d] + races' * Minute
  <2>1. /\ d \in Looked /\ d \in Check /\ d # c /\ phase[d] = "looked"
        /\ now[d] \in Nat /\ port[d] = l
        /\ entry'[d] = entry[d]
    BY <1>1, <1>2, <1>10 DEF Looked, TypeOK
  <2>2. now[c] <= now[d]
    BY <1>1, <2>1, TurnIsFirst DEF Stores
  <2>3. PICK x \in Int : x = Rpm[l] * now[d]
    BY <1>1, <2>1
  <2>4. CASE entry[d] = Held(c)
    <3>1. entry[c] = entry[d] /\ entry[c] # NoEntry
      BY <1>2, <1>10, <2>4, BucketAssumption
    <3>2. Others(c) = Rivals(entry[d])
      BY <3>1 DEF Others, Rivals
    <3>3. Others(d)' = Rivals(entry[d])
      BY <1>1, <2>1, <3>1 DEF Others, Rivals, Stores, Looked
    <3>4. PICK q \in Nat : q = Level(d)' /\ q <= f - m + x - r
      <4>1. Found(d)' = b
        BY <1>2, <2>1, <2>4, <3>1 DEF Found
      <4>2. Level(d)' = Refilled(l, b, now[d])
        BY <1>2, <2>1, <4>1 DEF Level
      <4>. QED BY <1>8, <2>1, <2>2, <2>3, <4>2
    <3>5. (g + m) + q + k <= Capacity(l) + x + p
      BY <1>1, <1>6, <3>4
    <3>. QED BY <1>2, <1>4, <1>5, <1>7, <2>3, <3>2, <3>3, <3>4, <3>5
  <2>5. CASE entry[d] # Held(c)
    <3>1. Level(d)' = Level(d)
      <4>1. entry[d] # NoEntry => heap'[entry[d]] = heap[entry[d]]
        BY <1>1, <2>1, <2>5 DEF Stores, TypeOK
      <4>2. Found(d)' = Found(d)
        BY <1>2, <2>1, <4>1 DEF Found
      <4>. QED BY <1>2, <2>1, <4>2 DEF Level
    <3>2. c \in Others(d)
      BY <1>1, <2>1, <2>5 DEF Others, Rivals, Looked, Held
    <3>3. Others(d)' = Others(d) \ {c}
      BY <2>1 DEF Others, Rivals, Stores, Looked
    <3>4. PICK u \in Nat : u = Cardinality(Others(d))
      BY <1>1, OthersFinite
    <3>5. Cardinality(Others(d)') = u - 1
      BY <1>1, <3>2, <3>3, <3>4, OthersFinite, FS_RemoveElement
    <3>6. PICK q \in Nat : q = Level(d)
      BY <1>1, <2>1, LevelAt
    <3>7. PICK w \in Int : w = u * Minute
      BY <1>1, <3>4
    <3>8. (u - 1) * Minute = w - Minute
      <4>1. Minute * (u - 1) = Minute * u - Minute * 1
        BY <1>1, <3>4, TimesSum
      <4>. QED BY <1>1, <3>4, <3>7, <4>1
    <3>9. g + q + w <= Capacity(l) + x + p
      BY <1>5, <2>1, <2>3, <3>4, <3>6, <3>7 DEF Paid
    <3>10. m <= Minute
      BY <1>1, <1>4
    <3>11. (g + m) + q + (w - Minute) <= Capacity(l) + x + p
      BY <1>1, <3>6, <3>7, <3>9, <3>10
    <3>. QED BY <1>2, <1>5, <1>7, <2>3, <3>1, <3>5, <3>6, <3>8, <3>11
  <2>. QED BY <2>4, <2>5
<1>. QED BY <1>9, <1>10 DEF Paid

LEMMA StoresPromised ==
  ASSUME BaseInv, NEW l, Listener = {l}, BucketInv(l), NEW c \in Check,
         Grant(c) \/ Deny(c)
  PROVE  Promised(l)'
<1>1. /\ TypeOK /\ Times /\ races \in Nat /\ Minute \in Nat /\ Rpm[l] \in Nat \ {0}
      /\ port[c] = l /\ promise \in Nat
  BY OneListener DEF BaseInv, TypeOK
<1>2. \E b, next : Stores(c, b, next)
  BY <1>1, StoresAt
<1>3. /\ c \in Looked /\ Looked' = Looked \ {c} /\ races' = races
      /\ stored'.entry = Held(c) /\ Held(c) \in Check
      /\ \A d \in Looked' : entry'[d] = entry[d]
      /\ now[c] \in Nat
  BY <1>1, <1>2, StoresUsed, FoundAt DEF Stores
<1> SUFFICES ASSUME races' = 0
             PROVE  /\ \A d, x \in Looked' : d # x => entry'[d] = entry'[x] /\ entry'[d] # NoEntry
                    /\ promise' # 0 => \A x \in Used' :
                         heap'[x].tokens + Rpm[l] * (promise' - heap'[x].lastRefill) >= Minute
  BY DEF Promised
<1>4. \A d, x \in Looked : d # x => entry[d] = entry[x] /\ entry[d] # NoEntry
  BY <1>3 DEF BucketInv, Promised
<1>5. \A d, x \in Looked' : d # x => entry'[d] = entry'[x] /\ entry'[d] # NoEntry
  BY <1>3, <1>4
<1>6. ASSUME promise' # 0, NEW x \in Used'
      PROVE  heap'[x].tokens + Rpm[l] * (promise' - heap'[x].lastRefill) >= Minute
  <2>1. /\ \E b : Keeps(c, b) /\ Stores(c, b, "denying")
        /\ \E q \in Ceilings(Minute - Level(c), Rpm[l]) :
             promise' = IF promise = 0 THEN now[c] + Seconds(q) ELSE promise
    <3>1. promise' # 0
      BY <1>6
    <3>. QED BY <1>1, <3>1, StoresAt
  <2>0. PICK b : Keeps(c, b) /\ Stores(c, b, "denying")
    BY <2>1
  <2>2. /\ Held(c) = entry[c] /\ Found(c) = heap[entry[c]] /\ Held(c) \in Used
    BY <1>3, <2>0, DeniedUncapped
  <2>3. x = Held(c)
    <3>1. \A d \in Looked' : entry'[d] = Held(c)
      BY <1>3, <1>4, <2>2
    <3>. QED BY <1>3, <1>6, <3>1 DEF Used
  <2>4. heap'[x].tokens = Level(c) /\ heap'[x].lastRefill = now[c]
    BY <1>3, <2>0, <2>3, KeepsAt DEF Stores, BaseInv
  <2>5. promise' \in Int /\ Level(c) \in Nat
    <3>1. TypeOK'
      BY <1>1, StoreTyped
    <3>2. promise' \in Nat
      BY <3>1 DEF TypeOK
    <3>. QED BY <1>1, <1>3, <3>2, LevelAt
  <2>6. Level(c) + Rpm[l] * (promise' - now[c]) >= Minute
    <3>1. CASE promise # 0
      <4>1. promise' = promise /\ promise \in Int
        BY <1>1, <2>1, <3>1
      <4>2. Found(c).tokens + Rpm[l] * (promise - Found(c).lastRefill) >= Minute
        BY <1>3, <2>2, <3>1 DEF BucketInv, Promised
      <4>3. Level(c) + Rpm[l] * (promise - now[c])
              = Found(c).tokens + Rpm[l] * (promise - Found(c).lastRefill)
        BY <1>3, <2>0, <4>1, KeptSums
      <4>. QED BY <4>1, <4>2, <4>3
    <3>2. CASE promise = 0
      <4>1. PICK w \in Ceilings(Minute - Level(c), Rpm[l]) :
              promise' = now[c] + Seconds(w)
        BY <2>1, <3>2
      <4>2. w \in Nat /\ Minute - Level(c) \in Nat /\ Rpm[l] * w >= Minute - Level(c)
        BY <1>1, <1>3, <2>0, <4>1, WaitAt
      <4>4. PICK z \in Nat : z = Seconds(w) /\ z >= w
        BY <4>2, SecondsBounds
      <4>5. promise' - now[c] = z
        BY <1>3, <4>1, <4>4
      <4>6. Rpm[l] * w <= Rpm[l] * z
        BY <1>1, <4>2, <4>4, TimesMore
      <4>7. PICK i \in Int, j \in Int : i = Rpm[l] * w /\ j = Rpm[l] * z
        BY <1>1, <4>2, <4>4
      <4>8. Level(c) + j >= Minute
        BY <1>1, <2>5, <4>1, <4>2, <4>6, <4>7
      <4>. QED BY <4>5, <4>7, <4>8
    <3>. QED BY <3>1, <3>2
  <2>. QED BY <2>4, <2>6
<1>. QED BY <1>5, <1>6

LEMMA StoresBucket ==
  ASSUME BaseInv, NEW l, Listener = {l}, BucketInv(l), NEW c \in Check,
         Grant(c) \/ Deny(c)
  PROVE  BucketInv(l)'
<1>1. /\ TypeOK /\ Times /\ c \in Looked /\ port[c] = l /\ l \in Listener
      /\ Minute \in Nat /\ granted[l] \in Nat /\ Level(c) \in Nat
      /\ now[c] \in Nat /\ now[c] <= clock /\ clock \in Nat /\ Ttl \in Nat
  BY OneListener, LevelAt, BucketAssumption, FoundAt DEF Grant, Deny, Looked, BaseInv, Times
<1>2. ASSUME NEW b \in Bucket, NEW next, NEW n \in {0, 1}, Stores(c, b, next),
             b.tokens = Level(c) - n * Minute, granted'[l] = granted[l] + n,
             ResetRight(l, b)
      PROVE  BucketInv(l)'
  <2>1. \A x \in Used' : ResetRight(l, heap'[x])
    <3>1. /\ heap'[Held(c)] = b
          /\ \A x \in Used' \ {Held(c)} : x \in Used /\ heap'[x] = heap[x]
      BY <1>2, StoresUsed
    <3>2. ASSUME NEW x \in Used' PROVE ResetRight(l, heap'[x])
      <4>1. CASE x = Held(c)
        BY <1>2, <3>1, <4>1
      <4>2. CASE x # Held(c)
        BY <3>1, <3>2, <4>2 DEF BucketInv
      <4>. QED BY <4>1, <4>2
    <3>. QED BY <3>2
  <2>2. Outlives'
    <3>1. /\ stored'.entry = Held(c) /\ stored'.expiresAt = clock + Ttl
          /\ heap'[Held(c)].lastRefill = now[c]
      BY <1>2 DEF Stores
    <3>. QED BY <1>1, <3>1 DEF Outlives
  <2>3. Paid(l)'
    BY <1>2, StoresPaid DEF BucketInv
  <2>. QED BY <2>1, <2>2, <2>3, StoresPromised DEF BucketInv
<1>3. ASSUME NEW b, Spends(c, b), Stores(c, b, "granting"),
             granted' = [granted EXCEPT ![port[c]] = @ + 1]
      PROVE  BucketInv(l)'
  <2>1. b \in Bucket /\ b.tokens = Level(c) - Minute
    BY <1>1, <1>3, SpendsAt
  <2>2. ResetRight(l, b)
    BY <1>1, <1>3, SpentResets
  <2>3. granted'[l] = granted[l] + 1
    BY <1>1, <1>3 DEF TypeOK
  <2>4. b.tokens = Level(c) - 1 * Minute /\ 1 \in {0, 1}
    BY <1>1, <2>1
  <2>. QED BY <1>2, <1>3, <2>1, <2>2, <2>3, <2>4
<1>4. ASSUME NEW b, Keeps(c, b), Stores(c, b, "denying"), UNCHANGED granted
      PROVE  BucketInv(l)'
  <2>1. b \in Bucket /\ b.tokens = Level(c)
    BY <1>1, <1>4, KeepsAt
  <2>2. ResetRight(l, b)
    <3>1. Found(c) = heap[entry[c]] /\ Held(c) = entry[c] /\ Held(c) \in Used
      BY <1>1, <1>4, DeniedUncapped
    <3>. QED BY <1>1, <1>4, <3>1, KeptResets DEF BucketInv
  <2>3. granted'[l] = granted[l] + 0 /\ b.tokens = Level(c) - 0 * Minute /\ 0 \in {0, 1}
    BY <1>1, <1>4, <2>1
  <2>. QED BY <1>2, <1>4, <2>1, <2>2, <2>3
<1>. QED BY <1>1, <1>3, <1>4, StoresAt

-----------------------------------------------------------------------------
(* An answer leaves the buckets alone.                                     *)
LEMMA ReplyBucket ==
  ASSUME BaseInv, NEW l, Listener = {l}, BucketInv(l), NEW c \in Check, Reply(c)
  PROVE  BucketInv(l)'
<1>1. /\ phase[c] \in {"granting", "denying"} /\ phase'[c] \in {"allowed", "denied"}
      /\ \A d \in Check \ {c} : phase'[d] = phase[d]
      /\ UNCHANGED <<backend, clock, port, now, entry, heap, stored, granted,
                     races, promise>>
  BY DEF Reply, BaseInv, TypeOK
<1>2. Looked' = Looked
  BY <1>1 DEF Looked
<1>3. Used' = Used
  BY <1>1, <1>2 DEF Used
<1>4. \A d \in Check : Others(d)' = Others(d) /\ Level(d)' = Level(d)
  BY <1>1 DEF Others, Rivals, Level, Found
<1>5. Stock(l)' = Stock(l)
  BY <1>1 DEF Stock
<1>6. Paid(l)'
  BY <1>1, <1>2, <1>4, <1>5 DEF BucketInv, Paid, Looked
<1>7. Promised(l)'
  BY <1>1, <1>2, <1>3 DEF BucketInv, Promised
<1>. QED BY <1>1, <1>3, <1>6, <1>7 DEF BucketInv, Outlives

(* Time refills the bucket, and what the cleanup removes was full.         *)
LEMMA ClockBucket ==
  ASSUME BaseInv, NEW l, Listener = {l}, BucketInv(l), Tick \/ Cleanup \/ UNCHANGED vars
  PROVE  BucketInv(l)'
<1>1. UNCHANGED <<phase, port, now, entry, heap, granted, races, promise>>
  BY DEF Tick, Cleanup, vars
<1>2. /\ TypeOK /\ Times /\ l \in Listener /\ clock \in Nat /\ Capacity(l) \in Nat
      /\ Rpm[l] \in Nat /\ Stock(l) \in Nat /\ granted[l] \in Nat /\ races \in Nat
      /\ Minute \in Nat
  BY OneListener, StockAt DEF BaseInv
<1>3. stored' \in {stored, Nothing} /\ Looked' = Looked
  BY <1>1 DEF Tick, Cleanup, vars, Looked
<1>4. Used' \subseteq Used
  BY <1>1, <1>3, BucketAssumption DEF Used, Nothing
<1>5. \A d \in Check : Others(d)' = Others(d) /\ Level(d)' = Level(d)
  BY <1>1 DEF Others, Rivals, Level, Found
<1>6. Outlives'
  BY <1>1, <1>3 DEF BucketInv, Outlives, Nothing
<1>7. granted'[l] * Minute + Stock(l)' <= Capacity(l) + Rpm[l] * clock' + races' * Minute
  <2>1. PICK g \in Int, p \in Int, r \in Int, s \in Nat :
          g = granted[l] * Minute /\ p = races * Minute /\ r = Rpm[l] * clock /\ s = Stock(l)
    <3>1. granted[l] * Minute \in Int /\ races * Minute \in Int
      BY <1>2
    <3>2. Rpm[l] * clock \in Int
      BY <1>2
    <3>. QED BY <1>2, <3>1, <3>2, Zenon
  <2>2. g + s <= Capacity(l) + r + p
    BY <2>1 DEF BucketInv, Paid
  <2>3. CASE UNCHANGED <<clock, stored>>
    <3>1. Stock(l)' = Stock(l)
      BY <1>1, <2>3 DEF Stock
    <3>. QED BY <1>1, <2>1, <2>2, <2>3, <3>1
  <2>4. CASE Cleanup
    <3>1. /\ stored.entry # NoEntry /\ heap[stored.entry].resetAt < clock
          /\ UNCHANGED clock /\ stored' = Nothing
      BY <2>4 DEF Cleanup
    <3>2. heap[stored.entry] \in Bucket /\ stored.entry \in Used
      BY <1>2, <3>1, StockAt DEF Used
    <3>3. heap[stored.entry].resetAt <= clock
      BY <1>2, <3>1, <3>2 DEF Bucket
    <3>4. Refilled(l, heap[stored.entry], clock) = Capacity(l)
      BY <1>2, <3>2, <3>3, FullAtReset DEF BucketInv
    <3>5. Stock(l) = Capacity(l) /\ Stock(l)' = Capacity(l)
      BY <3>1, <3>4 DEF Stock, Nothing
    <3>. QED BY <1>1, <2>1, <2>2, <3>1, <3>5
  <2>5. CASE Tick
    <3>1. clock' = clock + 1 /\ UNCHANGED stored
      BY <2>5 DEF Tick
    <3>2. PICK k \in Nat : k = Rpm[l]
      BY <1>2
    <3>3. PICK t \in Nat : t = Stock(l)' /\ t <= s + k
      <4>1. CASE stored.entry = NoEntry
        <5>1. Stock(l)' = Capacity(l) /\ Stock(l) = Capacity(l)
          BY <3>1, <4>1 DEF Stock
        <5>. QED BY <1>2, <2>1, <3>2, <5>1
      <4>2. CASE stored.entry # NoEntry
        <5>1. heap[stored.entry] \in Bucket /\ heap[stored.entry].lastRefill <= clock
          BY <1>2, <4>2, StockAt
        <5>2. /\ Stock(l) = Refilled(l, heap[stored.entry], clock)
              /\ Stock(l)' = Refilled(l, heap[stored.entry], clock + 1)
          BY <1>1, <3>1, <4>2 DEF Stock
        <5>3. clock + 1 \in Nat /\ heap[stored.entry].lastRefill <= clock + 1
          BY <1>2, <5>1 DEF Bucket
        <5>4. Refilled(l, heap[stored.entry], clock + 1) \in Nat
          BY <1>2, <5>1, <5>3, RefilledAt
        <5>5. Stock(l)' <= Stock(l) + Rpm[l]
          BY <1>2, <5>1, <5>2, RefilledNext
        <5>. QED BY <2>1, <3>2, <5>2, <5>4, <5>5
      <4>. QED BY <4>1, <4>2
    <3>4. Rpm[l] * clock' = r + k
      <4>1. Rpm[l] * (clock + 1) = Rpm[l] * clock + Rpm[l] * 1
        BY <1>2, TimesSum
      <4>. QED BY <1>2, <2>1, <3>1, <3>2, <4>1
    <3>5. g + t <= Capacity(l) + (r + k) + p
      BY <1>2, <2>2, <3>3
    <3>. QED BY <1>1, <2>1, <3>3, <3>4, <3>5
  <2>. QED BY <2>3, <2>4, <2>5 DEF vars
<1>8. Paid(l)'
  BY <1>1, <1>3, <1>5, <1>7 DEF BucketInv, Paid, Looked
<1>9. Promised(l)'
  BY <1>1, <1>3, <1>4 DEF BucketInv, Promised
<1>. QED BY <1>1, <1>4, <1>6, <1>8, <1>9 DEF BucketInv

LEMMA BucketInit ==
  ASSUME NEW l, Listener = {l}, Init
  PROVE  BucketInv(l)
<1>1. Looked = {} /\ TypeOK
  BY BaseInit DEF Init, Looked, BaseInv
<1>2. Used = {} /\ stored.entry = NoEntry
  BY <1>1, BucketAssumption DEF Init, Nothing, Used
<1>3. Paid(l)
  <2>1. granted[l] = 0 /\ races = 0 /\ clock = 0 /\ Stock(l) = Capacity(l)
    BY <1>2 DEF Init, Stock
  <2>2. Rpm[l] \in Nat /\ Minute \in Nat /\ Capacity(l) \in Nat
    BY <1>1, OneListener
  <2>3. 0 * Minute = 0 /\ Rpm[l] * 0 = 0
    BY <2>2
  <2>. QED BY <1>1, <2>1, <2>2, <2>3 DEF Paid
<1>4. Promised(l) /\ Outlives
  BY <1>1, <1>2 DEF Promised, Outlives
<1>. QED BY <1>2, <1>3, <1>4 DEF BucketInv

LEMMA BucketStep ==
  ASSUME NEW l, Listener = {l}, BaseInv, BucketInv(l), [Next]_vars
  PROVE  BucketInv(l)'
<1>1. TypeOK /\ Times
  BY DEF BaseInv
<1>2. ASSUME NEW c \in Check, FindNone(c) \/ FindObject(c) \/ FindRow(c)
      PROVE  BucketInv(l)'
  <2>1. \E e \in Check \cup {NoEntry} : Looks(c, e)
    BY <1>1, <1>2, LooksAt
  <2>. QED BY <2>1, LooksBucket
<1>3. ASSUME NEW c \in Check, Grant(c) \/ Deny(c) PROVE BucketInv(l)'
  BY <1>3, StoresBucket
<1>4. ASSUME NEW c \in Check, Reply(c) PROVE BucketInv(l)'
  BY <1>4, ReplyBucket
<1>. QED BY <1>2, <1>3, <1>4, ClockBucket DEF Next

LEMMA BucketInvariance ==
  ASSUME NEW l, Listener = {l}
  PROVE  Spec => [](BaseInv /\ BucketInv(l))
<1>1. Init => BaseInv /\ BucketInv(l)
  BY BaseInit, BucketInit
<1>2. BaseInv /\ BucketInv(l) /\ [Next]_vars => BaseInv' /\ BucketInv(l)'
  BY BaseStep, BucketStep
<1>. QED BY <1>1, <1>2, PTL DEF Spec

(* A listener that has its store to itself never lets more through than its*)
(* capacity and the refill, but for one token for each overlap of checks   *)
(* on different copies of the bucket; whatever the rate, the number of     *)
(* requests and the store.                                                 *)
(* Code: check() in src/src/rate-limit/token-bucket.ts.                    *)
THEOREM GrantsAlwaysBounded ==
  ASSUME NEW l, Listener = {l}
  PROVE  Spec => []GrantsBounded
<1>1. ASSUME BaseInv, BucketInv(l) PROVE GrantsBounded
  <2>1. /\ l \in Listener /\ TypeOK /\ Times /\ Outlives
    BY <1>1, OneListener DEF BaseInv, BucketInv
  <2>2. Available(l) = Stock(l)
    <3>1. CASE Live
      BY <3>1 DEF Available, Stock, Live
    <3>2. CASE ~Live
      BY <2>1, <3>2, ExpiredWasFull DEF Available
    <3>. QED BY <3>1, <3>2
  <2>. QED BY <1>1, <2>2 DEF BucketInv, Paid, GrantsBounded
<1>2. BaseInv /\ BucketInv(l) => GrantsBounded
  BY <1>1
<1>. QED BY <1>2, BucketInvariance, PTL

(* X-RateLimit-Reset is when the bucket is full again, at most a tick late,*)
(* of a listener that has its store to itself: through denied checks, which   *)
(* leave the reset time as it is, and through checks on copies.            *)
(* Code: entry.resetAt in check(), src/src/rate-limit/token-bucket.ts.     *)
THEOREM ResetAlwaysTrue ==
  ASSUME NEW l, Listener = {l}
  PROVE  Spec => []ResetAtTrue
<1>1. ASSUME BaseInv, BucketInv(l) PROVE ResetAtTrue
  <2> SUFFICES ASSUME Live PROVE ResetRight(l, heap[stored.entry]) /\ port[stored.entry] = l
    BY DEF ResetAtTrue, ResetRight
  <2>1. stored.entry \in Check /\ TypeOK
    BY <1>1 DEF Live, BaseInv, TypeOK
  <2>2. stored.entry \in Used
    BY <2>1 DEF Used
  <2>. QED BY <1>1, <2>1, <2>2, OneListener DEF BucketInv
<1>2. BaseInv /\ BucketInv(l) => ResetAtTrue
  BY <1>1
<1>. QED BY <1>2, BucketInvariance, PTL

(* A client that has waited longer than its Retry-After says, while nobody *)
(* took the token and no two checks overlapped on different copies, is not *)
(* denied, whatever was lost in rounding by the checks in between.         *)
(* Code: waitMs in check(), src/src/rate-limit/token-bucket.ts, and        *)
(* retryAfter in createRateLimitMiddleware, src/src/server/rate-limit.ts.  *)
THEOREM RetryAfterAlwaysEnough ==
  ASSUME NEW l, Listener = {l}
  PROVE  Spec => RetryAfterEnough
<1>1. ASSUME BaseInv, BucketInv(l), [Next]_vars, NEW c \in Check,
             phase[c] = "looked", phase'[c] = "denying"
      PROVE  promise = 0 \/ now[c] <= promise \/ races > 0
  <2>1. /\ TypeOK /\ Times /\ c \in Looked /\ port[c] = l
        /\ Rpm[l] \in Nat \ {0} /\ races \in Nat /\ promise \in Nat /\ now[c] \in Nat
        /\ Minute \in Nat
    BY <1>1, OneListener DEF BaseInv, TypeOK, Looked
  <2>2. \E b : Keeps(c, b)
    <3>1. ASSUME NEW d \in Check, FindNone(d) \/ FindObject(d) \/ FindRow(d) PROVE FALSE
      <4>1. \E e \in Check \cup {NoEntry} : Looks(d, e)
        BY <2>1, <3>1, LooksAt
      <4>. QED BY <1>1, <4>1 DEF Looks
    <3>2. ASSUME NEW d \in Check, Grant(d) PROVE FALSE
      BY <1>1, <2>1, <3>2 DEF Grant, TypeOK
    <3>3. ASSUME NEW d \in Check, Reply(d) PROVE FALSE
      BY <1>1, <2>1, <3>3 DEF Reply, TypeOK
    <3>4. ~(Tick \/ Cleanup \/ UNCHANGED vars)
      BY <1>1 DEF Tick, Cleanup, vars
    <3>5. PICK d \in Check : Deny(d)
      BY <1>1, <3>1, <3>2, <3>3, <3>4 DEF Next
    <3>6. d = c
      BY <1>1, <2>1, <3>5 DEF Deny, TypeOK
    <3>. QED BY <3>5, <3>6 DEF Deny, Keeps
  <2> SUFFICES ASSUME promise # 0, ~(now[c] <= promise), ~(races > 0) PROVE FALSE
    OBVIOUS
  <2>3. races = 0 /\ promise + 1 <= now[c]
    BY <2>1
  <2>4. /\ Found(c) = heap[entry[c]] /\ Held(c) = entry[c] /\ Held(c) \in Used
        /\ Level(c) = Found(c).tokens + Rpm[l] * (now[c] - Found(c).lastRefill)
        /\ Level(c) <= Minute
    BY <1>1, <2>1, <2>2, DeniedUncapped, KeepsAt
  <2>5. Found(c).tokens + Rpm[l] * (promise - Found(c).lastRefill) >= Minute
    BY <1>1, <2>3, <2>4 DEF BucketInv, Promised
  <2>6. Found(c).tokens \in Nat /\ Found(c).lastRefill \in Nat
    BY <2>1, FoundAt DEF Bucket
  <2>7. Rpm[l] * (promise - Found(c).lastRefill) + Rpm[l]
          <= Rpm[l] * (now[c] - Found(c).lastRefill)
    <3>1. PICK u \in Int, v \in Int : /\ u = promise - Found(c).lastRefill
                                      /\ v = now[c] - Found(c).lastRefill /\ u + 1 <= v
      BY <2>1, <2>3, <2>6
    <3>2. Rpm[l] * (u + 1) <= Rpm[l] * v
      BY <2>1, <3>1, TimesMore
    <3>3. Rpm[l] * (u + 1) = Rpm[l] * u + Rpm[l]
      BY <2>1, <3>1
    <3>. QED BY <3>1, <3>2, <3>3
  <2>8. PICK x \in Int, y \in Int : /\ x = Rpm[l] * (promise - Found(c).lastRefill)
                                    /\ y = Rpm[l] * (now[c] - Found(c).lastRefill)
    BY <2>1, <2>6
  <2>. QED BY <2>1, <2>4, <2>5, <2>6, <2>7, <2>8
<1>2. BaseInv /\ BucketInv(l) /\ [Next]_vars =>
        [\A c \in Check :
           phase[c] = "looked" /\ phase'[c] = "denying" =>
             promise = 0 \/ now[c] <= promise \/ races > 0]_vars
  BY <1>1
<1>. QED BY <1>2, BucketInvariance, PTL DEF Spec, RetryAfterEnough
=============================================================================
