----------------------------- MODULE TokenBucket -----------------------------
(***************************************************************************)
(* The rate limiter: TokenBucket.check (src/src/rate-limit/token-bucket.ts)*)
(* as each listener's middleware calls it (src/src/server/rate-limit.ts)   *)
(* for the requests of one client address, over the store the listeners of *)
(* a process share.                                                        *)
(*                                                                         *)
(* A listener's bucket holds Rpm tokens and refills Rpm / 60 per second    *)
(* (proxy/listener-runtime.ts), so an empty bucket is full after a minute. *)
(* Tokens are counted in units: Minute units are one token, and a tick of  *)
(* the clock brings Rpm units.  The code counts them in floats, whose      *)
(* rounding is far below a unit: it shows where a float that should be a   *)
(* whole number of units is a little less (`short`), and where a quotient  *)
(* that should be whole is rounded up to the next tick (Ceilings).         *)
(*                                                                         *)
(* check() awaits twice on store calls that have already done their work,  *)
(* so its pieces are microtasks: `tasks` is their queue.  Requests that    *)
(* arrive together (pipelined on a connection) all look the bucket up      *)
(* before the first of them goes on.                                       *)
(***************************************************************************)
EXTENDS Integers, Sequences, FiniteSets

CONSTANTS
  Check,      \* requests of the client, one check each
  Listener,   \* listeners of the process
  Rpm,        \* rateLimitRpm of each listener
  Minute,     \* ticks in a minute, and units in a token
  Second,     \* ticks in a second
  Ttl,        \* ttlMs of a stored bucket
  NoEntry,    \* no bucket
  MaxClock    \* bound on the clock (model checking only)

(* PositiveIntSchema for rateLimitRpm; an hour outlasts a minute.          *)
ASSUME BucketAssumption ==
  /\ Rpm \in [Listener -> Nat \ {0}]
  /\ Minute \in Nat \ {0}
  /\ Second \in Nat \ {0}
  /\ Ttl \in Nat /\ Ttl >= Minute
  /\ NoEntry \notin Check
  /\ MaxClock \in Nat

VARIABLES
  backend,    \* storeType of the process
  clock,      \* Date.now()
  tasks,      \* checks waiting for their next microtask, in order
  phase,      \* where each check is
  port,       \* the listener it came to
  now,        \* its `now`
  entry,      \* the bucket object it holds: the check that made it
  heap,       \* the bucket objects
  stored,     \* what the store keeps for the address
  wait,       \* its `waitMs`
  reply,      \* its headers
  \* Observation only:
  granted,    \* requests let through by each listener
  races,      \* times a check looked up a bucket while another was changing
              \* a different copy of it
  promise     \* earliest time a denial promised, 0 if granted since

vars == <<backend, clock, tasks, phase, port, now, entry, heap, stored, wait,
          reply, granted, races, promise>>

-----------------------------------------------------------------------------
Min2(a, b)    == IF a <= b THEN a ELSE b
CeilDiv(a, b) == (a + b - 1) \div b

(* Math.ceil of the float quotient a / b: the division and the rate        *)
(* (rpm / 60) are rounded, so that a quotient that should be whole may come*)
(* out a little above.                                                     *)
Ceilings(a, b) ==
  {q \in {CeilDiv(a, b), CeilDiv(a, b) + 1} : b * (q - 1) <= a}

(* The whole units in a float whose exact value is `level`.                *)
Units(level, short) == IF short THEN level - 1 ELSE level

Capacity(l) == Rpm[l] * Minute
(* A new bucket; it has a token for its check, which sets resetAt anew.    *)
FullBucket(l, t) ==
  [tokens |-> Capacity(l), short |-> FALSE, lastRefill |-> t,
   resetAt |-> t + Minute]
Nothing == [entry |-> NoEntry, expiresAt |-> 0]

\* Mutant: the elapsed time is taken the wrong way round.
RefilledBackwards(l, b, t) == Min2(Capacity(l), b.tokens + Rpm[l] * (b.lastRefill - t))

(* The tokens a bucket holds at time t, not rounded.                       *)
Refilled(l, b, t) == Min2(Capacity(l), b.tokens + Rpm[l] * (t - b.lastRefill))

(* Whether the sum may be a little less than that: capped, it is the       *)
(* capacity; with nothing added, it is what it was.                        *)
Rounded(l, b, t) ==
  IF b.tokens + Rpm[l] * (t - b.lastRefill) > Capacity(l) THEN {FALSE}
  ELSE IF t = b.lastRefill THEN {b.short}
  ELSE BOOLEAN

\* Mutant: resetAt is set when the bucket is made and never again.
SpentKeepsReset(b, level, short, t, reset) ==
  [b EXCEPT !.tokens = level - Minute, !.short = short, !.lastRefill = t]

(* The bucket after a granted check (taking one off a float is exact) ...  *)
Spent(b, level, short, t, reset) ==
  [tokens |-> level - Minute, short |-> short, lastRefill |-> t,
   resetAt |-> reset]

\* Mutant: the refill of a denied check is stored without its time.
KeptWithOldTime(b, level, short, t) ==
  [b EXCEPT !.tokens = level, !.short = short]

(* ... and after a denied one.                                             *)
Kept(b, level, short, t) ==
  [b EXCEPT !.tokens = level, !.short = short, !.lastRefill = t]

\* Mutant: Retry-After rounds down.
SecondsDown(ticks) == (ticks \div Second) * Second

(* Math.ceil(ms / 1000), the unit of the Retry-After and Reset headers.    *)
Seconds(ticks) == CeilDiv(ticks, Second) * Second

(* The store's expiry tests: the map's and the SQL statement's.            *)
Expired == IF backend = "memory" THEN stored.expiresAt < clock
                                 ELSE stored.expiresAt <= clock
Live == stored.entry # NoEntry /\ ~Expired

-----------------------------------------------------------------------------
Bucket ==
  {b \in [tokens : Nat, short : BOOLEAN, lastRefill : Nat, resetAt : Nat] :
     b.short => b.tokens > 0}
Phase  == {"idle", "looked", "granting", "denying", "allowed", "denied"}

TypeOK ==
  /\ backend \in {"memory", "sqlite"}
  /\ clock \in Nat
  /\ tasks \in Seq(Check)
  /\ phase \in [Check -> Phase]
  /\ port \in [Check -> Listener]
  /\ now \in [Check -> Nat]
  /\ entry \in [Check -> Check \cup {NoEntry}]
  /\ heap \in [Check -> Bucket]
  /\ \A c \in Check : \E l \in Listener : heap[c].tokens <= Capacity(l)
  /\ stored \in [entry : Check \cup {NoEntry}, expiresAt : Nat]
  /\ wait \in [Check -> Nat]
  /\ reply \in [Check -> [remaining : Nat, reset : Nat, retryAfter : Nat]]
  /\ granted \in [Listener -> Nat]
  /\ races \in Nat
  /\ promise \in Nat

Init ==
  /\ backend \in {"memory", "sqlite"}
  /\ clock = 0
  /\ tasks = <<>>
  /\ phase = [c \in Check |-> "idle"]
  /\ port \in [Check -> Listener]
  /\ now = [c \in Check |-> 0]
  /\ entry = [c \in Check |-> NoEntry]
  /\ heap = [c \in Check |->
       [tokens |-> 0, short |-> FALSE, lastRefill |-> 0, resetAt |-> 0]]
  /\ stored = Nothing
  /\ wait = [c \in Check |-> 0]
  /\ reply = [c \in Check |-> [remaining |-> 0, reset |-> 0, retryAfter |-> 0]]
  /\ granted = [l \in Listener |-> 0]
  /\ races = 0
  /\ promise = 0

-----------------------------------------------------------------------------
(* Checks that have looked up another copy than e and not yet stored it.   *)
Rivals(e) ==
  {d \in Check : phase[d] = "looked" /\ (entry[d] = NoEntry \/ entry[d] # e)}

(* check() up to its first await, rateLimitGet included: the map hands out *)
(* the stored object itself, the database a copy of the row.               *)
LookUp(c, e) ==
  /\ phase[c] = "idle"
  /\ phase' = [phase EXCEPT ![c] = "looked"]
  /\ now' = [now EXCEPT ![c] = clock]
  /\ entry' = [entry EXCEPT ![c] = e]
  /\ tasks' = Append(tasks, c)
  /\ races' = races + Cardinality(Rivals(e))
  /\ UNCHANGED <<backend, clock, port, wait, reply, granted, promise>>

FindNone(c) ==
  /\ ~Live
  /\ LookUp(c, NoEntry)
  /\ stored' = IF backend = "memory" THEN Nothing ELSE stored
  /\ UNCHANGED heap

FindObject(c) ==
  /\ Live
  /\ backend = "memory"
  /\ LookUp(c, stored.entry)
  /\ UNCHANGED <<heap, stored>>

FindRow(c) ==
  /\ Live
  /\ backend = "sqlite"
  /\ LookUp(c, c)
  /\ heap' = [heap EXCEPT ![c] = heap[stored.entry]]
  /\ UNCHANGED stored

(* The next piece of the check at the head of the queue.                   *)
Turn(c) == tasks # <<>> /\ Head(tasks) = c

(* From the lookup to rateLimitSet: refill, spend if there is a token.     *)
Held(c)  == IF entry[c] = NoEntry THEN c ELSE entry[c]
Found(c) == IF entry[c] = NoEntry THEN FullBucket(port[c], now[c])
                                  ELSE heap[entry[c]]
Level(c) == Refilled(port[c], Found(c), now[c])
Shorts(c) == Rounded(port[c], Found(c), now[c])

Store(c, bucket) ==
  /\ heap' = [heap EXCEPT ![Held(c)] = bucket]
  /\ entry' = [entry EXCEPT ![c] = Held(c)]
  /\ stored' = [entry |-> Held(c), expiresAt |-> clock + Ttl]
  /\ tasks' = Append(Tail(tasks), c)
  /\ UNCHANGED <<backend, clock, port, now, reply, races>>

Grant(c) ==
  /\ Turn(c)
  /\ phase[c] = "looked"
  /\ \E short \in Shorts(c) :
       /\ Units(Level(c), short) >= Minute
       /\ \E q \in Ceilings(Capacity(port[c]) - (Level(c) - Minute), Rpm[port[c]]) :
            Store(c, Spent(Found(c), Level(c), short, now[c], now[c] + q))
  /\ phase' = [phase EXCEPT ![c] = "granting"]
  /\ granted' = [granted EXCEPT ![port[c]] = @ + 1]
  /\ promise' = 0
  /\ UNCHANGED wait

(* The float is below a token, so the wait is not zero.                    *)
Deny(c) ==
  /\ Turn(c)
  /\ phase[c] = "looked"
  /\ \E short \in Shorts(c) :
       /\ Units(Level(c), short) < Minute
       /\ Store(c, Kept(Found(c), Level(c), short, now[c]))
  /\ phase' = [phase EXCEPT ![c] = "denying"]
  /\ \E q \in Ceilings(Minute - Level(c), Rpm[port[c]]) \ {0} :
       /\ wait' = [wait EXCEPT ![c] = q]
       /\ promise' = IF promise = 0 THEN now[c] + Seconds(q) ELSE promise
  /\ UNCHANGED granted

(* After rateLimitSet: the result reads the bucket object once more, and   *)
(* the middleware sets the headers and calls next() or answers 429.        *)
Reply(c) ==
  /\ Turn(c)
  /\ phase[c] \in {"granting", "denying"}
  /\ LET allowed == phase[c] = "granting"
         bucket  == heap[entry[c]]
     IN  /\ phase' = [phase EXCEPT ![c] = IF allowed THEN "allowed"
                                                     ELSE "denied"]
         /\ reply' = [reply EXCEPT ![c] =
              [remaining  |-> IF allowed
                             THEN Units(bucket.tokens, bucket.short) \div Minute
                             ELSE 0,
               reset      |-> Seconds(bucket.resetAt),
               retryAfter |-> Seconds(wait[c])]]
  /\ tasks' = Tail(tasks)
  /\ UNCHANGED <<backend, clock, port, now, entry, heap, stored, wait, granted,
                 races, promise>>

(* SQLiteStore.cleanupExpiredEntries: rows whose reset time has passed.    *)
Cleanup ==
  /\ backend = "sqlite"
  /\ stored.entry # NoEntry
  /\ heap[stored.entry].resetAt < clock
  /\ stored' = Nothing
  /\ UNCHANGED <<backend, clock, tasks, phase, port, now, entry, heap, wait,
                 reply, granted, races, promise>>

Tick ==
  /\ clock < MaxClock
  /\ clock' = clock + 1
  /\ UNCHANGED <<backend, tasks, phase, port, now, entry, heap, stored, wait,
                 reply, granted, races, promise>>

Next ==
  \/ Tick
  \/ Cleanup
  \/ \E c \in Check :
       \/ FindNone(c) \/ FindObject(c) \/ FindRow(c)
       \/ Grant(c) \/ Deny(c) \/ Reply(c)

Spec == Init /\ [][Next]_vars

-----------------------------------------------------------------------------
(* What the next check at listener l would find in the bucket.             *)
Available(l) ==
  IF Live THEN Refilled(l, heap[stored.entry], clock) ELSE Capacity(l)

(* A listener that has its store to itself never lets more through than its*)
(* capacity and the refill since the start, and what it let through is     *)
(* missing from the bucket, through expiry, cleanup and denied checks.  The*)
(* only excess is one token for each overlap of checks on different copies *)
(* of the bucket: with the map, only while a new bucket is being made; with*)
(* the database, whenever checks overlap.                                  *)
(* Code: check() as a whole; docs/AUTHENTICATION.md, "Up to `capacity`     *)
(* requests can be made instantly" and "Tokens are added at `refillRate`". *)
GrantsBounded ==
  \A l \in Listener :
    granted[l] * Minute + Available(l)
      <= Capacity(l) + Rpm[l] * clock + races * Minute

(* X-RateLimit-Reset is when the bucket is full again, at most a tick late:*)
(* the stored resetAt stays right through checks that are denied, which do *)
(* not set it.  (It also makes Cleanup harmless.)                          *)
(* Code: entry.resetAt in check(); docs/AUTHENTICATION.md, "Unix timestamp *)
(* when bucket fully refills".                                             *)
ResetAtTrue ==
  Live => LET bucket == heap[stored.entry]
              l      == port[stored.entry]
          IN  /\ bucket.tokens + Rpm[l] * (bucket.resetAt - bucket.lastRefill)
                   >= Capacity(l)
              /\ bucket.tokens + Rpm[l] * (bucket.resetAt - 1 - bucket.lastRefill)
                   <= Capacity(l)

(* A client that has waited longer than its Retry-After says, if only by a *)
(* tick, and nobody else took the token meanwhile, is let through, however *)
(* often it asked in between.  (On the tick itself the sum of the refills  *)
(* may be short of a token.)                                               *)
(* Code: waitMs in check(), retryAfter in createRateLimitMiddleware.       *)
RetryAfterEnough ==
  [][\A c \in Check :
       phase[c] = "looked" /\ phase'[c] = "denying" =>
         promise = 0 \/ now[c] <= promise \/ races > 0]_vars
=============================================================================
