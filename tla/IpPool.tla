------------------------------- MODULE IpPool -------------------------------
(***************************************************************************)
(* src/src/network/ip-pool.ts: the address a request leaves from, taken in *)
(* turn from those its provider may use and that are not rate limited.     *)
(* Selections are asked for by AgentFactory.getAgent; marks are set by     *)
(* programs that use the pool.  The strategies without a turn, `random`    *)
(* and `least-recently-used`, are left out.                                *)
(***************************************************************************)
EXTENDS Integers, SequencesExt

CONSTANTS
  Ips,          \* the configured addresses, in order
  Weight,       \* the weight of each
  Allowed,      \* allowed[provider]: the addresses a provider may use
  Strategies,   \* subset of {"round-robin", "weighted-round-robin"}
  MaxTime,
  MaxChoices    \* selections made

ASSUME PoolAssumption ==
  /\ Ips \in Seq(ToSet(Ips)) /\ IsInjective(Ips)
  /\ Weight \in [ToSet(Ips) -> Nat \ {0}]
  /\ \A p \in DOMAIN Allowed : Allowed[p] \subseteq ToSet(Ips)
  /\ Strategies \subseteq {"round-robin", "weighted-round-robin"}

VARIABLES
  strategy,
  poolTime,
  rateLimited,        \* addresses marked
  rateLimitedUntil,
  roundRobinIndex,
  weightedCounter,
  choices,            \* selections made
  pool,               \* what the last one chose from
  turns               \* since the pool last changed, selections of each address

poolVars == <<strategy, poolTime, rateLimited, rateLimitedUntil, roundRobinIndex,
              weightedCounter, choices, pool, turns>>

PoolInit ==
  /\ strategy \in Strategies
  /\ poolTime = 0
  /\ rateLimited = {} /\ rateLimitedUntil = [a \in ToSet(Ips) |-> 0]
  /\ roundRobinIndex = 0 /\ weightedCounter = 0
  /\ choices = 0 /\ pool = <<>> /\ turns = [a \in ToSet(Ips) |-> 0]

Total(f, addresses) == FoldLeft(LAMBDA sum, a : sum + f[a], 0, addresses)
Weights(addresses)  == Total(Weight, addresses)

(* The configured addresses that are in T, in order.                       *)
Among(T) == FoldLeft(LAMBDA kept, a : IF a \in T THEN Append(kept, a) ELSE kept, <<>>, Ips)

(* Each address has as many turns of a cycle as its weight.                *)
WeightedOffByOne(addresses) ==
  LET remaining == weightedCounter % Weights(addresses)
      upTo(i)   == Weights(SubSeq(addresses, 1, i))
      first     == {i \in DOMAIN addresses : upTo(i - 1) <= remaining /\ remaining <= upTo(i)}
  IN  addresses[CHOOSE i \in first : \A j \in first : i <= j]

Weighted(addresses) ==
  LET remaining == weightedCounter % Weights(addresses)
      upTo(i)   == Weights(SubSeq(addresses, 1, i))
  IN  addresses[CHOOSE i \in DOMAIN addresses : upTo(i - 1) <= remaining /\ remaining < upTo(i)]

InTurn(addresses) == addresses[(roundRobinIndex % Len(addresses)) + 1]

(* The marks that have expired among the candidates are cleared first; if  *)
(* every candidate is marked, all are taken.                               *)
SelectIp(provider) ==
  LET candidates == Among(Allowed[provider])
      marked     == rateLimited \ {a \in Allowed[provider] : poolTime >= rateLimitedUntil[a]}
      healthy    == Among(Allowed[provider] \ marked)
      from       == IF healthy # <<>> THEN healthy ELSE candidates
      selected   == IF Len(from) = 1 THEN from[1]
                    ELSE IF strategy = "round-robin" THEN InTurn(from) ELSE Weighted(from)
      counted    == IF from = pool THEN turns ELSE [a \in DOMAIN turns |-> 0]
  IN  /\ choices < MaxChoices /\ candidates # <<>>
      /\ rateLimited' = marked
      /\ roundRobinIndex' = IF strategy = "round-robin" /\ Len(from) > 1
                            THEN (roundRobinIndex + 1) % Len(from) ELSE roundRobinIndex
      /\ weightedCounter' = IF strategy = "round-robin" \/ Len(from) = 1
                            THEN weightedCounter ELSE weightedCounter + 1
      /\ choices' = choices + 1
      /\ pool' = from
      /\ turns' = [counted EXCEPT ![selected] = @ + 1]
      /\ UNCHANGED <<strategy, poolTime, rateLimitedUntil>>

MarkRateLimited(a, duration) ==
  /\ rateLimited' = rateLimited \cup {a}
  /\ rateLimitedUntil' = [rateLimitedUntil EXCEPT ![a] = poolTime + duration]
  /\ UNCHANGED <<strategy, poolTime, roundRobinIndex, weightedCounter, choices, pool, turns>>

ClearRateLimit(a) ==
  /\ rateLimited' = rateLimited \ {a}
  /\ rateLimitedUntil' = [rateLimitedUntil EXCEPT ![a] = 0]
  /\ UNCHANGED <<strategy, poolTime, roundRobinIndex, weightedCounter, choices, pool, turns>>

PoolTick ==
  /\ poolTime < MaxTime
  /\ poolTime' = poolTime + 1
  /\ UNCHANGED <<strategy, rateLimited, rateLimitedUntil, roundRobinIndex,
                 weightedCounter, choices, pool, turns>>

PoolNext ==
  \/ \E p \in DOMAIN Allowed : SelectIp(p)
  \/ \E a \in ToSet(Ips) : MarkRateLimited(a, 1) \/ ClearRateLimit(a)
  \/ PoolTick

PoolSpec == PoolInit /\ [][PoolNext]_poolVars

(***************************************************************************)
(* Properties.                                                             *)
(***************************************************************************)

(* As long as requests choose from the same addresses, whatever the marks  *)
(* and other providers did to the indexes before, each address has had its *)
(* share: after k selections at least its turns in the full cycles and at  *)
(* most those of the cycle begun (ip-pool.ts:141 to 177).                  *)
FairShare ==
  LET share(a) == IF strategy = "round-robin" THEN 1 ELSE Weight[a]
      cycle    == IF strategy = "round-robin" THEN Len(pool) ELSE Weights(pool)
      made     == Total(turns, pool)
  IN  \A a \in ToSet(pool) :
        /\ turns[a] >= share(a) * (made \div cycle)
        /\ turns[a] <= share(a) * ((made + cycle - 1) \div cycle)
=============================================================================
