---------------------------- MODULE FallbackChain ----------------------------
(***************************************************************************)
(* executeFallbackChain (src/src/fallback/chain.ts) run by several         *)
(* requests at once over the shared circuit breakers, with the outcomes    *)
(* callProvider and callProviderStream (src/src/proxy/provider.ts) can     *)
(* bring and the timeout budget of src/src/core/timeout.ts.                *)
(*                                                                         *)
(* JavaScript runs a callback to its next await without interruption.      *)
(* `running` is the request whose callback holds the event loop: while it  *)
(* is set nobody else moves, but the wall clock may still turn between two *)
(* reads of Date.now() in the same callback.                               *)
(***************************************************************************)
EXTENDS CircuitBreaker, FiniteSets

CONSTANTS
  Request,         \* executions of the chain
  ProviderCount,   \* length of the fallback list
  MaxRetries,      \* maxRetries
  BaseBackoff,     \* baseBackoffMs
  Budget,          \* totalMs of each request's timeout budget
  UseBreakers,     \* whether the caller passes a breaker registry
  Statuses,        \* HTTP statuses a provider may answer with
  Faults,          \* other ways a call may fail (see Fault)
  Nobody,          \* no request holds the event loop
  MaxClock         \* bound on the clock (model checking only)

Provider == 1 .. ProviderCount
Fault    == {"network", "malformed", "no_body"}

ASSUME ChainAssumption ==
  /\ ProviderCount \in Nat
  /\ MaxRetries \in Nat
  /\ BaseBackoff \in Nat
  /\ Budget \in Nat
  /\ UseBreakers \in BOOLEAN
  /\ Statuses \subseteq Nat
  /\ Faults \subseteq Fault
  /\ Nobody \notin Request
  /\ MaxClock \in Nat
  /\ IsFiniteSet(Request)

(* The exponential delays are numbers (true for every finite exponent; the *)
(* exponentiation operator itself is opaque to the provers).               *)
ASSUME BackoffAssumption ==
  \A n \in 0 .. MaxRetries : BaseBackoff * 2 ^ n \in Nat

VARIABLES
  clock,        \* Date.now()
  running,      \* the request whose callback is on the stack, or Nobody
  breaker,      \* the registry: one breaker per provider
  pc,           \* where each execution is
  pos,          \* index of the provider it is at
  attempt,      \* the inner loop's counter (0 outside the loop)
  deadline,     \* deadlineAt of its budget
  wakeAt,       \* when its backoff timer fires, 0 without one
  \* Observation only:
  fate          \* how each request ended with each provider

vars == <<clock, running, breaker, pc, pos, attempt, deadline, wakeAt, fate>>

-----------------------------------------------------------------------------
(* classifyError of provider.ts and the errors thrown beside it.           *)

Code == {"auth", "rate_limit", "invalid_request", "model_not_found",
         "overloaded", "server_error", "timeout", "network", "unknown"}

ClassifyStatus(status) ==
  CASE status \in {401, 403} -> "auth"
    [] status = 429          -> "rate_limit"
    [] status = 400          -> "invalid_request"
    [] status = 404          -> "model_not_found"
    [] status \in {503, 529} -> "overloaded"
    [] status >= 500 /\ status \notin {503, 529} -> "server_error"
    [] OTHER                 -> "unknown"

ClassifyFault(fault) ==
  CASE fault = "network"   -> "network"
    [] fault = "no_body"   -> "server_error"
    [] fault = "malformed" -> "unknown"

Retryable(code) ==
  code \in {"rate_limit", "overloaded", "server_error", "timeout", "network"}

(* What a call may throw at this moment.  Past the deadline the budget's   *)
(* signal aborts it: "timeout" while fetch waits, "unknown" (the raw       *)
(* DOMException) while res.json() reads the body.                          *)
Thrown(r) ==
  {ClassifyStatus(s) : s \in Statuses} \cup {ClassifyFault(f) : f \in Faults}
    \cup (IF clock >= deadline[r] THEN {"timeout", "unknown"} ELSE {})

-----------------------------------------------------------------------------
Min2(a, b) == IF a <= b THEN a ELSE b

\* Mutant: a budget that never runs out within the horizon.
DeadlineUnlimited == MaxClock + Budget + 1

(* createTimeoutBudget, hasTime and remaining of core/timeout.ts.          *)
DeadlineAt   == clock + Budget
HasTime(r)   == clock < deadline[r]
Remaining(r) == IF HasTime(r) THEN deadline[r] - clock ELSE 0

(* The delay before the next attempt at the same provider.                 *)
Backoff(r) == Min2(BaseBackoff * 2 ^ attempt[r], Remaining(r))

\* Mutant: one retry too many.
MayRetryOnceMore(r) == attempt[r] <= MaxRetries

(* attempt < maxRetries                                                    *)
MayRetry(r) == attempt[r] < MaxRetries

\* Mutant: the last provider of the list is never reached.
ListEndsEarly(r) == pos[r] >= ProviderCount

(* The outer loop has run past the last provider.                          *)
ListExhausted(r) == pos[r] > ProviderCount

Fate == {"untried",    \* not reached
         "skipped",    \* its breaker said no
         "unused",     \* its breaker said yes, then no time was left to call
         "fatal",      \* a call failed with a non-retryable error
         "exhausted",  \* every attempt failed
         "expired",    \* no time was left for the next attempt
         "answered"}   \* a call succeeded

TypeOK ==
  /\ clock \in Nat
  /\ running \in Request \cup {Nobody}
  /\ breaker \in [Provider -> Breaker]
  /\ pc \in [Request -> {"idle", "provider", "attempt", "calling", "backoff",
                         "done", "failed"}]
  /\ pos \in [Request -> 1 .. ProviderCount + 1]
  /\ attempt \in [Request -> 0 .. MaxRetries]
  /\ deadline \in [Request -> Nat]
  /\ wakeAt \in [Request -> Nat]
  /\ fate \in [Request -> [Provider -> Fate]]

Init ==
  /\ clock = 0
  /\ running = Nobody
  /\ breaker = [p \in Provider |-> NewBreaker]
  /\ pc = [r \in Request |-> "idle"]
  /\ pos = [r \in Request |-> 1]
  /\ attempt = [r \in Request |-> 0]
  /\ deadline = [r \in Request |-> 0]
  /\ wakeAt = [r \in Request |-> 0]
  /\ fate = [r \in Request |-> [p \in Provider |-> "untried"]]

-----------------------------------------------------------------------------
(* A request enters the chain with a fresh budget.                         *)
Start(r) ==
  /\ running = Nobody
  /\ pc[r] = "idle"
  /\ clock + Budget <= MaxClock
  /\ running' = r
  /\ pc' = [pc EXCEPT ![r] = "provider"]
  /\ deadline' = [deadline EXCEPT ![r] = DeadlineAt]
  /\ UNCHANGED <<clock, breaker, pos, attempt, wakeAt, fate>>

(* The request leaves provider pos[r] and turns to the next one.           *)
LeaveProvider(r, how) ==
  /\ running' = r
  /\ pc' = [pc EXCEPT ![r] = "provider"]
  /\ pos' = [pos EXCEPT ![r] = @ + 1]
  /\ attempt' = [attempt EXCEPT ![r] = 0]
  /\ fate' = [fate EXCEPT ![r][pos[r]] = how]

(* Head of the outer loop: the list or the budget is exhausted ...         *)
GiveUp(r) ==
  /\ running = r
  /\ pc[r] = "provider"
  /\ ListExhausted(r) \/ ~HasTime(r)
  /\ running' = Nobody
  /\ pc' = [pc EXCEPT ![r] = "failed"]
  /\ UNCHANGED <<clock, breaker, pos, attempt, deadline, wakeAt, fate>>

(* ... or the breaker turns the request away ...                           *)
SkipProvider(r) ==
  /\ running = r
  /\ pc[r] = "provider"
  /\ ~ListExhausted(r)
  /\ HasTime(r)
  /\ UseBreakers
  /\ ~Allows(breaker[pos[r]], clock)
  /\ breaker' = [breaker EXCEPT ![pos[r]] = AllowRequest(@, clock)]
  /\ LeaveProvider(r, "skipped")
  /\ UNCHANGED <<clock, deadline, wakeAt>>

(* ... or lets it in.                                                      *)
EnterProvider(r) ==
  /\ running = r
  /\ pc[r] = "provider"
  /\ ~ListExhausted(r)
  /\ HasTime(r)
  /\ UseBreakers => Allows(breaker[pos[r]], clock)
  /\ breaker' = IF UseBreakers
                  THEN [breaker EXCEPT ![pos[r]] = AllowRequest(@, clock)]
                  ELSE breaker
  /\ pc' = [pc EXCEPT ![r] = "attempt"]
  /\ UNCHANGED <<clock, running, pos, attempt, deadline, wakeAt, fate>>

(* Head of the inner loop: out of time, or the call is made and awaited.   *)
OutOfTime(r) ==
  /\ running = r
  /\ pc[r] = "attempt"
  /\ ~HasTime(r)
  /\ LeaveProvider(r, IF attempt[r] = 0 THEN "unused" ELSE "expired")
  /\ UNCHANGED <<clock, breaker, deadline, wakeAt>>

Call(r) ==
  /\ running = r
  /\ pc[r] = "attempt"
  /\ HasTime(r)
  /\ running' = Nobody
  /\ pc' = [pc EXCEPT ![r] = "calling"]
  /\ UNCHANGED <<clock, breaker, pos, attempt, deadline, wakeAt, fate>>

(* The awaited call resolves: its answer is returned.                      *)
CallSucceeds(r) ==
  /\ running = Nobody
  /\ pc[r] = "calling"
  /\ breaker' = IF UseBreakers
                  THEN [breaker EXCEPT ![pos[r]] = RecordSuccess(@)]
                  ELSE breaker
  /\ pc' = [pc EXCEPT ![r] = "done"]
  /\ attempt' = [attempt EXCEPT ![r] = 0]
  /\ fate' = [fate EXCEPT ![r][pos[r]] = "answered"]
  /\ UNCHANGED <<clock, running, pos, deadline, wakeAt>>

(* It rejects: the breaker is told first ...                               *)
NoteFailure(r) ==
  /\ running = Nobody
  /\ pc[r] = "calling"
  /\ breaker' = IF UseBreakers
                  THEN [breaker EXCEPT ![pos[r]] = RecordFailure(@, clock)]
                  ELSE breaker

(* ... a fatal error moves on to the next provider ...                     *)
CallFailsFatally(r) ==
  /\ \E code \in Thrown(r) : ~Retryable(code)
  /\ NoteFailure(r)
  /\ LeaveProvider(r, "fatal")
  /\ UNCHANGED <<clock, deadline, wakeAt>>

(* ... a retryable one sleeps before the next attempt ...                  *)
CallFailsThenBacksOff(r) ==
  /\ \E code \in Thrown(r) : Retryable(code)
  /\ NoteFailure(r)
  /\ MayRetry(r)
  /\ pc' = [pc EXCEPT ![r] = "backoff"]
  /\ wakeAt' = [wakeAt EXCEPT ![r] = clock + Backoff(r)]
  /\ UNCHANGED <<clock, running, pos, attempt, deadline, fate>>

(* ... and the last attempt ends the inner loop.                           *)
CallFailsFinally(r) ==
  /\ \E code \in Thrown(r) : Retryable(code)
  /\ NoteFailure(r)
  /\ ~MayRetry(r)
  /\ LeaveProvider(r, "exhausted")
  /\ UNCHANGED <<clock, deadline, wakeAt>>

(* The backoff timer fires, at its time or later.                          *)
Wake(r) ==
  /\ running = Nobody
  /\ pc[r] = "backoff"
  /\ clock >= wakeAt[r]
  /\ running' = r
  /\ pc' = [pc EXCEPT ![r] = "attempt"]
  /\ attempt' = [attempt EXCEPT ![r] = @ + 1]
  /\ wakeAt' = [wakeAt EXCEPT ![r] = 0]
  /\ UNCHANGED <<clock, breaker, pos, deadline, fate>>

(* The admin routes read every breaker's state, which is not a pure read.  *)
ReadStates ==
  /\ running = Nobody
  /\ breaker' = [p \in Provider |-> GetState(breaker[p], clock)]
  /\ UNCHANGED <<clock, running, pc, pos, attempt, deadline, wakeAt, fate>>

Tick ==
  /\ clock < MaxClock
  /\ clock' = clock + 1
  /\ UNCHANGED <<running, breaker, pc, pos, attempt, deadline, wakeAt, fate>>

CallEnds(r) ==
  \/ CallSucceeds(r)
  \/ CallFailsFatally(r)
  \/ CallFailsThenBacksOff(r)
  \/ CallFailsFinally(r)

(* The synchronous steps of the callback that holds the event loop.        *)
Run(r) ==
  \/ GiveUp(r)
  \/ SkipProvider(r)
  \/ EnterProvider(r)
  \/ OutOfTime(r)
  \/ Call(r)

Next ==
  \/ Tick
  \/ ReadStates
  \/ \E r \in Request : Start(r) \/ Run(r) \/ CallEnds(r) \/ Wake(r)

(* Callbacks run to their await, timers fire, time passes, and the budget's*)
(* AbortSignal ends every call that outlives its deadline.  Nothing makes  *)
(* a client send a request or an operator look at the admin routes.        *)
Fairness ==
  /\ WF_vars(Tick)
  /\ \A r \in Request :
       /\ WF_vars(Run(r))
       /\ WF_vars(Wake(r))
       /\ WF_vars(CallEnds(r) /\ clock >= deadline[r])

Spec == Init /\ [][Next]_vars /\ Fairness

-----------------------------------------------------------------------------
(* Every breaker's fields agree with each other (CircuitBreaker!Sound) in  *)
(* every interleaving of chains and admin reads, answers of calls that were*)
(* admitted before the breaker tripped included.                           *)
(* Code: transitionTo, allowRequest, recordSuccess, recordFailure.         *)
BreakersSound == \A p \in Provider : Sound(breaker[p], clock)

(* r was let in at p and its first call there has not ended yet.           *)
FirstCallPending(r, p) ==
  /\ pc[r] \in {"attempt", "calling"}
  /\ pos[r] = p
  /\ attempt[r] = 0

Pending(p) == {r \in Request : FirstCallPending(r, p)}
Unused(p)  == {r \in Request : fate[r][p] = "unused"}

(* No half-open slot disappears: every slot taken in this episode belongs  *)
(* to a success that was counted, to a first call that is still pending,   *)
(* or to a request that ran out of time between taking it and calling.     *)
(* Code: allowRequest takes the slot, recordSuccess and recordFailure give *)
(* the account back; the calls of requests admitted before the breaker     *)
(* tripped, and retries, report to the same breaker in between.            *)
SlotsAccounted ==
  \A p \in Provider : breaker[p].state = "half-open" =>
    breaker[p].halfOpenAttempts <=
      breaker[p].halfOpenSuccesses + Cardinality(Pending(p))
        + Cardinality(Unused(p))

(* What a provider that was left behind must have done.                    *)
Settled == {"skipped", "fatal", "exhausted"}

(* A chain that fails before its deadline has really used up the list: each*)
(* provider was turned away by its breaker, failed fatally, or failed every*)
(* attempt.  Code: the breaks and continues of the two loops.              *)
NoProviderLeftUntried ==
  \A r \in Request : pc[r] = "failed" /\ HasTime(r) =>
    \A p \in Provider : fate[r][p] \in Settled

(* A chain is only ever answered by the provider it is calling, and never  *)
(* fails or goes on after an answer: every provider it left is settled or  *)
(* the budget is gone, and those after it are untouched.                   *)
FailoverInOrder ==
  \A r \in Request : \A p \in Provider :
    /\ p < pos[r] => \/ fate[r][p] \in Settled
                     \/ fate[r][p] \in {"unused", "expired"} /\ ~HasTime(r)
    /\ p > pos[r] => fate[r][p] = "untried"
    /\ p = pos[r] => fate[r][p] = IF pc[r] = "done" THEN "answered"
                                                    ELSE "untried"

(* How the control state of an execution fits together: who holds the event*)
(* loop, which index it stands at, and when the loops were left.           *)
ControlConsistent ==
  \A r \in Request :
    /\ pc[r] \in {"provider", "attempt"} <=> running = r
    /\ pc[r] \in {"attempt", "calling", "backoff", "done"} => ~ListExhausted(r)
    /\ pc[r] = "idle" => pos[r] = 1
    /\ pc[r] \notin {"attempt", "calling", "backoff"} => attempt[r] = 0
    /\ pc[r] = "backoff" => MayRetry(r)
    /\ pc[r] = "failed" => ListExhausted(r) \/ ~HasTime(r)

(* Without a registry no breaker is ever touched.                          *)
RegistryUntouched == UseBreakers \/ breaker = [p \in Provider |-> NewBreaker]

(* The inductive invariant behind the theorems of FallbackChainProofs.     *)
IInv ==
  /\ TypeOK
  /\ BreakersSound
  /\ RegistryUntouched
  /\ ControlConsistent
  /\ FailoverInOrder

(* Breakers only move closed -> open -> half-open -> open or closed, each  *)
(* for its reason (CircuitBreaker!Moves).  In particular an open breaker   *)
(* never closes directly, whatever answers of older calls still arrive.    *)
BreakerMoves == \A p \in Provider : Moves(breaker[p], breaker'[p], clock)
BreakerTransitions == [][BreakerMoves]_vars

(* Every chain that starts ends, answered or failed: no call, no backoff   *)
(* and no breaker can hold it for ever.                                    *)
ChainsEnd ==
  \A r \in Request : pc[r] = "provider" ~> pc[r] \in {"done", "failed"}

-----------------------------------------------------------------------------
(* The chain implements Failover: time, breakers, attempts and timers are  *)
(* hidden, and every step is a step of the abstract chain or a stutter.    *)

Outcome(r) ==
  CASE pc[r] = "idle"   -> "none"
    [] pc[r] = "done"   -> "answered"
    [] pc[r] = "failed" -> "failed"
    [] OTHER            -> "pending"

Late == {r \in Request : pc[r] # "idle" /\ ~HasTime(r)}

Abstract == INSTANCE Failover WITH
  turn    <- pos,
  outcome <- [r \in Request |-> Outcome(r)],
  late    <- Late

(* Providers in order, one outcome, no failure with time and providers     *)
(* left.  Code: the control flow of executeFallbackChain as a whole.       *)
ImplementsFailover == Abstract!Spec

-----------------------------------------------------------------------------
(* Documented behaviour the code does not have.                            *)

(* circuit-breaker.ts:20 "half-open: allow a few test requests": while no  *)
(* probe is out, a half-open breaker lets the next request in.             *)
HalfOpenAdmits ==
  \A p \in Provider :
    breaker[p].state = "half-open" /\ Pending(p) = {} =>
      Allows(breaker[p], clock)
=============================================================================
