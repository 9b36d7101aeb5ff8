--------------------------- MODULE CircuitBreaker ---------------------------
(***************************************************************************)
(* The per-provider circuit breaker of src/src/fallback/circuit-breaker.ts *)
(* as operators on a breaker record: each operator is the whole of one     *)
(* method and returns the record the method leaves behind.  The methods    *)
(* are synchronous, so a caller applies one of them in a single step.      *)
(* `now` is the value Date.now() returns inside the method.                *)
(***************************************************************************)
EXTENDS Integers

CONSTANTS
  FailureThreshold,   \* consecutive failures that trip the breaker
  ResetTimeout,       \* time it stays open before it may be probed
  HalfOpenRequests    \* test requests allowed while half-open

(* circuitBreakerSchema (core/types.ts) accepts a positive threshold, a    *)
(* non-negative timeout and a positive number of probes.                   *)
ASSUME BreakerAssumption ==
  /\ FailureThreshold \in Nat \ {0}
  /\ ResetTimeout \in Nat
  /\ HalfOpenRequests \in Nat \ {0}

CircuitState == {"closed", "open", "half-open"}

Breaker == [state               : CircuitState,
            consecutiveFailures : Nat,
            halfOpenSuccesses   : Nat,
            halfOpenAttempts    : Nat,
            openedAt            : Nat]

NewBreaker == [state |-> "closed", consecutiveFailures |-> 0,
               halfOpenSuccesses |-> 0, halfOpenAttempts |-> 0, openedAt |-> 0]

-----------------------------------------------------------------------------
(* transitionTo.  It returns at once when the breaker already is in the    *)
(* new state: only ToOpen can meet that, and then openedAt keeps its value.*)

ToHalfOpen(cb) == [cb EXCEPT !.state = "half-open",
                             !.halfOpenSuccesses = 0, !.halfOpenAttempts = 0]

ToClosed(cb) == [cb EXCEPT !.state = "closed", !.consecutiveFailures = 0,
                           !.halfOpenSuccesses = 0, !.halfOpenAttempts = 0]

\* Mutant: the probe accounting of the last half-open episode stays behind.
ToOpenKeepsProbes(cb, now) ==
  IF cb.state = "open" THEN cb
                       ELSE [cb EXCEPT !.state = "open", !.openedAt = now]

ToOpen(cb, now) ==
  IF cb.state = "open"
    THEN cb
    ELSE [cb EXCEPT !.state = "open", !.openedAt = now,
                    !.halfOpenSuccesses = 0, !.halfOpenAttempts = 0]

-----------------------------------------------------------------------------
ResetDue(cb, now) == cb.state = "open" /\ now - cb.openedAt >= ResetTimeout

(* getState: the only way out of "open"; it runs when somebody looks.      *)
GetState(cb, now) == IF ResetDue(cb, now) THEN ToHalfOpen(cb) ELSE cb

(* allowRequest, its answer and the breaker it leaves: in half-open the    *)
(* caller that is let through takes one of the HalfOpenRequests slots.     *)
Allows(cb, now) ==
  LET seen == GetState(cb, now)
  IN  \/ seen.state = "closed"
      \/ seen.state = "half-open" /\ seen.halfOpenAttempts < HalfOpenRequests

AllowRequest(cb, now) ==
  LET seen == GetState(cb, now)
  IN  IF seen.state = "half-open" /\ Allows(cb, now)
        THEN [seen EXCEPT !.halfOpenAttempts = @ + 1]
        ELSE seen

\* Mutant: a probe's success is not counted.
RecordSuccessUncounted(cb) == [cb EXCEPT !.consecutiveFailures = 0]

\* Mutant: any success closes the breaker, an older call's included.
RecordSuccessCloses(cb) == ToClosed(cb)

(* recordSuccess.  It looks at the raw state: an open breaker whose reset  *)
(* is due still counts as open here.                                       *)
RecordSuccess(cb) ==
  IF cb.state = "half-open"
    THEN IF cb.halfOpenSuccesses + 1 >= HalfOpenRequests
           THEN ToClosed(cb)
           ELSE [cb EXCEPT !.halfOpenSuccesses = @ + 1]
    ELSE [cb EXCEPT !.consecutiveFailures = 0]

(* recordFailure: any failure re-opens a half-open breaker.                *)
RecordFailure(cb, now) ==
  IF cb.state = "half-open"
    THEN ToOpen(cb, now)
    ELSE LET counted == [cb EXCEPT !.consecutiveFailures = @ + 1]
         IN  IF counted.consecutiveFailures >= FailureThreshold
               THEN ToOpen(counted, now)
               ELSE counted

-----------------------------------------------------------------------------
(* What a breaker's fields say about each other: closed means below the    *)
(* threshold, probes are only counted while half-open, a half-open breaker *)
(* has let at most HalfOpenRequests probes in and has not yet seen enough  *)
(* successes to close, and no breaker was opened in the future.            *)
Sound(cb, now) ==
  /\ cb.openedAt <= now
  /\ cb.state = "closed" => cb.consecutiveFailures < FailureThreshold
  /\ cb.state # "half-open" =>
       cb.halfOpenAttempts = 0 /\ cb.halfOpenSuccesses = 0
  /\ cb.halfOpenAttempts <= HalfOpenRequests
  /\ cb.halfOpenSuccesses < HalfOpenRequests

(* The only ways a breaker changes its state: it trips at the threshold, it*)
(* is probed once ResetTimeout has passed since it opened, and the probes  *)
(* decide: any failure re-opens it, the last missing success closes it.    *)
Moves(cb, next, now) ==
  next.state # cb.state =>
    \/ /\ cb.state = "closed" /\ next.state = "open"
       /\ next.consecutiveFailures >= FailureThreshold
       /\ next.openedAt = now
    \/ /\ cb.state = "open" /\ next.state = "half-open"
       /\ now - cb.openedAt >= ResetTimeout
    \/ /\ cb.state = "half-open" /\ next.state = "open"
       /\ next.openedAt = now
    \/ /\ cb.state = "half-open" /\ next.state = "closed"
       /\ cb.halfOpenSuccesses + 1 = HalfOpenRequests
=============================================================================
