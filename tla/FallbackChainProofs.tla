------------------------ MODULE FallbackChainProofs ------------------------
(***************************************************************************)
(* FallbackChain's invariants for any number of requests, providers,       *)
(* retries, any budget, backoff, thresholds and timeouts, with or without  *)
(* breakers.  IInv is the inductive invariant; the module's theorems are   *)
(* its consequences.                                                       *)
(***************************************************************************)
EXTENDS FallbackChain, FiniteSetTheorems, TLAPS

-----------------------------------------------------------------------------
(* The circuit breaker: what each of its methods preserves, for every      *)
(* threshold, timeout and number of probes.                                *)

(* A new breaker is sound at any time.                                     *)
LEMMA NewBreakerSound ==
  ASSUME NEW now \in Nat
  PROVE  NewBreaker \in Breaker /\ Sound(NewBreaker, now)
BY BreakerAssumption DEF NewBreaker, Breaker, CircuitState, Sound

(* Time alone does not make a breaker unsound.                             *)
LEMMA SoundLater ==
  ASSUME NEW cb \in Breaker, NEW now \in Nat, Sound(cb, now)
  PROVE  Sound(cb, now + 1)
BY DEF Sound, Breaker

(* getState keeps a breaker sound; it changes nothing or it turns an open  *)
(* breaker whose reset is due into a half-open one without probes.         *)
LEMMA GetStateSound ==
  ASSUME NEW cb \in Breaker, NEW now \in Nat, Sound(cb, now)
  PROVE  /\ GetState(cb, now) \in Breaker
         /\ Sound(GetState(cb, now), now)
         /\ \/ GetState(cb, now) = cb
            \/ /\ ResetDue(cb, now)
               /\ GetState(cb, now).state = "half-open"
               /\ GetState(cb, now).halfOpenAttempts = 0
               /\ GetState(cb, now).halfOpenSuccesses = 0
BY BreakerAssumption
   DEF GetState, ToHalfOpen, ResetDue, Sound, Breaker, CircuitState

(* allowRequest keeps a breaker sound: the slot it hands out exists.       *)
LEMMA AllowRequestSound ==
  ASSUME NEW cb \in Breaker, NEW now \in Nat, Sound(cb, now)
  PROVE  /\ AllowRequest(cb, now) \in Breaker
         /\ Sound(AllowRequest(cb, now), now)
<1> DEFINE seen == GetState(cb, now)
<1>1. seen \in Breaker /\ Sound(seen, now)
  BY GetStateSound
<1>2. CASE seen.state = "half-open" /\ Allows(cb, now)
  <2>1. AllowRequest(cb, now) =
          [seen EXCEPT !.halfOpenAttempts = seen.halfOpenAttempts + 1]
    BY <1>2 DEF AllowRequest
  <2>2. seen.halfOpenAttempts < HalfOpenRequests
    BY <1>2 DEF Allows
  <2> HIDE DEF seen
  <2>. QED
    BY <1>1, <1>2, <2>1, <2>2, BreakerAssumption
    DEF Breaker, CircuitState, Sound
<1>3. CASE ~(seen.state = "half-open" /\ Allows(cb, now))
  BY <1>1, <1>3 DEF AllowRequest
<1>. QED BY <1>2, <1>3

(* recordSuccess keeps a breaker sound: the success that would reach the   *)
(* number of probes closes it instead of being counted.                    *)
LEMMA RecordSuccessSound ==
  ASSUME NEW cb \in Breaker, NEW now \in Nat, Sound(cb, now)
  PROVE  /\ RecordSuccess(cb) \in Breaker
         /\ Sound(RecordSuccess(cb), now)
<1> USE BreakerAssumption DEF Sound, Breaker, CircuitState
<1>1. CASE cb.state # "half-open"
  <2>1. RecordSuccess(cb) = [cb EXCEPT !.consecutiveFailures = 0]
    BY <1>1 DEF RecordSuccess
  <2>. QED BY <1>1, <2>1
<1>2. CASE /\ cb.state = "half-open"
           /\ cb.halfOpenSuccesses + 1 >= HalfOpenRequests
  <2>1. RecordSuccess(cb) = ToClosed(cb)
    BY <1>2 DEF RecordSuccess
  <2>2. ToClosed(cb) \in Breaker
    BY DEF ToClosed
  <2>3. Sound(ToClosed(cb), now)
    BY DEF ToClosed
  <2>. QED BY <2>1, <2>2, <2>3
<1>3. CASE /\ cb.state = "half-open"
           /\ ~(cb.halfOpenSuccesses + 1 >= HalfOpenRequests)
  <2>1. RecordSuccess(cb) =
          [cb EXCEPT !.halfOpenSuccesses = cb.halfOpenSuccesses + 1]
    BY <1>3 DEF RecordSuccess
  <2>2. cb.halfOpenSuccesses + 1 < HalfOpenRequests
    BY <1>3
  <2>. QED BY <1>3, <2>1, <2>2
<1>. QED BY <1>1, <1>2, <1>3

(* transitionTo('open') keeps a breaker sound, tripped or already open.    *)
LEMMA ToOpenSound ==
  ASSUME NEW cb \in Breaker, NEW now \in Nat,
         cb.openedAt <= now,
         cb.state = "open" => cb.halfOpenAttempts = 0 /\ cb.halfOpenSuccesses = 0
  PROVE  ToOpen(cb, now) \in Breaker /\ Sound(ToOpen(cb, now), now)
<1> USE BreakerAssumption DEF ToOpen, Sound, Breaker, CircuitState
<1>1. ToOpen(cb, now) \in Breaker
  OBVIOUS
<1>2. Sound(ToOpen(cb, now), now)
  OBVIOUS
<1>. QED BY <1>1, <1>2

(* recordFailure keeps a breaker sound: the failure that reaches the       *)
(* threshold opens it.                                                     *)
LEMMA RecordFailureSound ==
  ASSUME NEW cb \in Breaker, NEW now \in Nat, Sound(cb, now)
  PROVE  /\ RecordFailure(cb, now) \in Breaker
         /\ Sound(RecordFailure(cb, now), now)
<1> DEFINE counted ==
      [cb EXCEPT !.consecutiveFailures = cb.consecutiveFailures + 1]
<1>1. counted \in Breaker
  BY DEF Breaker
<1>2. CASE cb.state = "half-open"
  <2>1. RecordFailure(cb, now) = ToOpen(cb, now)
    BY <1>2 DEF RecordFailure
  <2>. QED BY <1>2, <2>1, ToOpenSound DEF Sound
<1>3. CASE cb.state # "half-open" /\ counted.consecutiveFailures < FailureThreshold
  <2>1. RecordFailure(cb, now) = counted
    BY <1>1, <1>3, BreakerAssumption DEF RecordFailure, Breaker
  <2>2. Sound(counted, now)
    BY <1>3 DEF Sound, Breaker
  <2>. QED BY <1>1, <2>1, <2>2
<1>4. CASE cb.state # "half-open" /\ ~(counted.consecutiveFailures < FailureThreshold)
  <2>1. RecordFailure(cb, now) = ToOpen(counted, now)
    BY <1>1, <1>4, BreakerAssumption DEF RecordFailure, Breaker
  <2>2. /\ counted.openedAt = cb.openedAt
        /\ counted.state = cb.state
        /\ counted.halfOpenAttempts = cb.halfOpenAttempts
        /\ counted.halfOpenSuccesses = cb.halfOpenSuccesses
    BY DEF Breaker
  <2>3. ToOpen(counted, now) \in Breaker /\ Sound(ToOpen(counted, now), now)
    <3> HIDE DEF counted
    <3>. QED BY <1>1, <2>2, ToOpenSound DEF Sound
  <2>. QED BY <2>1, <2>3
<1>. QED BY <1>2, <1>3, <1>4

-----------------------------------------------------------------------------
(* getState and allowRequest only ever probe an open breaker.              *)
LEMMA AllowRequestMoves ==
  ASSUME NEW cb \in Breaker, NEW now \in Nat, Sound(cb, now)
  PROVE  /\ Moves(cb, GetState(cb, now), now)
         /\ Moves(cb, AllowRequest(cb, now), now)
<1>1. AllowRequest(cb, now).state = GetState(cb, now).state
  <2>1. GetState(cb, now) \in Breaker
    BY GetStateSound
  <2>. QED BY <2>1 DEF AllowRequest, Breaker
<1>. QED
  BY <1>1, GetStateSound DEF Moves, ResetDue, Breaker

(* recordSuccess only closes a half-open breaker, with its last probe.     *)
LEMMA RecordSuccessMoves ==
  ASSUME NEW cb \in Breaker, NEW now \in Nat, Sound(cb, now)
  PROVE  Moves(cb, RecordSuccess(cb), now)
BY BreakerAssumption
DEF RecordSuccess, ToClosed, Moves, Sound, Breaker, CircuitState

(* recordFailure only opens a breaker, at the threshold or while half-open.*)
LEMMA RecordFailureMoves ==
  ASSUME NEW cb \in Breaker, NEW now \in Nat, Sound(cb, now)
  PROVE  Moves(cb, RecordFailure(cb, now), now)
BY BreakerAssumption
DEF RecordFailure, ToOpen, Moves, Sound, Breaker, CircuitState

(* What each method does to the probe accounting.  A slot is taken one at a*)
(* time and only by allowRequest; in half-open a success is counted unless *)
(* it closes the breaker, and a failure ends the episode.                  *)
LEMMA ProbeAccounting ==
  ASSUME NEW cb \in Breaker, NEW now \in Nat, Sound(cb, now)
  PROVE  /\ AllowRequest(cb, now).state = "half-open" =>
              \/ /\ AllowRequest(cb, now).halfOpenAttempts <= 1
                 /\ AllowRequest(cb, now).halfOpenSuccesses = 0
              \/ /\ cb.state = "half-open"
                 /\ AllowRequest(cb, now).halfOpenAttempts
                      <= cb.halfOpenAttempts + 1
                 /\ AllowRequest(cb, now).halfOpenSuccesses
                      = cb.halfOpenSuccesses
         /\ ~Allows(cb, now) /\ AllowRequest(cb, now).state = "half-open" =>
              AllowRequest(cb, now) = cb
         /\ RecordSuccess(cb).state = "half-open" =>
              /\ cb.state = "half-open"
              /\ RecordSuccess(cb).halfOpenAttempts = cb.halfOpenAttempts
              /\ RecordSuccess(cb).halfOpenSuccesses
                   = cb.halfOpenSuccesses + 1
         /\ RecordFailure(cb, now).state # "half-open"
<1> DEFINE seen == GetState(cb, now)
<1>1. seen \in Breaker /\ (seen = cb \/ /\ seen.halfOpenAttempts = 0
                                        /\ seen.halfOpenSuccesses = 0)
  BY GetStateSound
<1>2. \/ AllowRequest(cb, now) = seen
      \/ /\ seen.state = "half-open"
         /\ AllowRequest(cb, now) =
               [seen EXCEPT !.halfOpenAttempts = seen.halfOpenAttempts + 1]
  BY DEF AllowRequest
<1>3. ~Allows(cb, now) /\ AllowRequest(cb, now).state = "half-open" =>
        AllowRequest(cb, now) = cb
  <2> HAVE ~Allows(cb, now) /\ AllowRequest(cb, now).state = "half-open"
  <2>1. AllowRequest(cb, now) = seen
    BY DEF AllowRequest
  <2>2. seen.halfOpenAttempts >= HalfOpenRequests
    BY <1>1, <2>1, BreakerAssumption DEF Allows, Breaker
  <2>. QED BY <1>1, <2>1, <2>2, BreakerAssumption
<1>4. AllowRequest(cb, now).state = "half-open" =>
        \/ /\ AllowRequest(cb, now).halfOpenAttempts <= 1
           /\ AllowRequest(cb, now).halfOpenSuccesses = 0
        \/ /\ cb.state = "half-open"
           /\ AllowRequest(cb, now).halfOpenAttempts <= cb.halfOpenAttempts + 1
           /\ AllowRequest(cb, now).halfOpenSuccesses = cb.halfOpenSuccesses
  <2> HIDE DEF seen
  <2>. QED BY <1>1, <1>2 DEF Breaker
<1>5. RecordSuccess(cb).state = "half-open" =>
        /\ cb.state = "half-open"
        /\ RecordSuccess(cb).halfOpenAttempts = cb.halfOpenAttempts
        /\ RecordSuccess(cb).halfOpenSuccesses = cb.halfOpenSuccesses + 1
  BY DEF RecordSuccess, ToClosed, Breaker
<1>6. RecordFailure(cb, now).state # "half-open"
  BY DEF RecordFailure, ToOpen, Breaker, CircuitState
<1>. QED BY <1>3, <1>4, <1>5, <1>6

-----------------------------------------------------------------------------
USE ChainAssumption DEF Provider

(* The chain.  First the helpers of its actions.                           *)

(* A backoff is a number.                                                  *)
LEMMA BackoffType ==
  ASSUME TypeOK, NEW r \in Request
  PROVE  Backoff(r) \in Nat
<1>1. attempt[r] \in 0 .. MaxRetries /\ clock \in Nat /\ deadline[r] \in Nat
  BY DEF TypeOK
<1>2. BaseBackoff * 2 ^ attempt[r] \in Nat
  BY <1>1, BackoffAssumption
<1>3. Remaining(r) \in Nat
  BY <1>1 DEF Remaining, HasTime
<1>. QED BY <1>2, <1>3 DEF Backoff, Min2

(* What the registry may become in one step: nothing, or one method on one *)
(* provider's breaker, which keeps it typed and sound.                     *)
LEMMA BreakerStep ==
  ASSUME TypeOK, BreakersSound, NEW p \in Provider,
         NEW cb \in Breaker, Sound(cb, clock),
         \/ breaker' = breaker
         \/ breaker' = [breaker EXCEPT ![p] = cb],
         clock' = clock
  PROVE  breaker' \in [Provider -> Breaker] /\ BreakersSound'
BY DEF TypeOK, BreakersSound

(* The breaker operations the actions use, at a provider of the list.      *)
LEMMA BreakerMethods ==
  ASSUME TypeOK, BreakersSound, NEW p \in Provider
  PROVE  /\ GetState(breaker[p], clock) \in Breaker
         /\ Sound(GetState(breaker[p], clock), clock)
         /\ AllowRequest(breaker[p], clock) \in Breaker
         /\ Sound(AllowRequest(breaker[p], clock), clock)
         /\ RecordSuccess(breaker[p]) \in Breaker
         /\ Sound(RecordSuccess(breaker[p]), clock)
         /\ RecordFailure(breaker[p], clock) \in Breaker
         /\ Sound(RecordFailure(breaker[p], clock), clock)
<1>1. breaker[p] \in Breaker /\ clock \in Nat /\ Sound(breaker[p], clock)
  BY DEF TypeOK, BreakersSound
<1>. QED
  BY <1>1, GetStateSound, AllowRequestSound, RecordSuccessSound,
     RecordFailureSound

-----------------------------------------------------------------------------
(* The initial state satisfies the invariant.                              *)
LEMMA InitIInv == Init => IInv
<1> SUFFICES ASSUME Init PROVE IInv
  OBVIOUS
<1>1. TypeOK
  <2>1. NewBreaker \in Breaker
    BY NewBreakerSound
  <2>. QED BY <2>1 DEF Init, TypeOK, Fate
<1>2. BreakersSound
  BY NewBreakerSound DEF Init, BreakersSound
<1>3. ControlConsistent
  BY DEF Init, ControlConsistent, ListExhausted, MayRetry
<1>4. FailoverInOrder
  BY DEF Init, FailoverInOrder
<1>5. RegistryUntouched
  BY DEF Init, RegistryUntouched
<1>. QED BY <1>1, <1>2, <1>3, <1>4, <1>5 DEF IInv

(* The breakers stay typed and sound.                                      *)
LEMMA NextBreakers ==
  ASSUME IInv, [Next]_vars
  PROVE  breaker' \in [Provider -> Breaker] /\ BreakersSound'
<1> USE DEF IInv
<1>1. CASE Tick
  BY <1>1, SoundLater DEF Tick, BreakersSound, TypeOK
<1>2. CASE ReadStates
  <2>1. \A p \in Provider : /\ GetState(breaker[p], clock) \in Breaker
                            /\ Sound(GetState(breaker[p], clock), clock)
    BY BreakerMethods
  <2>2. /\ breaker' = [p \in Provider |-> GetState(breaker[p], clock)]
        /\ clock' = clock
    BY <1>2 DEF ReadStates
  <2>. QED BY <2>1, <2>2 DEF BreakersSound
<1>3. ASSUME NEW r \in Request, SkipProvider(r) \/ EnterProvider(r)
      PROVE  breaker' \in [Provider -> Breaker] /\ BreakersSound'
  <2>1. pos[r] \in Provider
    BY <1>3 DEF TypeOK, SkipProvider, EnterProvider, ListExhausted
  <2>2. clock' = clock /\ \/ breaker' = breaker
                          \/ breaker' = [breaker EXCEPT ![pos[r]] =
                                           AllowRequest(breaker[pos[r]], clock)]
    BY <1>3 DEF SkipProvider, EnterProvider
  <2>. QED BY <2>1, <2>2, BreakerMethods, BreakerStep
<1>4. ASSUME NEW r \in Request, CallEnds(r)
      PROVE  breaker' \in [Provider -> Breaker] /\ BreakersSound'
  <2>1. pos[r] \in Provider
    BY <1>4 DEF TypeOK, ControlConsistent, ListExhausted, CallEnds,
       CallSucceeds, CallFailsFatally, CallFailsThenBacksOff, CallFailsFinally,
       NoteFailure
  <2>2. clock' = clock /\ \/ breaker' = breaker
                          \/ breaker' = [breaker EXCEPT ![pos[r]] =
                                           RecordSuccess(breaker[pos[r]])]
                          \/ breaker' = [breaker EXCEPT ![pos[r]] =
                                           RecordFailure(breaker[pos[r]], clock)]
    BY <1>4 DEF CallEnds, CallSucceeds, CallFailsFatally,
       CallFailsThenBacksOff, CallFailsFinally, NoteFailure
  <2>. QED BY <2>1, <2>2, BreakerMethods, BreakerStep
<1>5. CASE UNCHANGED <<clock, breaker>>
  BY <1>5 DEF TypeOK, BreakersSound
<1>6. ASSUME NEW r \in Request, Start(r) \/ GiveUp(r) \/ OutOfTime(r)
                                  \/ Call(r) \/ Wake(r)
      PROVE  UNCHANGED <<clock, breaker>>
  BY <1>6 DEF Start, GiveUp, OutOfTime, Call, Wake
<1>. QED
  BY <1>1, <1>2, <1>3, <1>4, <1>5, <1>6 DEF Next, Run, vars

(* Without a registry the breakers stay as they were made.                 *)
LEMMA NextRegistry ==
  ASSUME IInv, [Next]_vars
  PROVE  RegistryUntouched'
<1> SUFFICES ASSUME ~UseBreakers PROVE breaker' = breaker
  BY DEF IInv, RegistryUntouched
<1>1. CASE ReadStates
  BY <1>1 DEF IInv, RegistryUntouched, ReadStates, NewBreaker, GetState, ResetDue
<1>. QED
  BY <1>1
  DEF Next, vars, Tick, Start, Run, GiveUp, SkipProvider, EnterProvider,
      OutOfTime, Call, CallEnds, CallSucceeds, CallFailsFatally,
      CallFailsThenBacksOff, CallFailsFinally, NoteFailure, Wake

-----------------------------------------------------------------------------
(* Leaving a provider keeps the loop variables typed.                      *)
LEMMA LeaveType ==
  ASSUME TypeOK, NEW r \in Request, NEW how \in Fate,
         ~ListExhausted(r), LeaveProvider(r, how)
  PROVE  /\ running' \in Request \cup {Nobody}
         /\ pc' \in [Request -> {"idle", "provider", "attempt", "calling",
                                 "backoff", "done", "failed"}]
         /\ pos' \in [Request -> 1 .. ProviderCount + 1]
         /\ attempt' \in [Request -> 0 .. MaxRetries]
         /\ fate' \in [Request -> [Provider -> Fate]]
<1>1. pos[r] \in Provider
  BY DEF TypeOK, ListExhausted
<1>2. fate' = [fate EXCEPT ![r] = [fate[r] EXCEPT ![pos[r]] = how]]
  BY DEF LeaveProvider
<1>3. [fate[r] EXCEPT ![pos[r]] = how] \in [Provider -> Fate]
  BY <1>1 DEF TypeOK
<1>4. fate' \in [Request -> [Provider -> Fate]]
  BY <1>2, <1>3 DEF TypeOK
<1>5. pos' \in [Request -> 1 .. ProviderCount + 1]
  BY <1>1 DEF TypeOK, LeaveProvider
<1>. QED BY <1>4, <1>5 DEF TypeOK, LeaveProvider

(* The types of all variables are kept.                                    *)
LEMMA NextType ==
  ASSUME IInv, [Next]_vars
  PROVE  TypeOK'
<1> USE DEF IInv
<1>1. breaker' \in [Provider -> Breaker]
  BY NextBreakers
<1>2. CASE Tick
  BY <1>1, <1>2 DEF Tick, TypeOK
<1>3. CASE ReadStates
  BY <1>1, <1>3 DEF ReadStates, TypeOK
<1>4. ASSUME NEW r \in Request, Start(r) PROVE TypeOK'
  BY <1>1, <1>4 DEF Start, TypeOK, DeadlineAt
<1>5. ASSUME NEW r \in Request, GiveUp(r) PROVE TypeOK'
  BY <1>1, <1>5 DEF GiveUp, TypeOK
<1>6. ASSUME NEW r \in Request, SkipProvider(r) PROVE TypeOK'
  BY <1>1, <1>6, LeaveType DEF SkipProvider, TypeOK, Fate
<1>7. ASSUME NEW r \in Request, EnterProvider(r) PROVE TypeOK'
  BY <1>1, <1>7 DEF EnterProvider, TypeOK
<1>8. ASSUME NEW r \in Request, OutOfTime(r) PROVE TypeOK'
  <2>1. ~ListExhausted(r)
    BY <1>8 DEF OutOfTime, ControlConsistent
  <2>2. (IF attempt[r] = 0 THEN "unused" ELSE "expired") \in Fate
    BY DEF Fate
  <2>. QED BY <1>1, <1>8, <2>1, <2>2, LeaveType DEF OutOfTime, TypeOK
<1>9. ASSUME NEW r \in Request, Call(r) PROVE TypeOK'
  BY <1>1, <1>9 DEF Call, TypeOK
<1>10. ASSUME NEW r \in Request, CallSucceeds(r) PROVE TypeOK'
  <2>1. pos[r] \in Provider
    BY <1>10 DEF CallSucceeds, ControlConsistent, ListExhausted, TypeOK
  <2>2. [fate[r] EXCEPT ![pos[r]] = "answered"] \in [Provider -> Fate]
    BY <2>1 DEF TypeOK, Fate
  <2>3. fate' = [fate EXCEPT ![r] = [fate[r] EXCEPT ![pos[r]] = "answered"]]
    BY <1>10 DEF CallSucceeds
  <2>4. fate' \in [Request -> [Provider -> Fate]]
    BY <2>2, <2>3 DEF TypeOK
  <2>. QED BY <1>1, <1>10, <2>4 DEF CallSucceeds, TypeOK
<1>11. ASSUME NEW r \in Request, CallFailsFatally(r) PROVE TypeOK'
  <2>1. ~ListExhausted(r)
    BY <1>11 DEF CallFailsFatally, NoteFailure, ControlConsistent
  <2>2. "fatal" \in Fate
    BY DEF Fate
  <2>. QED BY <1>1, <1>11, <2>1, <2>2, LeaveType DEF CallFailsFatally, TypeOK
<1>12. ASSUME NEW r \in Request, CallFailsThenBacksOff(r) PROVE TypeOK'
  <2>1. Backoff(r) \in Nat
    BY BackoffType
  <2>. QED BY <1>1, <1>12, <2>1 DEF CallFailsThenBacksOff, TypeOK
<1>13. ASSUME NEW r \in Request, CallFailsFinally(r) PROVE TypeOK'
  <2>1. ~ListExhausted(r)
    BY <1>13 DEF CallFailsFinally, NoteFailure, ControlConsistent
  <2>2. "exhausted" \in Fate
    BY DEF Fate
  <2>. QED BY <1>1, <1>13, <2>1, <2>2, LeaveType DEF CallFailsFinally, TypeOK
<1>14. ASSUME NEW r \in Request, Wake(r) PROVE TypeOK'
  <2>1. attempt[r] + 1 \in 0 .. MaxRetries
    BY <1>14 DEF Wake, ControlConsistent, MayRetry, TypeOK
  <2>. QED BY <1>1, <1>14, <2>1 DEF Wake, TypeOK
<1>15. CASE UNCHANGED vars
  BY <1>15 DEF vars, TypeOK
<1>. QED
  BY <1>2, <1>3, <1>4, <1>5, <1>6, <1>7, <1>8, <1>9, <1>10, <1>11, <1>12,
     <1>13, <1>14, <1>15 DEF Next, Run, CallEnds

-----------------------------------------------------------------------------
(* Which request an action moves, and what it leaves alone: the other      *)
(* executions keep their place, and only a start sets a deadline.          *)
LEMMA OthersKeepPlace ==
  ASSUME IInv, NEW r \in Request, Start(r) \/ Run(r) \/ CallEnds(r) \/ Wake(r)
  PROVE  /\ clock' = clock
         /\ running \in {Nobody, r}
         /\ running' \in {Nobody, r}
         /\ \A q \in Request \ {r} :
              /\ pc'[q] = pc[q]
              /\ pos'[q] = pos[q]
              /\ attempt'[q] = attempt[q]
              /\ deadline'[q] = deadline[q]
              /\ fate'[q] = fate[q]
BY DEF IInv, TypeOK, Start, Run, GiveUp, SkipProvider, EnterProvider, OutOfTime,
   Call, CallEnds, CallSucceeds, CallFailsFatally, CallFailsThenBacksOff,
   CallFailsFinally, NoteFailure, LeaveProvider, Wake

(* The control state of one execution.                                     *)
Control(r) ==
  /\ pc[r] \in {"provider", "attempt"} <=> running = r
  /\ pc[r] \in {"attempt", "calling", "backoff", "done"} => ~ListExhausted(r)
  /\ pc[r] = "idle" => pos[r] = 1
  /\ pc[r] \notin {"attempt", "calling", "backoff"} => attempt[r] = 0
  /\ pc[r] = "backoff" => MayRetry(r)
  /\ pc[r] = "failed" => ListExhausted(r) \/ ~HasTime(r)

(* The moving execution arrives in a consistent control state.             *)
LEMMA MoverControl ==
  ASSUME IInv, TypeOK', NEW r \in Request,
         Start(r) \/ Run(r) \/ CallEnds(r) \/ Wake(r)
  PROVE  Control(r)'
<1> USE DEF IInv, TypeOK, Control, ControlConsistent, ListExhausted, MayRetry,
            HasTime
<1>1. CASE Start(r)
  BY <1>1 DEF Start
<1>2. CASE GiveUp(r)
  BY <1>2 DEF GiveUp
<1>3. CASE SkipProvider(r)
  BY <1>3 DEF SkipProvider, LeaveProvider
<1>4. CASE EnterProvider(r)
  BY <1>4 DEF EnterProvider
<1>5. CASE OutOfTime(r)
  BY <1>5 DEF OutOfTime, LeaveProvider
<1>6. CASE Call(r)
  BY <1>6 DEF Call
<1>7. CASE CallSucceeds(r)
  BY <1>7 DEF CallSucceeds
<1>8. CASE CallFailsFatally(r)
  BY <1>8 DEF CallFailsFatally, NoteFailure, LeaveProvider
<1>9. CASE CallFailsThenBacksOff(r)
  BY <1>9 DEF CallFailsThenBacksOff, NoteFailure
<1>10. CASE CallFailsFinally(r)
  BY <1>10 DEF CallFailsFinally, NoteFailure, LeaveProvider
<1>11. CASE Wake(r)
  BY <1>11 DEF Wake
<1>. QED
  BY <1>1, <1>2, <1>3, <1>4, <1>5, <1>6, <1>7, <1>8, <1>9, <1>10, <1>11
  DEF Run, CallEnds

(* Control states stay consistent.                                         *)
LEMMA NextControl ==
  ASSUME IInv, TypeOK', [Next]_vars
  PROVE  ControlConsistent'
<1>1. ASSUME NEW r \in Request, Start(r) \/ Run(r) \/ CallEnds(r) \/ Wake(r)
      PROVE  ControlConsistent'
  <2>1. Control(r)'
    BY <1>1, MoverControl
  <2>2. ASSUME NEW q \in Request \ {r} PROVE Control(q)'
    <3>1. Control(q)
      BY DEF IInv, Control, ControlConsistent
    <3>2. running # q /\ running' # q
      BY <1>1, <2>2, OthersKeepPlace
    <3>3. /\ pc'[q] = pc[q] /\ pos'[q] = pos[q] /\ attempt'[q] = attempt[q]
          /\ deadline'[q] = deadline[q] /\ clock' = clock
      BY <1>1, <2>2, OthersKeepPlace
    <3>. QED BY <3>1, <3>2, <3>3 DEF Control, ListExhausted, MayRetry, HasTime
  <2>. QED BY <2>1, <2>2 DEF Control, ControlConsistent
<1>2. CASE Tick
  BY <1>2 DEF IInv, TypeOK, Tick, ControlConsistent, ListExhausted, MayRetry,
              HasTime
<1>3. CASE ReadStates
  BY <1>3 DEF IInv, ReadStates, ControlConsistent, ListExhausted, MayRetry,
              HasTime
<1>4. CASE UNCHANGED vars
  BY <1>4 DEF IInv, vars, ControlConsistent, ListExhausted, MayRetry, HasTime
<1>. QED BY <1>1, <1>2, <1>3, <1>4 DEF Next

-----------------------------------------------------------------------------
(* The record of one execution's failovers.                                *)
InOrder(r) == \A p \in Provider :
  /\ p < pos[r] => \/ fate[r][p] \in Settled
                   \/ fate[r][p] \in {"unused", "expired"} /\ ~HasTime(r)
  /\ p > pos[r] => fate[r][p] = "untried"
  /\ p = pos[r] => fate[r][p] = IF pc[r] = "done" THEN "answered"
                                                  ELSE "untried"

(* An execution that leaves a provider keeps its record in order, if it    *)
(* leaves for a settled reason or because its time is up.                  *)
LEMMA LeaveInOrder ==
  ASSUME IInv, NEW r \in Request, NEW how \in Fate,
         ~ListExhausted(r), pc[r] # "done", LeaveProvider(r, how),
         UNCHANGED <<clock, deadline>>,
         how \in Settled \/ (how \in {"unused", "expired"} /\ ~HasTime(r))
  PROVE  InOrder(r)'
<1>1. /\ pos'[r] = pos[r] + 1
      /\ pc'[r] = "provider"
      /\ fate'[r][pos[r]] = how
      /\ \A p \in Provider \ {pos[r]} : fate'[r][p] = fate[r][p]
      /\ pos[r] \in Provider
  BY DEF IInv, TypeOK, LeaveProvider, ListExhausted
<1>2. HasTime(r)' = HasTime(r)
  BY DEF HasTime
<1>3. InOrder(r)
  BY DEF IInv, FailoverInOrder, InOrder
<1>. QED BY <1>1, <1>2, <1>3 DEF InOrder, Settled

(* The moving execution keeps its record in order.                         *)
LEMMA MoverInOrder ==
  ASSUME IInv, NEW r \in Request,
         Start(r) \/ Run(r) \/ CallEnds(r) \/ Wake(r)
  PROVE  InOrder(r)'
<1>1. InOrder(r)
  BY DEF IInv, FailoverInOrder, InOrder
<1>2. CASE Start(r)
  BY <1>1, <1>2
  DEF Start, InOrder, IInv, TypeOK, ControlConsistent, HasTime
<1>3. CASE GiveUp(r) \/ EnterProvider(r) \/ Call(r) \/ Wake(r)
           \/ CallFailsThenBacksOff(r)
  BY <1>1, <1>3
  DEF GiveUp, EnterProvider, Call, Wake, CallFailsThenBacksOff, NoteFailure,
      InOrder, IInv, TypeOK, HasTime
<1>4. CASE SkipProvider(r)
  BY <1>4, LeaveInOrder DEF SkipProvider, Settled, Fate
<1>5. CASE OutOfTime(r)
  BY <1>5, LeaveInOrder DEF OutOfTime, Fate, IInv, ControlConsistent
<1>6. CASE CallFailsFatally(r)
  BY <1>6, LeaveInOrder
  DEF CallFailsFatally, NoteFailure, Fate, Settled, IInv, ControlConsistent
<1>7. CASE CallFailsFinally(r)
  BY <1>7, LeaveInOrder
  DEF CallFailsFinally, NoteFailure, Fate, Settled, IInv, ControlConsistent
<1>8. CASE CallSucceeds(r)
  <2>1. /\ pos'[r] = pos[r]
        /\ pc'[r] = "done"
        /\ fate'[r][pos[r]] = "answered"
        /\ \A p \in Provider \ {pos[r]} : fate'[r][p] = fate[r][p]
        /\ HasTime(r)' = HasTime(r)
    BY <1>8 DEF CallSucceeds, IInv, TypeOK, ControlConsistent, ListExhausted,
                HasTime
  <2>. QED BY <1>1, <2>1 DEF InOrder
<1>. QED
  BY <1>2, <1>3, <1>4, <1>5, <1>6, <1>7, <1>8 DEF Run, CallEnds

(* Every execution's record stays in order.                                *)
LEMMA NextFailover ==
  ASSUME IInv, [Next]_vars
  PROVE  FailoverInOrder'
<1>1. ASSUME NEW r \in Request, Start(r) \/ Run(r) \/ CallEnds(r) \/ Wake(r)
      PROVE  FailoverInOrder'
  <2>1. InOrder(r)'
    BY <1>1, MoverInOrder
  <2>2. ASSUME NEW q \in Request \ {r} PROVE InOrder(q)'
    BY <1>1, <2>2, OthersKeepPlace DEF IInv, FailoverInOrder, InOrder, HasTime
  <2>. QED BY <2>1, <2>2 DEF InOrder, FailoverInOrder
<1>2. CASE Tick
  BY <1>2 DEF IInv, TypeOK, Tick, FailoverInOrder, HasTime
<1>3. CASE ReadStates
  BY <1>3 DEF IInv, ReadStates, FailoverInOrder, HasTime
<1>4. CASE UNCHANGED vars
  BY <1>4 DEF IInv, vars, FailoverInOrder, HasTime
<1>. QED BY <1>1, <1>2, <1>3, <1>4 DEF Next

-----------------------------------------------------------------------------
(* IInv is an invariant of the specification.                              *)
THEOREM Invariance == Spec => []IInv
<1>1. IInv /\ [Next]_vars => IInv'
  BY NextType, NextBreakers, NextRegistry, NextControl, NextFailover DEF IInv
<1>. QED BY InitIInv, <1>1, PTL DEF Spec

(* Every variable keeps its type.                                          *)
THEOREM TypeCorrect == Spec => []TypeOK
BY Invariance, PTL DEF IInv

(* The fields of every breaker agree with each other in every interleaving *)
(* of chains, late answers and admin reads.                                *)
THEOREM BreakersStaySound == Spec => []BreakersSound
BY Invariance, PTL DEF IInv

(* Providers are visited in list order and left for a reason.              *)
THEOREM FailoverStaysInOrder == Spec => []FailoverInOrder
BY Invariance, PTL DEF IInv

(* A chain that fails with time left has used up every provider.           *)
THEOREM NothingLeftUntried == Spec => []NoProviderLeftUntried
<1>1. IInv => NoProviderLeftUntried
  BY DEF IInv, TypeOK, NoProviderLeftUntried, ControlConsistent,
     FailoverInOrder, ListExhausted
<1>. QED BY Invariance, <1>1, PTL

-----------------------------------------------------------------------------
(* Breakers change state only as Moves allows.                             *)
LEMMA NextBreakerMoves ==
  ASSUME IInv, [Next]_vars
  PROVE  BreakerMoves
<1>1. ASSUME NEW p \in Provider
      PROVE  /\ breaker[p] \in Breaker /\ clock \in Nat
             /\ Sound(breaker[p], clock)
  BY <1>1 DEF IInv, TypeOK, BreakersSound
<1>2. ASSUME NEW p \in Provider, breaker'[p] = breaker[p]
      PROVE  Moves(breaker[p], breaker'[p], clock)
  BY <1>2 DEF Moves
<1>3. ASSUME NEW q \in Provider, NEW cb,
             breaker' = [breaker EXCEPT ![q] = cb],
             Moves(breaker[q], cb, clock)
      PROVE  BreakerMoves
  BY <1>2, <1>3 DEF BreakerMoves, IInv, TypeOK
<1>4. CASE breaker' = breaker
  BY <1>2, <1>4 DEF BreakerMoves
<1>5. CASE ReadStates
  BY <1>1, <1>5, AllowRequestMoves DEF ReadStates, BreakerMoves
<1>6. ASSUME NEW r \in Request, SkipProvider(r) \/ EnterProvider(r)
      PROVE  BreakerMoves
  <2>1. pos[r] \in Provider
    BY <1>6 DEF IInv, TypeOK, SkipProvider, EnterProvider, ListExhausted
  <2>2. \/ breaker' = breaker
        \/ breaker' = [breaker EXCEPT ![pos[r]] =
                          AllowRequest(breaker[pos[r]], clock)]
    BY <1>6 DEF SkipProvider, EnterProvider
  <2>. QED BY <1>1, <1>3, <1>4, <2>1, <2>2, AllowRequestMoves
<1>7. ASSUME NEW r \in Request, CallEnds(r) PROVE BreakerMoves
  <2>1. pos[r] \in Provider
    BY <1>7 DEF IInv, TypeOK, ControlConsistent, ListExhausted, CallEnds,
       CallSucceeds, CallFailsFatally, CallFailsThenBacksOff, CallFailsFinally,
       NoteFailure
  <2>2. \/ breaker' = breaker
        \/ breaker' = [breaker EXCEPT ![pos[r]] =
                          RecordSuccess(breaker[pos[r]])]
        \/ breaker' = [breaker EXCEPT ![pos[r]] =
                          RecordFailure(breaker[pos[r]], clock)]
    BY <1>7 DEF CallEnds, CallSucceeds, CallFailsFatally,
       CallFailsThenBacksOff, CallFailsFinally, NoteFailure
  <2>. QED
    BY <1>1, <1>3, <1>4, <2>1, <2>2, RecordSuccessMoves, RecordFailureMoves
<1>. QED
  BY <1>4, <1>5, <1>6, <1>7
  DEF Next, Run, vars, Tick, Start, GiveUp, OutOfTime, Call, Wake

(* An open breaker is never closed by a late answer, and is never probed   *)
(* before its time.                                                        *)
THEOREM BreakersMoveAsPromised == Spec => BreakerTransitions
BY Invariance, NextBreakerMoves, PTL DEF Spec, BreakerTransitions

-----------------------------------------------------------------------------
(* No half-open slot disappears.                                           *)

(* Adding one element to, or removing one from, a finite set.              *)
LEMMA AddOne ==
  ASSUME NEW S, NEW x, IsFiniteSet(S), x \notin S, NEW T, T = S \cup {x}
  PROVE  IsFiniteSet(T) /\ Cardinality(T) = Cardinality(S) + 1
BY FS_AddElement

LEMMA DropOne ==
  ASSUME NEW S, NEW x, IsFiniteSet(S), NEW T, S \subseteq T \cup {x},
         T \subseteq S
  PROVE  Cardinality(S) <= Cardinality(T) + 1
<1>1. IsFiniteSet(T) /\ IsFiniteSet(T \cup {x})
  BY FS_Subset, FS_AddElement
<1>2. Cardinality(S) <= Cardinality(T \cup {x})
  BY <1>1, FS_Subset
<1>3. Cardinality(T \cup {x}) <= Cardinality(T) + 1
  BY <1>1, FS_AddElement, FS_CardinalityType
<1>. QED
  BY <1>1, <1>2, <1>3, FS_CardinalityType

(* The account of one provider.                                            *)
Accounted(p) ==
  breaker[p].state = "half-open" =>
    breaker[p].halfOpenAttempts <=
      breaker[p].halfOpenSuccesses + Cardinality(Pending(p))
        + Cardinality(Unused(p))

(* The sets an account counts are finite.                                  *)
LEMMA AccountsFinite ==
  ASSUME NEW p
  PROVE  /\ IsFiniteSet(Pending(p)) /\ Cardinality(Pending(p)) \in Nat
         /\ IsFiniteSet(Unused(p)) /\ Cardinality(Unused(p)) \in Nat
         /\ IsFiniteSet(Pending(p)') /\ Cardinality(Pending(p)') \in Nat
         /\ IsFiniteSet(Unused(p)') /\ Cardinality(Unused(p)') \in Nat
<1>1. /\ Pending(p) \subseteq Request /\ Unused(p) \subseteq Request
      /\ Pending(p)' \subseteq Request /\ Unused(p)' \subseteq Request
  BY DEF Pending, Unused
<1>. QED BY <1>1, FS_Subset, FS_CardinalityType

(* A step that leaves p's breaker alone and loses no claim keeps p's       *)
(* account.                                                                *)
LEMMA AccountKept ==
  ASSUME NEW p, Accounted(p), breaker'[p] = breaker[p],
         Pending(p)' = Pending(p), Unused(p)' = Unused(p)
  PROVE  Accounted(p)'
BY DEF Accounted

(* The moving execution is the only one whose claims change.               *)
LEMMA ClaimsOfMover ==
  ASSUME IInv, NEW r \in Request, NEW p \in Provider,
         Start(r) \/ Run(r) \/ CallEnds(r) \/ Wake(r)
  PROVE  /\ (FirstCallPending(r, p)' <=> FirstCallPending(r, p)) =>
              Pending(p)' = Pending(p)
         /\ (fate'[r][p] = "unused" <=> fate[r][p] = "unused") =>
              Unused(p)' = Unused(p)
         /\ FirstCallPending(r, p)' /\ ~FirstCallPending(r, p) =>
              r \notin Pending(p) /\ Pending(p)' = Pending(p) \cup {r}
         /\ Pending(p) \subseteq Pending(p)' \cup {r}
         /\ ~FirstCallPending(r, p)' => Pending(p)' \subseteq Pending(p)
         /\ fate'[r][p] = "unused" /\ fate[r][p] # "unused" =>
              r \notin Unused(p) /\ Unused(p)' = Unused(p) \cup {r}
<1>1. ASSUME NEW q \in Request \ {r}
      PROVE  /\ FirstCallPending(q, p)' <=> FirstCallPending(q, p)
             /\ fate'[q][p] = fate[q][p]
  BY <1>1, OthersKeepPlace DEF FirstCallPending
<1>2. /\ \A q \in Request : q \in Pending(p) <=> FirstCallPending(q, p)
      /\ \A q \in Request : q \in Pending(p)' <=> FirstCallPending(q, p)'
      /\ \A q \in Request : q \in Unused(p) <=> fate[q][p] = "unused"
      /\ \A q \in Request : q \in Unused(p)' <=> fate'[q][p] = "unused"
      /\ Pending(p) \subseteq Request /\ Pending(p)' \subseteq Request
      /\ Unused(p) \subseteq Request /\ Unused(p)' \subseteq Request
  BY DEF Pending, Unused
<1> HIDE DEF FirstCallPending, Pending, Unused
<1>. QED BY <1>1, <1>2

(* An execution settles its fate with the provider it is at only.          *)
LEMMA FateElsewhere ==
  ASSUME IInv, NEW r \in Request, NEW p \in Provider, p # pos[r],
         Run(r) \/ CallEnds(r)
  PROVE  fate'[r][p] = fate[r][p]
<1>1. ASSUME NEW how, fate' = [fate EXCEPT ![r][pos[r]] = how]
      PROVE  fate'[r][p] = fate[r][p]
  BY <1>1 DEF IInv, TypeOK
<1>2. fate' = fate \/ \E how \in Fate : fate' = [fate EXCEPT ![r][pos[r]] = how]
  BY DEF Run, GiveUp, SkipProvider, EnterProvider, OutOfTime, Call, CallEnds,
     CallSucceeds, CallFailsFatally, CallFailsThenBacksOff, CallFailsFinally,
     LeaveProvider, Fate
<1>. QED BY <1>1, <1>2

(* The fate an execution settles with the provider it is at.               *)
LEMMA FateHere ==
  ASSUME IInv, NEW r \in Request, NEW how, pos[r] \in Provider,
         pc[r] # "done", fate' = [fate EXCEPT ![r][pos[r]] = how]
  PROVE  fate[r][pos[r]] = "untried" /\ fate'[r][pos[r]] = how
BY DEF IInv, TypeOK, FailoverInOrder

(* Each action keeps every provider's account.                             *)
LEMMA NextAccounted ==
  ASSUME IInv, IInv', [Next]_vars, NEW p \in Provider, Accounted(p)
  PROVE  Accounted(p)'
<1> USE AccountsFinite
<1>1. ASSUME NEW r \in Request, Start(r) \/ GiveUp(r) \/ Call(r) \/ Wake(r)
      PROVE  Accounted(p)'
  <2>1. FirstCallPending(r, p)' <=> FirstCallPending(r, p)
    BY <1>1 DEF IInv, TypeOK, FirstCallPending, Start, GiveUp, Call, Wake
  <2>2. breaker' = breaker /\ fate' = fate
    BY <1>1 DEF Start, GiveUp, Call, Wake
  <2>3. Pending(p)' = Pending(p) /\ Unused(p)' = Unused(p)
    BY <1>1, <2>1, <2>2, ClaimsOfMover DEF Run
  <2>. QED BY <2>2, <2>3, AccountKept
<1>2. ASSUME NEW r \in Request, p # pos[r],
             Run(r) \/ CallEnds(r)
      PROVE  Accounted(p)'
  <2>1. breaker'[p] = breaker[p]
    BY <1>2 DEF IInv, TypeOK, Run, GiveUp, SkipProvider, EnterProvider,
       OutOfTime, Call, CallEnds, CallSucceeds, CallFailsFatally,
       CallFailsThenBacksOff, CallFailsFinally, NoteFailure
  <2>2. fate'[r][p] = fate[r][p]
    BY <1>2, FateElsewhere
  <2>3. pc'[r] = "provider" \/ pos'[r] = pos[r]
    BY <1>2 DEF IInv, TypeOK, Run, GiveUp, SkipProvider, EnterProvider,
       OutOfTime, Call, CallEnds, CallSucceeds, CallFailsFatally,
       CallFailsThenBacksOff, CallFailsFinally, NoteFailure, LeaveProvider
  <2>4. ~FirstCallPending(r, p) /\ ~FirstCallPending(r, p)'
    BY <1>2, <2>3 DEF FirstCallPending
  <2>5. Pending(p)' = Pending(p) /\ Unused(p)' = Unused(p)
    BY <1>2, <2>2, <2>4, ClaimsOfMover
  <2>. QED BY <2>1, <2>5, AccountKept
<1>3. ASSUME NEW r \in Request, p = pos[r], SkipProvider(r)
      PROVE  Accounted(p)'
  <2>1. /\ ~FirstCallPending(r, p) /\ ~FirstCallPending(r, p)'
        /\ fate[r][p] = "untried" /\ fate'[r][p] = "skipped"
    <3>1. pc[r] = "provider" /\ pc'[r] = "provider"
      BY <1>3 DEF IInv, TypeOK, SkipProvider, LeaveProvider
    <3>2. fate' = [fate EXCEPT ![r][pos[r]] = "skipped"]
      BY <1>3 DEF SkipProvider, LeaveProvider
    <3>3. fate[r][pos[r]] = "untried" /\ fate'[r][pos[r]] = "skipped"
      BY <1>3, <3>1, <3>2, FateHere
    <3>4. ~FirstCallPending(r, p) /\ ~FirstCallPending(r, p)'
      BY <3>1 DEF FirstCallPending
    <3>. QED BY <1>3, <3>3, <3>4
  <2>2. Pending(p)' = Pending(p) /\ Unused(p)' = Unused(p)
    BY <1>3, <2>1, ClaimsOfMover DEF Run
  <2>3. breaker'[p] = AllowRequest(breaker[p], clock) /\ ~Allows(breaker[p], clock)
    BY <1>3 DEF IInv, TypeOK, SkipProvider
  <2>4. breaker'[p].state = "half-open" => breaker'[p] = breaker[p]
    BY <2>3, ProbeAccounting DEF IInv, TypeOK, BreakersSound
  <2>. QED BY <2>2, <2>4 DEF Accounted
<1>4. ASSUME NEW r \in Request, p = pos[r], EnterProvider(r)
      PROVE  Accounted(p)'
  <2>1. /\ ~FirstCallPending(r, p) /\ FirstCallPending(r, p)'
        /\ fate' = fate
    BY <1>4 DEF IInv, TypeOK, ControlConsistent, FirstCallPending,
                EnterProvider
  <2>2. /\ r \notin Pending(p) /\ Pending(p)' = Pending(p) \cup {r}
        /\ Unused(p)' = Unused(p)
    BY <1>4, <2>1, ClaimsOfMover DEF Run
  <2>3. Cardinality(Pending(p)') = Cardinality(Pending(p)) + 1
    BY <2>2, AddOne
  <2>4. breaker[p] \in Breaker /\ breaker'[p] \in Breaker
    BY DEF IInv, TypeOK
  <2>5. CASE breaker'[p] = breaker[p]
    BY <2>2, <2>3, <2>4, <2>5 DEF Accounted, Breaker
  <2>6. CASE breaker'[p] = AllowRequest(breaker[p], clock)
    <3>1. breaker'[p].state = "half-open" =>
            \/ breaker'[p].halfOpenAttempts <= 1
            \/ /\ breaker[p].state = "half-open"
               /\ breaker'[p].halfOpenAttempts <= breaker[p].halfOpenAttempts + 1
               /\ breaker'[p].halfOpenSuccesses = breaker[p].halfOpenSuccesses
      <4>1. Sound(breaker[p], clock) /\ clock \in Nat
        BY DEF IInv, TypeOK, BreakersSound
      <4>2. breaker'[p].state = "half-open" =>
              \/ breaker'[p].halfOpenAttempts <= 1
              \/ /\ breaker[p].state = "half-open"
                 /\ breaker'[p].halfOpenAttempts
                      <= breaker[p].halfOpenAttempts + 1
                 /\ breaker'[p].halfOpenSuccesses = breaker[p].halfOpenSuccesses
        BY <2>4, <2>6, <4>1, ProbeAccounting
      <4>. QED BY <4>2
    <3>2. /\ breaker[p].halfOpenAttempts \in Nat
          /\ breaker[p].halfOpenSuccesses \in Nat
          /\ breaker'[p].halfOpenAttempts \in Nat
          /\ breaker'[p].halfOpenSuccesses \in Nat
      BY <2>4 DEF Breaker
    <3>3. Cardinality(Unused(p)') = Cardinality(Unused(p))
      BY <2>2
    <3>. QED BY <2>3, <3>1, <3>2, <3>3 DEF Accounted
  <2>. QED BY <1>4, <2>5, <2>6 DEF EnterProvider, IInv, TypeOK
<1>5. ASSUME NEW r \in Request, p = pos[r], OutOfTime(r)
      PROVE  Accounted(p)'
  <2>1. /\ ~FirstCallPending(r, p)'
        /\ fate[r][p] = "untried"
        /\ fate'[r][p] = IF attempt[r] = 0 THEN "unused" ELSE "expired"
        /\ FirstCallPending(r, p) <=> attempt[r] = 0
        /\ breaker' = breaker
    BY <1>5 DEF IInv, TypeOK, FailoverInOrder, FirstCallPending, OutOfTime,
                LeaveProvider
  <2>2. CASE attempt[r] = 0
    <3>1. /\ Pending(p) \subseteq Pending(p)' \cup {r}
          /\ Pending(p)' \subseteq Pending(p)
          /\ r \notin Unused(p) /\ Unused(p)' = Unused(p) \cup {r}
      BY <1>5, <2>1, <2>2, ClaimsOfMover DEF Run
    <3>2. Cardinality(Pending(p)) <= Cardinality(Pending(p)') + 1
      BY <3>1, DropOne
    <3>3. Cardinality(Unused(p)') = Cardinality(Unused(p)) + 1
      BY <3>1, AddOne
    <3>4. breaker[p] \in Breaker
      BY DEF IInv, TypeOK
    <3>. QED BY <2>1, <3>2, <3>3, <3>4 DEF Accounted, Breaker
  <2>3. CASE attempt[r] # 0
    <3>1. Pending(p)' = Pending(p) /\ Unused(p)' = Unused(p)
      BY <1>5, <2>1, <2>3, ClaimsOfMover DEF Run
    <3>. QED BY <2>1, <3>1, AccountKept
  <2>. QED BY <2>2, <2>3
<1>6. ASSUME NEW r \in Request, p = pos[r], CallSucceeds(r)
      PROVE  Accounted(p)'
  <2>1. /\ ~FirstCallPending(r, p)'
        /\ fate[r][p] = "untried" /\ fate'[r][p] = "answered"
    <3>1. pc[r] = "calling" /\ pc'[r] = "done"
      BY <1>6 DEF IInv, TypeOK, CallSucceeds
    <3>2. fate' = [fate EXCEPT ![r][pos[r]] = "answered"]
      BY <1>6 DEF CallSucceeds
    <3>3. fate[r][pos[r]] = "untried" /\ fate'[r][pos[r]] = "answered"
      BY <1>6, <3>1, <3>2, FateHere
    <3>4. ~FirstCallPending(r, p)'
      BY <3>1 DEF FirstCallPending
    <3>. QED BY <1>6, <3>3, <3>4
  <2>2. /\ Pending(p) \subseteq Pending(p)' \cup {r}
        /\ Pending(p)' \subseteq Pending(p)
        /\ Unused(p)' = Unused(p)
    BY <1>6, <2>1, ClaimsOfMover DEF CallEnds
  <2>3. Cardinality(Pending(p)) <= Cardinality(Pending(p)') + 1
    BY <2>2, DropOne
  <2>4. breaker[p] \in Breaker
    BY DEF IInv, TypeOK
  <2>5. CASE UseBreakers
    <3>1. breaker'[p] = RecordSuccess(breaker[p])
      BY <1>6, <2>5 DEF CallSucceeds, IInv, TypeOK
    <3>2. breaker'[p].state = "half-open" =>
            /\ breaker[p].state = "half-open"
            /\ breaker'[p].halfOpenAttempts = breaker[p].halfOpenAttempts
            /\ breaker'[p].halfOpenSuccesses = breaker[p].halfOpenSuccesses + 1
      BY <3>1, ProbeAccounting DEF IInv, TypeOK, BreakersSound
    <3>. QED BY <2>2, <2>3, <2>4, <3>2 DEF Accounted, Breaker
  <2>6. CASE ~UseBreakers
    BY <2>6 DEF IInv, RegistryUntouched, NewBreaker, Accounted
  <2>. QED BY <2>5, <2>6
<1>7. ASSUME NEW r \in Request, p = pos[r],
             CallFailsFatally(r) \/ CallFailsThenBacksOff(r) \/ CallFailsFinally(r)
      PROVE  Accounted(p)'
  <2>1. CASE UseBreakers
    <3>1. breaker'[p] = RecordFailure(breaker[p], clock)
      BY <1>7, <2>1 DEF CallFailsFatally, CallFailsThenBacksOff,
                        CallFailsFinally, NoteFailure, IInv, TypeOK
    <3>. QED
      BY <3>1, ProbeAccounting DEF IInv, TypeOK, BreakersSound, Accounted
  <2>2. CASE ~UseBreakers
    BY <2>2 DEF IInv, RegistryUntouched, NewBreaker, Accounted
  <2>. QED BY <2>1, <2>2
<1>8. CASE ReadStates
  <2>1. Pending(p)' = Pending(p) /\ Unused(p)' = Unused(p)
    BY <1>8 DEF ReadStates, Pending, Unused, FirstCallPending
  <2>2. breaker'[p] = breaker[p] \/ breaker'[p].halfOpenAttempts = 0
    BY <1>8, GetStateSound DEF ReadStates, IInv, TypeOK, BreakersSound
  <2>3. breaker'[p] \in Breaker
    BY DEF IInv, TypeOK
  <2>. QED BY <2>1, <2>2, <2>3 DEF Accounted, Breaker
<1>9. CASE Tick \/ UNCHANGED vars
  <2>1. breaker' = breaker /\ Pending(p)' = Pending(p) /\ Unused(p)' = Unused(p)
    BY <1>9 DEF Tick, vars, Pending, Unused, FirstCallPending
  <2>. QED BY <2>1, AccountKept
<1>. QED
  BY <1>1, <1>2, <1>3, <1>4, <1>5, <1>6, <1>7, <1>8, <1>9
  DEF Next, Run, CallEnds

(* Every half-open slot that was taken is a counted success, a pending     *)
(* first call, or was left unused because the budget ran out.              *)
THEOREM SlotsStayAccounted == Spec => []SlotsAccounted
<1>1. Init => SlotsAccounted
  BY DEF Init, SlotsAccounted, NewBreaker
<1>2. SlotsAccounted <=> \A p \in Provider : Accounted(p)
  BY DEF SlotsAccounted, Accounted
<1>3. SlotsAccounted' <=> \A p \in Provider : Accounted(p)'
  BY DEF SlotsAccounted, Accounted
<1>4. IInv /\ IInv' /\ SlotsAccounted /\ [Next]_vars => SlotsAccounted'
  BY <1>2, <1>3, NextAccounted
<1>. QED BY Invariance, <1>1, <1>4, PTL DEF Spec
-----------------------------------------------------------------------------
(* The chain implements Failover.                                          *)

(* The abstract state of an execution that stays where it is.              *)
LEMMA SameLate ==
  ASSUME IInv, NEW r \in Request, Run(r) \/ CallEnds(r) \/ Wake(r)
  PROVE  Late' = Late
<1>1. pc[r] # "idle" /\ pc'[r] # "idle" /\ UNCHANGED <<clock, deadline>>
  BY DEF IInv, TypeOK, Run, GiveUp, SkipProvider, EnterProvider, OutOfTime,
     Call, CallEnds, CallSucceeds, CallFailsFatally, CallFailsThenBacksOff,
     CallFailsFinally, NoteFailure, LeaveProvider, Wake
<1>2. \A q \in Request \ {r} : pc'[q] = pc[q]
  BY OthersKeepPlace
<1>. QED BY <1>1, <1>2 DEF Late, HasTime

(* The outcomes after a step of r are the old ones but for r's.            *)
LEMMA OutcomeOfMover ==
  ASSUME IInv, NEW r \in Request, Start(r) \/ Run(r) \/ CallEnds(r) \/ Wake(r)
  PROVE  [q \in Request |-> Outcome(q)]' =
           [[q \in Request |-> Outcome(q)] EXCEPT ![r] = Outcome(r)']
<1>1. \A q \in Request \ {r} : Outcome(q)' = Outcome(q)
  BY OthersKeepPlace DEF Outcome
<1>. QED BY <1>1

(* The chain's step that moves past a provider.                            *)
LEMMA LeaveMovesOn ==
  ASSUME IInv, NEW r \in Request, NEW how,
         SkipProvider(r) \/ OutOfTime(r) \/ CallFailsFatally(r)
           \/ CallFailsFinally(r),
         LeaveProvider(r, how)
  PROVE  Abstract!MoveOn(r)
<1>1. pos[r] <= ProviderCount
  BY DEF IInv, TypeOK, ControlConsistent, ListExhausted, SkipProvider,
     OutOfTime, CallFailsFatally, CallFailsFinally, NoteFailure
<1>2. pc[r] \in {"provider", "attempt", "calling"} /\ pc'[r] = "provider"
  BY DEF IInv, TypeOK, SkipProvider, OutOfTime, CallFailsFatally,
     CallFailsFinally, NoteFailure, LeaveProvider
<1>3. Outcome(r) = "pending" /\ Outcome(r)' = "pending"
  BY <1>2 DEF Outcome
<1>4. [q \in Request |-> Outcome(q)]' = [q \in Request |-> Outcome(q)]
  BY <1>3, OutcomeOfMover DEF Run, CallEnds
<1>5. pos' = [pos EXCEPT ![r] = pos[r] + 1]
  BY DEF LeaveProvider
<1>6. Late' = Late
  BY SameLate DEF Run, CallEnds
<1>. QED BY <1>1, <1>3, <1>4, <1>5, <1>6 DEF Abstract!MoveOn

(* Every step of the chain is a step of the abstract chain or a stutter.   *)
LEMMA NextImplements ==
  ASSUME IInv, IInv', [Next]_vars
  PROVE  [Abstract!Next]_(Abstract!vars)
<1> DEFINE outcomes == [q \in Request |-> Outcome(q)]
<1>1. ASSUME NEW r \in Request, Start(r)
      PROVE  Abstract!Begin(r)
  <2>1. pc[r] = "idle" /\ pc'[r] = "provider" /\ pos' = pos
    BY <1>1 DEF IInv, TypeOK, Start
  <2>2. Outcome(r) = "none" /\ Outcome(r)' = "pending"
    BY <2>1 DEF Outcome
  <2>3. outcomes' = [outcomes EXCEPT ![r] = "pending"]
    BY <1>1, <2>2, OutcomeOfMover
  <2>4. Late' \in {Late, Late \cup {r}}
    <3>1. \A q \in Request \ {r} : q \in Late' <=> q \in Late
      BY <1>1, OthersKeepPlace DEF Late, HasTime
    <3>. QED BY <3>1, <2>1 DEF Late
  <2>. QED BY <2>1, <2>2, <2>3, <2>4 DEF Abstract!Begin
<1>2. ASSUME NEW r \in Request, GiveUp(r)
      PROVE  Abstract!Fail(r)
  <2>1. /\ pc[r] = "provider" /\ pc'[r] = "failed" /\ pos' = pos
        /\ pos[r] > ProviderCount \/ r \in Late
    BY <1>2 DEF IInv, TypeOK, GiveUp, ListExhausted, Late
  <2>2. Outcome(r) = "pending" /\ Outcome(r)' = "failed"
    BY <2>1 DEF Outcome
  <2>3. outcomes' = [outcomes EXCEPT ![r] = "failed"]
    BY <1>2, <2>2, OutcomeOfMover DEF Run
  <2>4. Late' = Late
    BY <1>2, SameLate DEF Run
  <2>. QED BY <2>1, <2>2, <2>3, <2>4 DEF Abstract!Fail
<1>3. ASSUME NEW r \in Request, CallSucceeds(r)
      PROVE  Abstract!Answer(r)
  <2>1. /\ pc[r] = "calling" /\ pc'[r] = "done" /\ pos' = pos
        /\ pos[r] <= ProviderCount
    BY <1>3 DEF IInv, TypeOK, CallSucceeds, ControlConsistent, ListExhausted
  <2>2. Outcome(r) = "pending" /\ Outcome(r)' = "answered"
    BY <2>1 DEF Outcome
  <2>3. outcomes' = [outcomes EXCEPT ![r] = "answered"]
    BY <1>3, <2>2, OutcomeOfMover DEF CallEnds
  <2>4. Late' = Late
    BY <1>3, SameLate DEF CallEnds
  <2>. QED BY <2>1, <2>2, <2>3, <2>4 DEF Abstract!Answer
<1>4. ASSUME NEW r \in Request,
             SkipProvider(r) \/ OutOfTime(r) \/ CallFailsFatally(r)
               \/ CallFailsFinally(r)
      PROVE  Abstract!MoveOn(r)
  BY <1>4, LeaveMovesOn
  DEF SkipProvider, OutOfTime, CallFailsFatally, CallFailsFinally
<1>5. ASSUME NEW r \in Request,
             EnterProvider(r) \/ Call(r) \/ CallFailsThenBacksOff(r) \/ Wake(r)
      PROVE  UNCHANGED Abstract!vars
  <2>1. /\ pc[r] \in {"provider", "attempt", "calling", "backoff"}
        /\ pc'[r] \in {"attempt", "calling", "backoff"}
        /\ pos' = pos
    BY <1>5 DEF IInv, TypeOK, EnterProvider, Call, CallFailsThenBacksOff,
                NoteFailure, Wake
  <2>2. Outcome(r)' = Outcome(r)
    BY <2>1 DEF Outcome
  <2>3. outcomes' = outcomes
    BY <1>5, <2>2, OutcomeOfMover DEF Run, CallEnds
  <2>4. Late' = Late
    BY <1>5, SameLate DEF Run, CallEnds
  <2>. QED BY <2>1, <2>3, <2>4 DEF Abstract!vars
<1>6. CASE Tick
  <2>1. pos' = pos /\ outcomes' = outcomes
    BY <1>6 DEF Tick, Outcome
  <2>2. Late \subseteq Late'
    BY <1>6 DEF IInv, TypeOK, Tick, Late, HasTime
  <2>3. \A r \in Late' : Outcome(r) # "none"
    BY <1>6 DEF Tick, Late, Outcome
  <2>4. Late' \subseteq {r \in Request : outcomes[r] # "none"}
    BY <2>3 DEF Late
  <2>. QED BY <2>1, <2>2, <2>4 DEF Abstract!Next, Abstract!TimePasses
<1>7. CASE UNCHANGED <<clock, pc, pos, deadline>>
  BY <1>7 DEF Abstract!vars, Outcome, Late, HasTime
<1>8. ReadStates => UNCHANGED <<clock, pc, pos, deadline>>
  BY DEF ReadStates
<1>. QED
  BY <1>1, <1>2, <1>3, <1>4, <1>5, <1>6, <1>7, <1>8
  DEF Next, Run, CallEnds, vars, Abstract!Next

(* The chain, with its breakers, retries and timers, implements Failover.  *)
THEOREM ChainImplementsFailover == Spec => ImplementsFailover
<1>1. Init => Abstract!Init
  BY DEF Init, Abstract!Init, Outcome, Late
<1>. QED
  BY <1>1, Invariance, NextImplements, PTL
  DEF Spec, ImplementsFailover, Abstract!Spec
=============================================================================
