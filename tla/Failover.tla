------------------------------ MODULE Failover ------------------------------
(***************************************************************************)
(* What a fallback chain promises its callers, whatever its breakers,      *)
(* retries and timers do: providers get their turn in list order, a request*)
(* has one outcome, an answer comes from the provider whose turn it is, and*)
(* a request fails only when the list is used up or its budget is gone.    *)
(***************************************************************************)
EXTENDS Integers

CONSTANTS Request, ProviderCount

VARIABLES
  turn,      \* the provider each request is at (ProviderCount + 1: past all)
  outcome,   \* "none", "pending", "answered" or "failed"
  late       \* the requests whose budget has run out

vars == <<turn, outcome, late>>

Init ==
  /\ turn = [r \in Request |-> 1]
  /\ outcome = [r \in Request |-> "none"]
  /\ late = {}

Begin(r) ==
  /\ outcome[r] = "none"
  /\ outcome' = [outcome EXCEPT ![r] = "pending"]
  /\ late' \in {late, late \cup {r}}
  /\ UNCHANGED turn

MoveOn(r) ==
  /\ outcome[r] = "pending"
  /\ turn[r] <= ProviderCount
  /\ turn' = [turn EXCEPT ![r] = @ + 1]
  /\ UNCHANGED <<outcome, late>>

Answer(r) ==
  /\ outcome[r] = "pending"
  /\ turn[r] <= ProviderCount
  /\ outcome' = [outcome EXCEPT ![r] = "answered"]
  /\ UNCHANGED <<turn, late>>

Fail(r) ==
  /\ outcome[r] = "pending"
  /\ turn[r] > ProviderCount \/ r \in late
  /\ outcome' = [outcome EXCEPT ![r] = "failed"]
  /\ UNCHANGED <<turn, late>>

TimePasses ==
  /\ late \subseteq late'
  /\ late' \subseteq {r \in Request : outcome[r] # "none"}
  /\ UNCHANGED <<turn, outcome>>

Next ==
  \/ TimePasses
  \/ \E r \in Request : Begin(r) \/ MoveOn(r) \/ Answer(r) \/ Fail(r)

Spec == Init /\ [][Next]_vars
=============================================================================
