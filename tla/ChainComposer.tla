---------------------------- MODULE ChainComposer ----------------------------
(***************************************************************************)
(* The chain composition of src/src/compose/chain.ts and what the router   *)
(* makes of its result: steps run in order, each on the text of the one    *)
(* before it, and a failed step is dealt with by its policy.  A text is    *)
(* known by the step it comes from and what it is there.                   *)
(***************************************************************************)
EXTENDS RequestContext

CONSTANT StepCount

Steps  == 1 .. StepCount
Policy == {"fail", "skip", "default", "partial"}

ASSUME ChainAssumption == StepCount \in Nat \ {0}

VARIABLES
  chain,      \* "off", "looping", "calling", "answered" or "threw"
  policy,     \* onError of each step
  results,    \* completedSteps
  stepMap,    \* the steps a template can refer to, with their texts
  previous,   \* the text of tplCtx.previous
  body        \* the text the step being called is given

chainVars == <<chain, policy, results, stepMap, previous, body>>

Text == [from : 0 .. StepCount, kind : {"answer", "default", "empty"}]
ClientText     == [from |-> 0, kind |-> "answer"]
AnswerText(i)  == [from |-> i, kind |-> "answer"]
DefaultText(i) == [from |-> i, kind |-> "default"]
NoText(i)      == [from |-> i, kind |-> "empty"]

StepResult == [status : {"success", "skipped", "defaulted", "error"}, text : Text]

ChainTypeOK ==
  /\ chain \in {"off", "looping", "calling", "answered", "threw"}
  /\ policy \in [Steps -> Policy]
  /\ results \in Seq(StepResult)
  /\ Len(results) <= StepCount
  /\ DOMAIN stepMap \subseteq Steps
  /\ \A j \in DOMAIN stepMap : stepMap[j] \in Text
  /\ previous \in Text
  /\ body \in Text
  /\ chain \in {"looping", "calling"} => Len(results) < StepCount

ChainInit ==
  /\ chain = "off"
  /\ policy = [i \in Steps |-> "fail"]
  /\ results = <<>>
  /\ stepMap = [j \in {} |-> ClientText]
  /\ previous = ClientText
  /\ body = ClientText

(* The step at the head of the loop.                                       *)
Step == Len(results) + 1

(* The route's steps.                                                      *)
StartChain ==
  /\ chain = "off"
  /\ chain' = "looping"
  /\ policy' \in [Steps -> Policy]
  /\ UNCHANGED <<results, stepMap, previous, body>>

-----------------------------------------------------------------------------
(* handleStepError.                                                        *)
ErrorResult(i) ==
  CASE policy[i] = "skip"    -> [status |-> "skipped",   text |-> NoText(i)]
    [] policy[i] = "default" -> [status |-> "defaulted", text |-> DefaultText(i)]
    [] OTHER                 -> [status |-> "error",     text |-> NoText(i)]

\* Mutant: only a step whose policy is 'fail' stops the chain.
AbortsOnFail(i) == policy[i] = "fail"

ShouldAbort(i) == policy[i] \in {"fail", "partial"}

Usable(step) == step.status \in {"success", "defaulted"}

(* The result is pushed; then the chain goes on, or ends with an answer    *)
(* when any step was of use.                                               *)
Push(step, stop) ==
  /\ results' = Append(results, step)
  /\ chain' = IF ~stop /\ Step < StepCount THEN "looping"
              ELSE IF \E k \in DOMAIN results' : Usable(results'[k])
                     THEN "answered" ELSE "threw"

\* Mutant: the catch forgets to leave its result for the next step.
RememberSuccess(step) ==
  /\ stepMap' = [j \in DOMAIN stepMap \cup {Step} |-> IF j = Step THEN step.text ELSE stepMap[j]]
  /\ previous' = IF step.status = "success" THEN step.text ELSE previous

(* It is left for templates and for the next step.                         *)
Remember(step) ==
  /\ stepMap' = [j \in DOMAIN stepMap \cup {Step} |-> IF j = Step THEN step.text ELSE stepMap[j]]
  /\ previous' = step.text

-----------------------------------------------------------------------------
\* Mutant: a step without time is looked at again unless it stops the chain.
ExpiresWhenAborting ==
  /\ ~crashed
  /\ chain = "looping"
  /\ ~HasTime
  /\ ShouldAbort(Step)
  /\ Push(ErrorResult(Step), TRUE)
  /\ UNCHANGED <<context, policy, stepMap, previous, body>>

(* No time is left for the step: its result is not left for templates.     *)
StepExpires ==
  /\ ~crashed
  /\ chain = "looping"
  /\ ~HasTime
  /\ Push(ErrorResult(Step), ShouldAbort(Step))
  /\ UNCHANGED <<context, policy, stepMap, previous, body>>

(* The provider is called, with the text of the step before, or with the   *)
(* client's in the first step.                                             *)
CallStep ==
  /\ ~crashed
  /\ chain = "looping"
  /\ HasTime
  /\ chain' = "calling"
  /\ body' = previous
  /\ UNCHANGED <<context, policy, results, stepMap, previous>>

StepSucceeds ==
  /\ ~crashed
  /\ chain = "calling"
  /\ LET step == [status |-> "success", text |-> AnswerText(Step)] IN
       Push(step, FALSE) /\ Remember(step)
  /\ UNCHANGED <<context, policy, body>>

(* It fails, or its slice of the budget runs out.                          *)
StepFails ==
  /\ ~crashed
  /\ chain = "calling"
  /\ Push(ErrorResult(Step), ShouldAbort(Step))
  /\ Remember(ErrorResult(Step))
  /\ UNCHANGED <<context, policy, body>>

ChainStep == StepExpires \/ CallStep \/ StepSucceeds \/ StepFails

-----------------------------------------------------------------------------
(* The router answers with the response of the last step, or else with the *)
(* text of the last step that was of use.                                  *)
ChainAnswer ==
  LET useful == {k \in DOMAIN results : Usable(results[k])}
  IN  results[CHOOSE k \in useful : \A j \in useful : j <= k].text
=============================================================================
