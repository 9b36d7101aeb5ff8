----------------------- MODULE ComposedRequestProofs ------------------------
(***************************************************************************)
(* Proofs about ComposedRequest for any number of middlewares, steps,      *)
(* tools and rounds.  Its stages share only the context, so each has an    *)
(* invariant of its own.                                                   *)
(***************************************************************************)
EXTENDS ComposedRequest, TLAPS

-----------------------------------------------------------------------------
(* The pipeline.                                                           *)

Active(i) == mw[i] \in {"running", "awaiting"}

(* A middleware is entered by the next() of the one outside it, which then *)
(* waits for it to settle unless it went on without; it settles when it    *)
(* stops running, once.                                                    *)
Nested ==
  \A i \in Stage :
    /\ ~called[i] => /\ verdict[i + 1] = None
                     /\ i < Depth => mw[i + 1] = "out"
                     /\ i \notin floating
    /\ mw[i] = "out" => ~called[i]
    /\ mw[i] = "awaiting" => called[i] /\ i \notin floating
    /\ called[i] /\ i \notin floating /\ mw[i] # "awaiting" => verdict[i + 1] # None
    /\ Active(i) => verdict[i] = None
    /\ mw[i] \in {"left", "threw", "passed"} => verdict[i] # None
    /\ mw[i] = "left" => verdict[i] = Settled

PipelineInv == PipelineTypeOK /\ Nested /\ OnionOrder /\ ErrorNamesCulprit

LEMMA Verdicts ==
  /\ None \notin Errors /\ Settled \notin Errors /\ None # Settled
  /\ \A i \in 1 .. Depth + 1 :
       /\ {Timeout(i), Twice(i), Own(i)} \subseteq Errors
       /\ None \notin {Timeout(i), Twice(i), Own(i)}
       /\ Settled \notin {Timeout(i), Twice(i), Own(i)}
       /\ Timeout(i).step = i /\ Twice(i).step = i /\ Own(i).step = i
BY DEF Errors, None, Settled, Timeout, Twice, Own

LEMMA PipelineInits == ASSUME Init PROVE PipelineInv
BY ContextAssumption, Verdicts
   DEF Init, PipelineInit, PipelineInv, PipelineTypeOK, Nested, OnionOrder,
       ErrorNamesCulprit, Stage, Active, Failed

(* A middleware stops running and settles, with an error of its own or     *)
(* well.                                                                   *)
LEMMA Settles ==
  ASSUME PipelineInv, NEW i \in Stage, Return(i) \/ ThrowOwn(i) \/ CallNextAgain(i)
  PROVE  PipelineInv'
<1> USE ContextAssumption, Verdicts DEF Stage
<1>a. PICK how \in {"left", "threw"}, error \in Errors \cup {Settled} :
        /\ how = "left" => error = Settled
        /\ how = "threw" => error \in Errors /\ error.step = i
        /\ mw[i] = "running" /\ UNCHANGED <<called, floating>>
        /\ mw' = [mw EXCEPT ![i] = how]
        /\ verdict' = [verdict EXCEPT ![i] = error]
  <2>1. CASE Return(i)
    <3>1. "left" \in {"left", "threw"} /\ Settled \in Errors \cup {Settled} OBVIOUS
    <3> QED BY <2>1, <3>1 DEF Return
  <2>2. CASE ThrowOwn(i)
    <3>1. Own(i) \in Errors /\ Own(i).step = i /\ "threw" # "left" OBVIOUS
    <3> QED BY <2>2, <3>1 DEF ThrowOwn, Throw
  <2>3. CASE CallNextAgain(i)
    <3>1. Twice(i) \in Errors /\ Twice(i).step = i /\ "threw" # "left" OBVIOUS
    <3> QED BY <2>3, <3>1 DEF CallNextAgain, Throw
  <2> QED BY <2>1, <2>2, <2>3
<1> USE <1>a
<1>1. PipelineTypeOK' BY DEF PipelineInv, PipelineTypeOK
<1>2. Nested'
  BY DEF PipelineInv, PipelineTypeOK, Nested, Active
<1>3. OnionOrder'
  BY DEF PipelineInv, PipelineTypeOK, OnionOrder
<1>4. ErrorNamesCulprit'
  <2> SUFFICES ASSUME NEW j \in Stage, Failed(j)' PROVE ErrorNamesCulprit!(j)'
    BY DEF ErrorNamesCulprit
  <2> QED BY DEF PipelineInv, PipelineTypeOK, Nested, ErrorNamesCulprit, Failed, Active
<1> QED BY <1>1, <1>2, <1>3, <1>4 DEF PipelineInv

(* A middleware calls next(): it waits, or goes on if it is careless, and  *)
(* the next one is entered unless the time is up or there is none.         *)
LEMMA Enters ==
  ASSUME PipelineInv, NEW i \in Stage, mw[i] = "running", ~called[i],
         called' = [called EXCEPT ![i] = TRUE],
         \/ floating' = floating /\ Dispatch(i + 1, [mw EXCEPT ![i] = "awaiting"])
         \/ /\ i \in Careless /\ floating' = floating \cup {i}
            /\ Dispatch(i + 1, mw)
  PROVE  PipelineInv'
<1> USE ContextAssumption, Verdicts DEF Stage
<1>1. PipelineTypeOK'
  BY DEF PipelineInv, PipelineTypeOK, Dispatch
<1>2. Nested'
  <2> SUFFICES ASSUME NEW j \in Stage PROVE Nested!(j)'
    BY DEF Nested
  <2>1. verdict[i + 1] = None /\ (i < Depth => mw[i + 1] = "out" /\ ~called[i + 1])
    BY DEF PipelineInv, Nested
  <2>2. CASE j = i
    BY <2>1, <2>2 DEF PipelineInv, PipelineTypeOK, Nested, Active, Dispatch
  <2>3. CASE j = i + 1
    BY <2>1, <2>3 DEF PipelineInv, PipelineTypeOK, Nested, Active, Dispatch
  <2>4. CASE j # i /\ j # i + 1
    <3>1. /\ mw'[j] = mw[j] /\ called'[j] = called[j]
          /\ verdict'[j] = verdict[j] /\ verdict'[j + 1] = verdict[j + 1]
          /\ j < Depth => mw'[j + 1] = mw[j + 1] \/ j + 1 = i
          /\ j \in floating' <=> j \in floating
      BY <2>4 DEF PipelineInv, PipelineTypeOK, Dispatch
    <3>2. ~called[j] => j + 1 # i
      BY <2>4 DEF PipelineInv, Nested
    <3> QED BY <3>1, <3>2 DEF PipelineInv, PipelineTypeOK, Nested, Active
  <2> QED BY <2>2, <2>3, <2>4
<1>3. OnionOrder'
  <2> SUFFICES ASSUME NEW p \in Stage, NEW q \in Stage, p < q, Active(q)',
                      \A k \in p .. q - 1 : k \notin floating'
               PROVE  mw'[p] = "awaiting"
    BY DEF OnionOrder, Active
  <2>1. CASE q = i + 1
    <3>1. CASE p = i
      BY <2>1, <3>1 DEF PipelineInv, PipelineTypeOK, Dispatch, Active, Nested
    <3>2. CASE p # i
      <4>1. p < i /\ \A k \in p .. i - 1 : k \notin floating BY <2>1, <3>2
      <4>2. mw[p] = "awaiting" BY <4>1 DEF PipelineInv, OnionOrder
      <4> QED BY <2>1, <4>1, <4>2 DEF PipelineInv, PipelineTypeOK, Dispatch
    <3> QED BY <3>1, <3>2
  <2>2. CASE q # i + 1
    <3>1. Active(q) /\ \A k \in p .. q - 1 : k \notin floating
      BY <2>2 DEF PipelineInv, PipelineTypeOK, Dispatch, Active
    <3>2. mw[p] = "awaiting" BY <3>1 DEF PipelineInv, OnionOrder, Active
    <3>3. p # i /\ p # i + 1 BY <3>2 DEF PipelineInv, Nested
    <3> QED BY <3>2, <3>3 DEF PipelineInv, PipelineTypeOK, Dispatch
  <2> QED BY <2>1, <2>2
<1>4. ErrorNamesCulprit'
  BY DEF PipelineInv, PipelineTypeOK, Nested, ErrorNamesCulprit, Dispatch, Failed, Active
<1> QED BY <1>1, <1>2, <1>3, <1>4 DEF PipelineInv

LEMMA Executes == ASSUME PipelineInv, Execute PROVE PipelineInv'
<1> USE ContextAssumption, Verdicts DEF Stage, Execute
<1>1. PipelineTypeOK'
  BY DEF PipelineInv, PipelineTypeOK, Dispatch
<1>2. Nested'
  BY DEF PipelineInv, PipelineTypeOK, Nested, Active, Dispatch
<1>3. OnionOrder'
  <2> SUFFICES ASSUME NEW p \in Stage, NEW q \in Stage, p < q, Active(q)',
                      \A k \in p .. q - 1 : k \notin floating'
               PROVE  mw'[p] = "awaiting"
    BY DEF OnionOrder, Active
  <2>1. Active(q) /\ floating' = floating
    BY DEF PipelineInv, PipelineTypeOK, Active, Dispatch
  <2>2. mw[p] = "awaiting" BY <2>1 DEF PipelineInv, OnionOrder, Active
  <2> QED BY <2>2 DEF PipelineInv, PipelineTypeOK, Dispatch
<1>4. ErrorNamesCulprit'
  BY DEF PipelineInv, PipelineTypeOK, Nested, ErrorNamesCulprit, Dispatch, Failed, Active
<1> QED BY <1>1, <1>2, <1>3, <1>4 DEF PipelineInv

LEMMA Resumes == ASSUME PipelineInv, NEW i \in Stage, Resume(i) PROVE PipelineInv'
<1> USE ContextAssumption, Verdicts DEF Stage, Resume
<1>1. PipelineTypeOK'
  BY DEF PipelineInv, PipelineTypeOK
<1>2. Nested'
  BY DEF PipelineInv, PipelineTypeOK, Nested, Active
<1>3. OnionOrder'
  <2> SUFFICES ASSUME NEW p \in Stage, NEW q \in Stage, p < q, Active(q)',
                      \A k \in p .. q - 1 : k \notin floating'
               PROVE  mw'[p] = "awaiting"
    BY DEF OnionOrder, Active
  <2>1. Active(q) /\ floating' = floating
    BY DEF PipelineInv, PipelineTypeOK, Active
  <2>2. mw[p] = "awaiting" BY <2>1 DEF PipelineInv, OnionOrder, Active
  <2>3. p # i
    <3> SUFFICES ASSUME p = i PROVE FALSE OBVIOUS
    <3>1. i + 1 \in Stage /\ ~Active(i + 1)
      BY <2>1 DEF PipelineInv, Nested, Active, PipelineTypeOK
    <3>2. i + 1 < q BY <2>1, <3>1
    <3>3. mw[i + 1] = "awaiting"
      BY <2>1, <3>1, <3>2 DEF PipelineInv, OnionOrder, Active
    <3> QED BY <3>1, <3>3 DEF Active
  <2> QED BY <2>2, <2>3 DEF PipelineInv, PipelineTypeOK
<1>4. ErrorNamesCulprit'
  BY DEF PipelineInv, PipelineTypeOK, Nested, ErrorNamesCulprit, Failed, Active
<1> QED BY <1>1, <1>2, <1>3, <1>4 DEF PipelineInv

LEMMA PassesOn == ASSUME PipelineInv, NEW i \in Stage, PassOn(i) PROVE PipelineInv'
<1> USE ContextAssumption, Verdicts DEF Stage, PassOn, Failed
<1>1. PipelineTypeOK'
  BY DEF PipelineInv, PipelineTypeOK
<1>2. Nested'
  BY DEF PipelineInv, PipelineTypeOK, Nested, Active
<1>3. OnionOrder'
  <2> SUFFICES ASSUME NEW p \in Stage, NEW q \in Stage, p < q, Active(q)',
                      \A k \in p .. q - 1 : k \notin floating'
               PROVE  mw'[p] = "awaiting"
    BY DEF OnionOrder, Active
  <2>1. Active(q) /\ floating' = floating
    BY DEF PipelineInv, PipelineTypeOK, Active
  <2>2. mw[p] = "awaiting" BY <2>1 DEF PipelineInv, OnionOrder, Active
  <2>3. p # i
    <3> SUFFICES ASSUME p = i PROVE FALSE OBVIOUS
    <3>1. i + 1 \in Stage /\ ~Active(i + 1)
      BY <2>1 DEF PipelineInv, Nested, Active, PipelineTypeOK
    <3>2. i + 1 < q BY <2>1, <3>1
    <3>3. mw[i + 1] = "awaiting"
      BY <2>1, <3>1, <3>2 DEF PipelineInv, OnionOrder, Active
    <3> QED BY <3>1, <3>3 DEF Active
  <2> QED BY <2>2, <2>3 DEF PipelineInv, PipelineTypeOK
<1>4. ErrorNamesCulprit'
  BY DEF PipelineInv, PipelineTypeOK, Nested, ErrorNamesCulprit, Active
<1> QED BY <1>1, <1>2, <1>3, <1>4 DEF PipelineInv

LEMMA PipelineKeeps == ASSUME PipelineInv, [Next]_vars PROVE PipelineInv'
<1>1. CASE UNCHANGED pipeline
  BY <1>1 DEF pipeline, PipelineInv, PipelineTypeOK, Nested, Active, OnionOrder,
              ErrorNamesCulprit, Failed
<1>2. CASE PipelineStep
  <2>1. CASE Execute BY <2>1, Executes
  <2>2. ASSUME NEW i \in Stage,
               \/ Edit(i) \/ Respond(i)
               \/ CallNext(i) \/ CallNextFloating(i) \/ CallNextAgain(i)
               \/ Resume(i) \/ PassOn(i) \/ ThrowOwn(i) \/ Return(i) \/ Crash(i)
        PROVE PipelineInv'
    <3>1. CASE Edit(i) \/ Respond(i) \/ Crash(i)
      BY <3>1, <1>1 DEF Edit, Respond, Crash
    <3>2. CASE CallNext(i) BY <3>2, Enters DEF CallNext
    <3>3. CASE CallNextFloating(i) BY <3>3, Enters DEF CallNextFloating
    <3>4. CASE Return(i) \/ ThrowOwn(i) \/ CallNextAgain(i) BY <3>4, Settles
    <3>5. CASE Resume(i) BY <3>5, Resumes
    <3>6. CASE PassOn(i) BY <3>6, PassesOn
    <3> QED BY <2>2, <3>1, <3>2, <3>3, <3>4, <3>5, <3>6
  <2> QED BY <1>2, <2>1, <2>2 DEF PipelineStep
<1> QED BY <1>1, <1>2 DEF Next, vars, HandOver

LEMMA PipelineInvariance == Spec => []PipelineInv
<1>1. Init => PipelineInv BY PipelineInits
<1>2. PipelineInv /\ [Next]_vars => PipelineInv' BY PipelineKeeps
<1> QED BY <1>1, <1>2, PTL DEF Spec

(* While a middleware runs, those outside it wait, however many there are  *)
(* and whatever they do (pipeline.ts).                                     *)
THEOREM OnionKeepsOrder == Spec => []OnionOrder
<1>1. PipelineInv => OnionOrder BY DEF PipelineInv
<1> QED BY <1>1, PipelineInvariance, PTL

(* A failure of the pipeline names the middleware that raised it, through  *)
(* every layer outside it (pipeline.ts, the rethrow).                      *)
THEOREM ErrorsKeepTheirName == Spec => []ErrorNamesCulprit
<1>1. PipelineInv => ErrorNamesCulprit BY DEF PipelineInv
<1> QED BY <1>1, PipelineInvariance, PTL

-----------------------------------------------------------------------------
(* The tool rounds.                                                        *)

(* Results of calls: one each, in order, and an error where there is no    *)
(* handler.                                                                *)
Answers(res, calls) ==
  \A n \in DOMAIN res : /\ res[n].to = n
                        /\ calls[n] \in Unknown => res[n].error

ToolsInOrder ==
  /\ tools = "off" => round = 0
  /\ tools \in {"primary", "running"} => Len(conversation) = round - 1
  /\ tools = "primary" => toolResults = <<>>
  /\ tools = "running" => /\ Len(toolResults) < Len(toolCalls)
                          /\ Answers(toolResults, toolCalls)

ToolInv == ToolTypeOK /\ ToolsInOrder /\ CallsHaveResults

LEMMA ToolInits == ASSUME Init PROVE ToolInv
<1>1. /\ tools = "off" /\ round = 0 /\ doomed = FALSE
      /\ toolCalls = <<>> /\ toolResults = <<>> /\ conversation = <<>>
  BY DEF Init, ToolInit
<1>2. ToolTypeOK
  <2>1. round \in 0 .. MaxRounds BY <1>1, ToolAssumption
  <2>2. /\ toolCalls \in Seq(Tool) /\ toolResults \in Seq(Result)
        /\ conversation \in Seq(Round)
    BY <1>1
  <2> QED BY <1>1, <2>1, <2>2 DEF ToolTypeOK
<1>3. ToolsInOrder BY <1>1 DEF ToolsInOrder
<1>4. CallsHaveResults BY <1>1 DEF CallsHaveResults
<1> QED BY <1>2, <1>3, <1>4 DEF ToolInv

LEMMA RoundEnters ==
  ASSUME ToolInv, NEW talk \in Seq(Round), Len(talk) = round, EnterRound(talk),
         \A k \in DOMAIN talk : /\ Len(talk[k].results) = Len(talk[k].calls)
                                /\ Answers(talk[k].results, talk[k].calls)
  PROVE  ToolInv'
<1>1. ToolTypeOK' BY ToolAssumption DEF ToolInv, ToolTypeOK, EnterRound
<1>2. ToolsInOrder'
  <2>1. round \in Nat /\ conversation' = talk /\ toolResults' = <<>>
    BY ToolAssumption DEF ToolInv, ToolTypeOK, EnterRound
  <2>2. \/ tools' = "primary" /\ round' = round + 1
        \/ tools' = "threw"
    BY DEF EnterRound
  <2> QED BY <2>1, <2>2 DEF ToolsInOrder
<1>3. CallsHaveResults' BY <1>2 DEF CallsHaveResults, ToolsInOrder, EnterRound, Answers
<1> QED BY <1>1, <1>2, <1>3 DEF ToolInv

LEMMA Concludes ==
  ASSUME ToolInv, tools = "running", NEW error \in BOOLEAN, Conclude(error),
         toolCalls[Current] \in Unknown => error
  PROVE  ToolInv'
<1> DEFINE step == [to |-> Current, error |-> error]
           res  == Append(toolResults, step)
<1>1. /\ toolResults \in Seq(Result) /\ toolCalls \in Seq(Tool) /\ conversation \in Seq(Round)
      /\ round \in 0 .. MaxRounds
      /\ Len(toolResults) < Len(toolCalls) /\ Answers(toolResults, toolCalls)
      /\ Len(conversation) = round - 1
  BY DEF ToolInv, ToolTypeOK, ToolsInOrder
<1>2. step \in Result /\ res \in Seq(Result) /\ Len(res) = Current
  BY <1>1 DEF Result, Current
<1>3. Answers(res, toolCalls) BY <1>1, <1>2 DEF Answers, Current
<1>4. CASE Current < Len(toolCalls)
  <2>1. /\ toolResults' = res
        /\ doomed' = ~HasTime /\ UNCHANGED <<tools, round, toolCalls, conversation>>
    BY <1>4 DEF Conclude
  <2>2. ToolTypeOK' BY <1>2, <2>1 DEF ToolInv, ToolTypeOK
  <2>3. ToolsInOrder' BY <1>1, <1>2, <1>3, <1>4, <2>1 DEF ToolsInOrder, Answers
  <2>4. CallsHaveResults' BY <2>1 DEF ToolInv, CallsHaveResults
  <2> QED BY <2>2, <2>3, <2>4 DEF ToolInv
<1>5. CASE ~(Current < Len(toolCalls))
  <2> DEFINE last == [calls |-> toolCalls, results |-> res]
             talk == Append(conversation, last)
  <2>1. EnterRound(talk) BY <1>5 DEF Conclude
  <2>2. Len(res) = Len(toolCalls) BY <1>1, <1>2, <1>5 DEF Current
  <2>3. last \in Round /\ talk \in Seq(Round) /\ Len(talk) = round
    BY <1>1, <1>2 DEF Round
  <2>4. \A k \in DOMAIN talk : /\ Len(talk[k].results) = Len(talk[k].calls)
                               /\ Answers(talk[k].results, talk[k].calls)
    <3> SUFFICES ASSUME NEW k \in DOMAIN talk
                 PROVE  /\ Len(talk[k].results) = Len(talk[k].calls)
                        /\ Answers(talk[k].results, talk[k].calls)
      OBVIOUS
    <3>1. CASE k \in DOMAIN conversation
      BY <1>1, <3>1 DEF ToolInv, CallsHaveResults, Answers
    <3>2. CASE k \notin DOMAIN conversation
      <4>1. talk[k].results = res /\ talk[k].calls = toolCalls BY <1>1, <3>2
      <4> HIDE DEF res, last, talk
      <4> QED BY <1>3, <2>2, <4>1
    <3> QED BY <3>1, <3>2
  <2> QED BY <2>1, <2>3, <2>4, RoundEnters
<1> QED BY <1>4, <1>5

LEMMA ToolsKeep == ASSUME ToolInv, [Next]_vars PROVE ToolInv'
<1>1. CASE UNCHANGED toolVars
  BY <1>1 DEF toolVars, ToolInv, ToolTypeOK, ToolsInOrder, CallsHaveResults, Answers
<1>2. CASE tools = "off" /\ EnterRound(<<>>)
  <2>1. round = Len(<<>>) /\ <<>> \in Seq(Round) BY <1>2 DEF ToolInv, ToolsInOrder
  <2>2. DOMAIN <<>> = {} OBVIOUS
  <2> DEFINE talk == <<>>
  <2>3. /\ talk \in Seq(Round) /\ Len(talk) = round /\ DOMAIN talk = {}
        /\ EnterRound(talk)
    BY <1>2, <2>1, <2>2
  <2> HIDE DEF talk
  <2> QED BY <2>3, RoundEnters
<1>3. ASSUME NEW calls \in Asked, PrimaryAnswers(calls) PROVE ToolInv'
  <2>1. calls \in Seq(Tool) BY ToolAssumption DEF Asked
  <2>2. ToolTypeOK' BY <1>3, <2>1 DEF PrimaryAnswers, ToolInv, ToolTypeOK
  <2>3. ToolsInOrder'
    BY <1>3, <2>1 DEF PrimaryAnswers, ToolInv, ToolTypeOK, ToolsInOrder, Answers
  <2>4. CallsHaveResults' BY <1>3 DEF PrimaryAnswers, ToolInv, CallsHaveResults
  <2> QED BY <2>2, <2>3, <2>4 DEF ToolInv
<1>4. CASE PrimaryFails
  BY <1>4 DEF PrimaryFails, ToolInv, ToolTypeOK, ToolsInOrder, CallsHaveResults
<1>5. CASE NoHandler BY <1>5, Concludes DEF NoHandler, Running
<1>6. ASSUME NEW error \in BOOLEAN, RemoteEnds(error) \/ LocalEnds(error) PROVE ToolInv'
  <2>1. toolCalls[Current] \notin Unknown
    BY <1>6, ToolAssumption DEF RemoteEnds, LocalEnds, Running
  <2> QED BY <1>6, <2>1, Concludes DEF RemoteEnds, LocalEnds, Running
<1> QED BY <1>1, <1>2, <1>3, <1>4, <1>5, <1>6
        DEF Next, vars, ToolStep, HandOver, StartTools

LEMMA ToolInvariance == Spec => []ToolInv
<1>1. Init => ToolInv BY ToolInits
<1>2. ToolInv /\ [Next]_vars => ToolInv' BY ToolsKeep
<1> QED BY <1>1, <1>2, PTL DEF Spec

(* No tool call of a conversation is ever without its result, for any      *)
(* tools, answers and number of rounds (tool-router.ts).                   *)
THEOREM CallsAlwaysHaveResults == Spec => []CallsHaveResults
<1>1. ToolInv => CallsHaveResults BY DEF ToolInv
<1> QED BY <1>1, ToolInvariance, PTL

-----------------------------------------------------------------------------
(* The chain.                                                              *)

(* Each result so far is the step's answer or what its policy makes of a   *)
(* failure, and none before the last stopped the chain.                    *)
ResultsByPolicy ==
  /\ \A k \in DOMAIN results :
       \/ results[k] = [status |-> "success", text |-> AnswerText(k)]
       \/ results[k] = ErrorResult(k)
  /\ \A k \in DOMAIN results :
       /\ k < Len(results) \/ chain \in {"off", "looping", "calling"}
       /\ results[k].text.kind # "answer"
       => ~ShouldAbort(k)
  /\ chain \in {"answered", "threw"} /\ Len(results) < StepCount
       => LET last == Len(results)
          IN  last > 0 /\ results[last].text.kind # "answer" /\ ShouldAbort(last)

Good == {k \in DOMAIN results : Usable(results[k])}

(* A chain throws exactly when no step was of use; there is a last one     *)
(* otherwise.                                                              *)
LastGood ==
  /\ chain = "threw" => Good = {}
  /\ chain = "answered" => Good # {}
  /\ Good # {} => \E k \in Good : \A j \in Good : j <= k

(* While there is time, or a call is under way, everything is remembered.  *)
PastKept ==
  /\ chain = "off" => results = <<>>
  /\ chain = "calling" \/ (chain \in {"off", "looping"} /\ ~late) =>
       /\ DOMAIN stepMap = DOMAIN results
       /\ \A j \in DOMAIN results : stepMap[j] = results[j].text
       /\ previous = IF results = <<>> THEN ClientText ELSE results[Len(results)].text
  /\ chain = "calling" => body = previous

ChainInv == ChainTypeOK /\ ResultsByPolicy /\ LastGood /\ PastKept

LEMMA ChainInits == ASSUME Init PROVE ChainInv
<1> USE ChainAssumption
<1>1. /\ chain = "off" /\ policy = [i \in Steps |-> "fail"] /\ results = <<>>
      /\ stepMap = [j \in {} |-> ClientText]
      /\ previous = ClientText /\ body = ClientText
  BY DEF Init, ChainInit
<1>2. Len(results) = 0 /\ DOMAIN results = {} /\ results \in Seq(StepResult)
  BY <1>1
<1>3. ChainTypeOK
  <2>1. ClientText \in Text BY DEF ClientText, Text
  <2>2. policy \in [Steps -> Policy] BY <1>1 DEF Policy
  <2> QED BY <1>1, <1>2, <2>1, <2>2 DEF ChainTypeOK
<1>4. ResultsByPolicy BY <1>1, <1>2 DEF ResultsByPolicy
<1>5. LastGood BY <1>1, <1>2 DEF LastGood, Good
<1>6. PastKept BY <1>1, <1>2 DEF PastKept
<1> QED BY <1>3, <1>4, <1>5, <1>6 DEF ChainInv

(* What a policy makes of a failure is no answer, and of use only under    *)
(* 'default'.                                                              *)
LEMMA ErrorResults ==
  ASSUME NEW i \in Steps, policy \in [Steps -> Policy]
  PROVE  /\ ErrorResult(i) \in StepResult
         /\ ErrorResult(i).text.kind # "answer"
         /\ ErrorResult(i).text.from = i
         /\ Usable(ErrorResult(i)) <=> policy[i] = "default"
         /\ Usable(ErrorResult(i)) => ErrorResult(i).text.kind = "default"
         /\ ErrorResult(i).status # "success"
         /\ ~ShouldAbort(i) <=> policy[i] \in {"skip", "default"}
<1>0. i \in 0 .. StepCount BY ChainAssumption DEF Steps
<1>1. policy[i] \in Policy OBVIOUS
<1>2. CASE policy[i] = "skip"
  BY <1>0, <1>2 DEF ErrorResult, NoText, StepResult, Text, Usable, ShouldAbort
<1>3. CASE policy[i] = "default"
  BY <1>0, <1>3 DEF ErrorResult, DefaultText, StepResult, Text, Usable, ShouldAbort
<1>4. CASE policy[i] \in {"fail", "partial"}
  BY <1>0, <1>4 DEF ErrorResult, NoText, StepResult, Text, Usable, ShouldAbort
<1> QED BY <1>1, <1>2, <1>3, <1>4 DEF Policy

(* A step's result is pushed, and remembered unless the time is up.        *)
LEMMA Pushes ==
  ASSUME ChainInv, chain \in {"looping", "calling"},
         NEW step, NEW stop \in BOOLEAN, Push(step, stop),
         \/ step = [status |-> "success", text |-> AnswerText(Step)] /\ stop = FALSE
         \/ step = ErrorResult(Step) /\ stop = ShouldAbort(Step),
         UNCHANGED <<late, policy, body>>,
         \/ chain = "calling" /\ Remember(step)
         \/ late /\ UNCHANGED <<stepMap, previous>>
  PROVE  ChainInv'
<1> USE ChainAssumption
<1>1. /\ results \in Seq(StepResult) /\ Len(results) \in Nat /\ Len(results) < StepCount
      /\ policy \in [Steps -> Policy]
  BY DEF ChainInv, ChainTypeOK
<1>2. Step \in Steps /\ Step = Len(results) + 1 /\ Step \in 0 .. StepCount
  BY <1>1 DEF Step, Steps
<1>3. step \in StepResult
  BY <1>1, <1>2, ErrorResults DEF AnswerText, StepResult, Text
<1>4. /\ results' = Append(results, step) /\ results' \in Seq(StepResult)
      /\ Len(results') = Step /\ results'[Step] = step
      /\ DOMAIN results' = DOMAIN results \cup {Step}
      /\ Step \notin DOMAIN results
      /\ \A k \in DOMAIN results : results'[k] = results[k] /\ k < Step /\ k \in Steps
  BY <1>1, <1>2, <1>3 DEF Push, Steps
<1>5. /\ chain' \in {"looping", "answered", "threw"}
      /\ chain' = "looping" <=> ~stop /\ Step < StepCount
      /\ chain' = "answered" => \E k \in DOMAIN results' : Usable(results'[k])
      /\ chain' = "threw" => ~\E k \in DOMAIN results' : Usable(results'[k])
  <2> DEFINE goesOn == ~stop /\ Step < StepCount
             useful == \E k \in DOMAIN results' : Usable(results'[k])
  <2>1. chain' = IF goesOn THEN "looping" ELSE IF useful THEN "answered" ELSE "threw"
    BY DEF Push
  <2> HIDE DEF goesOn, useful
  <2>2. /\ chain' \in {"looping", "answered", "threw"}
        /\ chain' = "looping" <=> goesOn
        /\ chain' = "answered" => useful
        /\ chain' = "threw" => ~useful
    BY <2>1
  <2> QED BY <2>2 DEF goesOn, useful
<1>6. ChainTypeOK'
  <2>1. step.text \in Text BY <1>3 DEF StepResult
  <2>2. /\ DOMAIN stepMap' \subseteq Steps
        /\ \A j \in DOMAIN stepMap' : stepMap'[j] \in Text
        /\ previous' \in Text
    BY <1>2, <2>1 DEF ChainInv, ChainTypeOK, Remember
  <2>3. Len(results') <= StepCount /\ (chain' = "looping" => Len(results') < StepCount)
    BY <1>1, <1>2, <1>4, <1>5
  <2> QED BY <1>4, <1>5, <2>2, <2>3 DEF ChainInv, ChainTypeOK
<1>7. ResultsByPolicy'
  <2>1. \A k \in DOMAIN results' :
          \/ results'[k] = [status |-> "success", text |-> AnswerText(k)]
          \/ results'[k] = ErrorResult(k)'
    BY <1>4 DEF ChainInv, ResultsByPolicy, ErrorResult
  <2>2. step.text.kind # "answer" => stop = ShouldAbort(Step)
    BY <1>2 DEF AnswerText
  <2>3. stop => step.text.kind # "answer" /\ ShouldAbort(Step)
    BY <1>1, <1>2, ErrorResults
  <2>4. \A k \in DOMAIN results : results[k].text.kind # "answer" => ~ShouldAbort(k)
    BY DEF ChainInv, ResultsByPolicy
  <2>5. \A k : ShouldAbort(k)' <=> ShouldAbort(k)
    BY DEF ShouldAbort
  <2>6. ASSUME NEW k \in DOMAIN results',
               k < Len(results') \/ chain' \in {"off", "looping", "calling"},
               results'[k].text.kind # "answer"
        PROVE  ~ShouldAbort(k)'
    BY <1>4, <1>5, <2>2, <2>4, <2>5, <2>6
  <2>7. (chain \in {"answered", "threw"} /\ Len(results) < StepCount =>
           /\ Len(results) > 0 /\ results[Len(results)].text.kind # "answer"
           /\ ShouldAbort(Len(results)))'
    <3>1. stop => step.text.kind # "answer" /\ policy'[Step] \in {"fail", "partial"}
      BY <2>3 DEF ShouldAbort
    <3> QED BY <1>1, <1>2, <1>4, <1>5, <3>1 DEF ShouldAbort
  <2> QED BY <2>1, <2>6, <2>7 DEF ResultsByPolicy
<1>8. LastGood'
  <2>1. Good' = Good \cup {k \in {Step} : Usable(step)}
    BY <1>4 DEF Good, Usable
  <2>2. Good' # {} => \E k \in Good' : \A j \in Good' : j <= k
    <3>1. CASE Usable(step)
      <4>1. Step \in Good' BY <2>1, <3>1
      <4>2. \A j \in Good' : j <= Step BY <1>2, <1>4, <2>1 DEF Good
      <4> QED BY <4>1, <4>2
    <3>2. CASE ~Usable(step)
      BY <2>1, <3>2 DEF ChainInv, LastGood
    <3> QED BY <3>1, <3>2
  <2>3. chain' = "threw" => Good' = {} BY <1>5 DEF Good, Usable
  <2>4. chain' = "answered" => Good' # {} BY <1>5 DEF Good, Usable
  <2> QED BY <2>2, <2>3, <2>4 DEF LastGood
<1>9. PastKept'
  <2>1. CASE late BY <1>5, <2>1 DEF PastKept
  <2>2. CASE ~late
    <3>1. chain = "calling" /\ Remember(step) BY <2>2
    <3>2. DOMAIN stepMap = DOMAIN results /\ \A j \in DOMAIN results : stepMap[j] = results[j].text
      BY <3>1 DEF ChainInv, PastKept
    <3>3. /\ DOMAIN stepMap' = DOMAIN results'
          /\ \A j \in DOMAIN results' : stepMap'[j] = results'[j].text
      BY <1>4, <3>1, <3>2 DEF Remember
    <3>4. results' # <<>> /\ previous' = results'[Len(results')].text
      BY <1>2, <1>4, <3>1 DEF Remember
    <3> QED BY <1>5, <3>3, <3>4 DEF PastKept
  <2> QED BY <2>1, <2>2
<1> QED BY <1>6, <1>7, <1>8, <1>9 DEF ChainInv

LEMMA ChainKeeps == ASSUME ChainInv, [Next]_vars PROVE ChainInv'
<1>1. CASE UNCHANGED chainVars /\ (late => late')
  <2>1. UNCHANGED <<chain, policy, results, stepMap, previous, body>>
    BY <1>1 DEF chainVars
  <2> QED BY <1>1, <2>1
          DEF ChainInv, ChainTypeOK, ResultsByPolicy, LastGood, PastKept, Good,
              ErrorResult, ShouldAbort
<1>2. CASE StartChain /\ UNCHANGED context
  <2>1. /\ chain = "off" /\ chain' = "looping" /\ policy' \in [Steps -> Policy]
        /\ UNCHANGED <<results, stepMap, previous, body, late>>
        /\ results = <<>>
    BY <1>2 DEF StartChain, context, ChainInv, PastKept
  <2>2. Len(results) = 0 /\ DOMAIN results = {} BY <2>1
  <2>3. ChainTypeOK' BY <2>1, <2>2, ChainAssumption DEF ChainInv, ChainTypeOK
  <2>4. ResultsByPolicy' BY <2>1, <2>2 DEF ResultsByPolicy
  <2>5. LastGood' BY <2>1, <2>2 DEF LastGood, Good
  <2>6. PastKept' BY <2>1 DEF ChainInv, PastKept
  <2> QED BY <2>3, <2>4, <2>5, <2>6 DEF ChainInv
<1>3. CASE StepExpires
  <2>1. ShouldAbort(Step) \in BOOLEAN BY DEF ShouldAbort
  <2>2. late /\ chain = "looping" BY <1>3 DEF StepExpires, HasTime
  <2> QED BY <1>3, <2>1, <2>2, Pushes DEF StepExpires, context
<1>4. CASE CallStep
  <2>1. /\ chain = "looping" /\ ~late /\ chain' = "calling" /\ body' = previous
        /\ UNCHANGED <<late, policy, results, stepMap, previous>>
    BY <1>4 DEF CallStep, HasTime, context
  <2>2. ChainTypeOK' BY <2>1 DEF ChainInv, ChainTypeOK
  <2>3. ResultsByPolicy'
    BY <2>1 DEF ChainInv, ResultsByPolicy, ErrorResult, ShouldAbort
  <2>4. LastGood' BY <2>1 DEF ChainInv, LastGood, Good
  <2>5. PastKept' BY <2>1 DEF ChainInv, PastKept
  <2> QED BY <2>2, <2>3, <2>4, <2>5 DEF ChainInv
<1>5. CASE StepSucceeds
  BY <1>5, Pushes DEF StepSucceeds, context
<1>6. CASE StepFails
  <2>1. ShouldAbort(Step) \in BOOLEAN BY DEF ShouldAbort
  <2> QED BY <1>6, <2>1, Pushes DEF StepFails, context
<1>7. CASE UNCHANGED chainVars /\ (Expire \/ PipelineStep \/ ToolStep)
  <2>1. late => late'
    BY <1>7 DEF Expire, PipelineStep, Execute, Edit, Respond, CallNext,
         CallNextFloating, CallNextAgain, Resume, PassOn, ThrowOwn, Throw, Return,
         Crash, ToolStep, PrimaryAnswers, PrimaryFails, NoHandler, RemoteEnds,
         LocalEnds, context
  <2> QED BY <1>1, <1>7, <2>1
<1>8. CASE UNCHANGED chainVars /\ UNCHANGED context
  BY <1>1, <1>8 DEF context
<1>9. CASE HandOver BY <1>2, <1>8, <1>9 DEF HandOver
<1> QED BY <1>3, <1>4, <1>5, <1>6, <1>7, <1>8, <1>9 DEF Next, ChainStep, vars

LEMMA ChainInvariance == Spec => []ChainInv
<1>1. Init => ChainInv BY ChainInits
<1>2. ChainInv /\ [Next]_vars => ChainInv' BY ChainKeeps
<1> QED BY <1>1, <1>2, PTL DEF Spec

(* A step is never called without the results of all the steps before it,  *)
(* nor, unless the last of them was skipped, on another text than that     *)
(* one's, for any chain (chain.ts).                                        *)
THEOREM StepsAlwaysSeeTheirPast == Spec => []StepsSeeTheirPast
<1>1. ChainInv => StepsSeeTheirPast BY DEF ChainInv, PastKept, StepsSeeTheirPast
<1> QED BY <1>1, ChainInvariance, PTL

(* A chain goes as far as its policies say; it throws without a step of    *)
(* use and, unless 'fail' stopped it, answers with the last one there is,  *)
(* for any number of steps and any policies (core/composer.ts).            *)
THEOREM ChainAlwaysKeepsPolicies == Spec => []ChainKeepsPolicies
<1>1. ChainInv => ChainKeepsPolicies
  <2> SUFFICES ASSUME ChainInv, chain \in {"answered", "threw"}
               PROVE  ChainKeepsPolicies
    BY DEF ChainKeepsPolicies
  <2> DEFINE ended == Len(results)
             held  == {k \in 1 .. ended : results[k].text.kind = "answer" \/ policy[k] = "default"}
  <2>1. /\ results \in Seq(StepResult) /\ ended \in Nat /\ ended <= StepCount
        /\ policy \in [Steps -> Policy]
        /\ DOMAIN results = 1 .. ended
        /\ \A k \in 1 .. ended : k \in Steps
    BY ChainAssumption DEF ChainInv, ChainTypeOK, Steps
  <2>2. ASSUME NEW k \in 1 .. ended
        PROVE  \/ /\ results[k].text.kind = "answer" /\ results[k].text.from = k
                  /\ Usable(results[k])
               \/ /\ results[k].text.kind # "answer" /\ results[k].text.from = k
                  /\ Usable(results[k]) <=> policy[k] = "default"
                  /\ Usable(results[k]) => results[k].text.kind = "default"
    <3>1. k \in Steps BY <2>1
    <3>2. CASE results[k] = [status |-> "success", text |-> AnswerText(k)]
      BY <3>2 DEF AnswerText, Usable
    <3>3. CASE results[k] = ErrorResult(k)
      BY <2>1, <3>1, <3>3, ErrorResults
    <3> QED BY <2>1, <3>2, <3>3 DEF ChainInv, ResultsByPolicy
  <2>3. held = Good BY <2>1, <2>2 DEF Good
  <2>4. \A k \in 1 .. ended - 1 :
          results[k].text.kind # "answer" => policy[k] \in {"skip", "default"}
    <3> SUFFICES ASSUME NEW k \in 1 .. ended - 1, results[k].text.kind # "answer"
                 PROVE  policy[k] \in {"skip", "default"}
      OBVIOUS
    <3>1. k \in DOMAIN results /\ k < Len(results) /\ k \in Steps BY <2>1
    <3>2. ~ShouldAbort(k) BY <3>1 DEF ChainInv, ResultsByPolicy
    <3> QED BY <2>1, <3>1, <3>2 DEF ShouldAbort, Policy
  <2>5. ended < StepCount => /\ results[ended].text.kind # "answer"
                             /\ policy[ended] \in {"fail", "partial"}
    BY DEF ChainInv, ResultsByPolicy, ShouldAbort
  <2>6. chain = "threw" <=> held = {}
    BY <2>3 DEF ChainInv, LastGood
  <2>7. ASSUME held # {}
        PROVE  /\ ChainAnswer.from \in held
               /\ \A k \in held : k <= ChainAnswer.from
               /\ ChainAnswer.kind # "empty"
    <3> DEFINE last == CHOOSE k \in Good : \A j \in Good : j <= k
    <3>1. \E k \in Good : \A j \in Good : j <= k
      BY <2>3, <2>7 DEF ChainInv, LastGood
    <3>2. last \in Good /\ \A j \in Good : j <= last BY <3>1
    <3>3. ChainAnswer = results[last].text BY DEF ChainAnswer, Good
    <3> HIDE DEF last
    <3>4. last \in 1 .. ended /\ Usable(results[last]) BY <2>1, <3>2 DEF Good
    <3>5. ChainAnswer.from = last /\ ChainAnswer.kind # "empty"
      BY <2>2, <3>3, <3>4
    <3> QED BY <2>3, <3>2, <3>5
  <2>8. /\ held = {} => chain = "threw"
        /\ held # {} => chain = "answered"
    BY <2>6
  <2> QED BY <2>4, <2>5, <2>7, <2>8 DEF ChainKeepsPolicies
<1> QED BY <1>1, ChainInvariance, PTL

-----------------------------------------------------------------------------
LEMMA ContextKeeps == ASSUME ContextTypeOK, [Next]_vars PROVE ContextTypeOK'
<1>1. CASE UNCHANGED context BY <1>1 DEF context, ContextTypeOK
<1>2. CASE Expire BY <1>2 DEF Expire, ContextTypeOK
<1>3. CASE PipelineStep
  <2>1. ASSUME NEW i \in Stage, Edit(i) \/ Respond(i) \/ Crash(i)
        PROVE  ContextTypeOK'
    BY <2>1 DEF Edit, Respond, Crash, ContextTypeOK, Stage
  <2> QED BY <1>1, <1>3, <2>1
          DEF PipelineStep, Execute, CallNext, CallNextFloating, CallNextAgain,
              Resume, PassOn, ThrowOwn, Throw, Return
<1>4. CASE ChainStep
  BY <1>1, <1>4 DEF ChainStep, StepExpires, CallStep, StepSucceeds, StepFails
<1>5. CASE ToolStep
  BY <1>1, <1>5 DEF ToolStep, PrimaryAnswers, PrimaryFails, NoHandler, RemoteEnds, LocalEnds
<1>6. CASE HandOver BY <1>1, <1>6 DEF HandOver
<1> QED BY <1>1, <1>2, <1>3, <1>4, <1>5, <1>6 DEF Next, vars

(* Every variable stays in its type, for any pipeline and route.           *)
THEOREM TypeCorrect == Spec => []TypeOK
<1>1. Init => ContextTypeOK BY DEF Init, ContextInit, ContextTypeOK
<1>2. ContextTypeOK /\ [Next]_vars => ContextTypeOK' BY ContextKeeps
<1>3. PipelineInv /\ ToolInv /\ ChainInv /\ ContextTypeOK => TypeOK
  BY DEF PipelineInv, ToolInv, ChainInv, TypeOK
<1> QED BY <1>1, <1>2, <1>3, PipelineInvariance, ToolInvariance, ChainInvariance, PTL DEF Spec
=============================================================================
