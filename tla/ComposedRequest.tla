-------------------------- MODULE ComposedRequest ---------------------------
(***************************************************************************)
(* A request of a compose route, from its pipeline to the composer's       *)
(* answer: src/src/server/router.ts runs the pipeline and, unless that     *)
(* answers or fails, hands over to the chain or to the tool rounds.  What  *)
(* comes after is RouteRequest's.                                          *)
(***************************************************************************)
EXTENDS Pipeline, ChainComposer, ToolRouter

vars == <<context, pipeline, chainVars, toolVars>>

TypeOK == ContextTypeOK /\ PipelineTypeOK /\ ChainTypeOK /\ ToolTypeOK

Init == ContextInit /\ PipelineInit /\ ChainInit /\ ToolInit

PipelinePassed == verdict[1] = Settled /\ ~response

HandOver ==
  /\ ~crashed
  /\ PipelinePassed
  /\ chain = "off" /\ tools = "off"
  /\ \/ StartChain /\ UNCHANGED toolVars
     \/ StartTools /\ UNCHANGED chainVars
  /\ UNCHANGED <<context, pipeline>>

(* The chain builds its requests from ctx.original, and the tool rounds    *)
(* begin with the client's request as it was parsed: neither is            *)
(* ctx.request.                                                            *)
BaseRequest == original

Next ==
  \/ Expire /\ UNCHANGED <<pipeline, chainVars, toolVars>>
  \/ PipelineStep /\ UNCHANGED <<chainVars, toolVars>>
  \/ HandOver
  \/ ChainStep /\ UNCHANGED <<pipeline, toolVars>>
  \/ ToolStep /\ UNCHANGED <<pipeline, chainVars>>

(* The budget bounds every call to a provider.  Nothing bounds a           *)
(* middleware or a tool's local function.                                  *)
Fairness ==
  /\ WF_vars(ChainStep /\ UNCHANGED <<pipeline, toolVars>>)
  /\ WF_vars(~Running(Local) /\ ToolStep /\ UNCHANGED <<pipeline, chainVars>>)

Spec == Init /\ [][Next]_vars /\ Fairness

-----------------------------------------------------------------------------
(* Properties.                                                             *)

(* The onion: while a middleware runs, those outside it wait, unless one   *)
(* between them went on without awaiting next(); so none is left running   *)
(* when the pipeline is through (pipeline.ts, the comment on the class).   *)
OnionOrder ==
  \A i, j \in Stage :
    /\ i < j
    /\ mw[j] \in {"running", "awaiting"}
    /\ \A k \in i .. j - 1 : k \notin floating
    => mw[i] = "awaiting"

(* A failure keeps its name on the way out: what dispatch(i) rejects with  *)
(* was thrown by middleware i itself, or is what the one inside rejected   *)
(* with, letter for letter; and a timeout comes from a step that was never *)
(* entered (pipeline.ts, the rethrow).                                     *)
ErrorNamesCulprit ==
  \A i \in Stage :
    Failed(i) =>
      \/ mw[i] = "threw" /\ verdict[i].step = i
      \/ mw[i] = "passed" /\ verdict[i] = verdict[i + 1]
      \/ mw[i] = "out" /\ verdict[i] = Timeout(i)

(* Templates and the next step see all there is: whenever a step is        *)
(* called, every earlier one is known with the text of its result, and its *)
(* own text is that of the step just before it, the client's in the first  *)
(* one.  After a skipped step nothing is claimed of its own text: there    *)
(* the code and its document differ (PoliciesAsDocumented).  The branch of *)
(* a spent budget leaves neither, which is only sound because no call      *)
(* follows it (chain.ts).                                                  *)
StepsSeeTheirPast ==
  chain = "calling" =>
    /\ DOMAIN stepMap = DOMAIN results
    /\ \A j \in DOMAIN results : stepMap[j] = results[j].text
    /\ results = <<>> => body = ClientText
    /\ results # <<>> /\ results[Len(results)].status # "skipped" =>
         body = results[Len(results)].text

(* The step that stopped the chain failed with the policy 'fail'.          *)
StoppedByFail ==
  /\ results[Len(results)].status = "error"
  /\ policy[Len(results)] = "fail"

(* A chain ends where its policies say: 'fail' and 'partial' stop it,      *)
(* 'skip' and 'default' do not.  Without any useful step it throws; with   *)
(* one it answers, with what the last useful step left.  Of a chain with a *)
(* useful step which 'fail' stopped nothing is claimed: there the code and *)
(* its document differ (PoliciesAsDocumented; ErrorPolicy in               *)
(* core/composer.ts).                                                      *)
ChainKeepsPolicies ==
  chain \in {"answered", "threw"} =>
    LET ended == Len(results)
        held  == {k \in 1 .. ended : results[k].text.kind = "answer" \/ policy[k] = "default"}
    IN  /\ \A k \in 1 .. ended - 1 :
             results[k].text.kind # "answer" => policy[k] \in {"skip", "default"}
        /\ ended < StepCount => /\ results[ended].text.kind # "answer"
                                /\ policy[ended] \in {"fail", "partial"}
        /\ held = {} => chain = "threw"
        /\ held # {} /\ ~StoppedByFail =>
             /\ chain = "answered"
             /\ ChainAnswer.from \in held
             /\ \A k \in held : k <= ChainAnswer.from
             /\ ChainAnswer.kind # "empty"

(* What docs/DEEP-DIVE-INGRESS-AND-COMPOSITION.md:415-424 says of two      *)
(* policies.  'skip': "Skip this step, continue with previous output", so a*)
(* step is given the text of the last step that was not skipped.  'fail':  *)
(* "Whole composition fails", so a chain with such a step never answers.   *)
PoliciesAsDocumented ==
  /\ chain = "calling" =>
       LET kept == {k \in DOMAIN results : results[k].status # "skipped"}
       IN  body = IF kept = {} THEN ClientText
                  ELSE results[CHOOSE k \in kept : \A j \in kept : j <= k].text
  /\ chain = "answered" =>
       \A k \in DOMAIN results : ~(results[k].status = "error" /\ policy[k] = "fail")

(* Whenever the primary model is called, each tool call of each earlier    *)
(* round has one result, in order: a model rejects a conversation in which *)
(* one is missing (tool-router.ts 90-131).                                 *)
CallsHaveResults ==
  /\ tools = "primary" => Len(conversation) = round - 1
  /\ \A k \in DOMAIN conversation :
       /\ Len(conversation[k].results) = Len(conversation[k].calls)
       /\ \A n \in DOMAIN conversation[k].results :
            /\ conversation[k].results[n].to = n
            /\ conversation[k].calls[n] \in Unknown => conversation[k].results[n].error

(* A composition ends, unless a local function keeps it or the process     *)
(* dies.                                                                   *)
CompositionEnds ==
  (chain # "off" \/ tools # "off")
    ~> \/ chain \in {"answered", "threw"}
       \/ tools \in {"answered", "threw"}
       \/ crashed
       \/ [](tools = "running" /\ Running(Local))

(* The providers are sent what the pipeline made of the request.           *)
EditsReachProviders ==
  chain = "calling" \/ tools = "primary" => BaseRequest = request
=============================================================================
