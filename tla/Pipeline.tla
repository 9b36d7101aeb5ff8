------------------------------ MODULE Pipeline ------------------------------
(***************************************************************************)
(* The onion of src/src/core/pipeline.ts: each middleware runs, may call   *)
(* next() to run the rest inside it, and runs on.  dispatch(i) is the      *)
(* promise of middleware i, dispatch(Depth + 1) that of the empty rest.    *)
(* Middleware is the user's: it edits the request, answers, throws,        *)
(* catches, calls next() once more or forgets to await it.                 *)
(***************************************************************************)
EXTENDS RequestContext

CONSTANTS
  Careless,    \* middlewares that may not await their next()
  Editors      \* middlewares that edit the request

Stage == 1 .. Depth

ASSUME PipelineAssumption == Careless \subseteq Stage /\ Editors \subseteq Stage

VARIABLES
  mw,         \* what each middleware does
  called,     \* nextCalled
  floating,   \* middlewares that went on without awaiting next()
  verdict     \* how each dispatch settled

pipeline == <<mw, called, floating, verdict>>

(* An error carries the name of the step it was thrown at.                 *)
Errors == [code : {"timeout", "twice", "own"}, step : 1 .. Depth + 1]
None    == [code |-> "none", step |-> 0]
Settled == [code |-> "ok", step |-> 0]
Timeout(i) == [code |-> "timeout", step |-> i]
Twice(i)   == [code |-> "twice", step |-> i]
Own(i)     == [code |-> "own", step |-> i]

PipelineTypeOK ==
  /\ mw \in [Stage -> {"out", "running", "awaiting", "left", "threw", "passed"}]
  /\ called \in [Stage -> BOOLEAN]
  /\ floating \subseteq Careless
  /\ verdict \in [1 .. Depth + 1 -> Errors \cup {None, Settled}]

PipelineInit ==
  /\ mw = [i \in Stage |-> "out"]
  /\ called = [i \in Stage |-> FALSE]
  /\ floating = {}
  /\ verdict = [i \in 1 .. Depth + 1 |-> None]

Failed(i) == verdict[i] \in Errors

-----------------------------------------------------------------------------
(* dispatch(i), up to the first await of middleware i; stages is what the  *)
(* middlewares do after it.                                                *)
Dispatch(i, stages) ==
  \/ /\ ~HasTime
     /\ verdict' = [verdict EXCEPT ![i] = Timeout(i)]
     /\ mw' = stages
  \/ /\ HasTime /\ i > Depth
     /\ verdict' = [verdict EXCEPT ![i] = Settled]
     /\ mw' = stages
  \/ /\ HasTime /\ i <= Depth
     /\ mw' = [stages EXCEPT ![i] = "running"]
     /\ UNCHANGED verdict

Execute ==
  /\ ~crashed
  /\ verdict[1] = None /\ mw[1] = "out"
  /\ Dispatch(1, mw)
  /\ UNCHANGED <<context, called, floating>>

Edit(i) ==
  /\ ~crashed
  /\ mw[i] = "running" /\ i \in Editors
  /\ request' = request \cup {i}
  /\ UNCHANGED <<late, original, response, crashed, pipeline>>

Respond(i) ==
  /\ ~crashed
  /\ mw[i] = "running"
  /\ response' = TRUE
  /\ UNCHANGED <<late, original, request, crashed, pipeline>>

\* Mutant: next() does not wait for the rest.
CallNextAtOnce(i) ==
  /\ ~crashed
  /\ mw[i] = "running" /\ ~called[i]
  /\ called' = [called EXCEPT ![i] = TRUE]
  /\ Dispatch(i + 1, mw)
  /\ UNCHANGED <<context, floating>>

(* await next()                                                            *)
CallNext(i) ==
  /\ ~crashed
  /\ mw[i] = "running" /\ ~called[i]
  /\ called' = [called EXCEPT ![i] = TRUE]
  /\ Dispatch(i + 1, [mw EXCEPT ![i] = "awaiting"])
  /\ UNCHANGED <<context, floating>>

(* next(), not awaited: both go on.                                        *)
CallNextFloating(i) ==
  /\ ~crashed
  /\ i \in Careless
  /\ mw[i] = "running" /\ ~called[i]
  /\ called' = [called EXCEPT ![i] = TRUE]
  /\ floating' = floating \cup {i}
  /\ Dispatch(i + 1, mw)
  /\ UNCHANGED context

(* The rest has settled: well, or with an error that the middleware        *)
(* catches ...                                                             *)
Resume(i) ==
  /\ ~crashed
  /\ mw[i] = "awaiting" /\ verdict[i + 1] # None
  /\ mw' = [mw EXCEPT ![i] = "running"]
  /\ UNCHANGED <<context, called, floating, verdict>>

\* Mutant: every error is wrapped again.
PassOnWrapped(i) ==
  /\ ~crashed
  /\ mw[i] = "awaiting" /\ Failed(i + 1)
  /\ mw' = [mw EXCEPT ![i] = "passed"]
  /\ verdict' = [verdict EXCEPT ![i] = Own(i)]
  /\ UNCHANGED <<context, called, floating>>

(* ... or lets through, and dispatch rethrows it as it is.                 *)
PassOn(i) ==
  /\ ~crashed
  /\ mw[i] = "awaiting" /\ Failed(i + 1)
  /\ mw' = [mw EXCEPT ![i] = "passed"]
  /\ verdict' = [verdict EXCEPT ![i] = verdict[i + 1]]
  /\ UNCHANGED <<context, called, floating>>

Throw(i, error) ==
  /\ mw' = [mw EXCEPT ![i] = "threw"]
  /\ verdict' = [verdict EXCEPT ![i] = error]
  /\ UNCHANGED <<context, called, floating>>

(* A middleware throws; what is no PipelineError is wrapped in one.        *)
ThrowOwn(i) ==
  /\ ~crashed
  /\ mw[i] = "running"
  /\ Throw(i, Own(i))

(* It calls next() again, which throws into it.                            *)
CallNextAgain(i) ==
  /\ ~crashed
  /\ mw[i] = "running" /\ called[i]
  /\ Throw(i, Twice(i))

Return(i) ==
  /\ ~crashed
  /\ mw[i] = "running"
  /\ mw' = [mw EXCEPT ![i] = "left"]
  /\ verdict' = [verdict EXCEPT ![i] = Settled]
  /\ UNCHANGED <<context, called, floating>>

(* A promise nobody awaits rejects, and nobody listens for that either.    *)
Crash(i) ==
  /\ ~crashed
  /\ i \in floating /\ Failed(i + 1)
  /\ crashed' = TRUE
  /\ UNCHANGED <<late, original, request, response, pipeline>>

PipelineStep ==
  \/ Execute
  \/ \E i \in Stage :
       \/ Edit(i) \/ Respond(i)
       \/ CallNext(i) \/ CallNextFloating(i) \/ CallNextAgain(i)
       \/ Resume(i) \/ PassOn(i) \/ ThrowOwn(i) \/ Return(i) \/ Crash(i)
=============================================================================
