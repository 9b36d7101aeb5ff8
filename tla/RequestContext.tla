--------------------------- MODULE RequestContext ---------------------------
(***************************************************************************)
(* What the stages of one request share: src/src/core/context.ts and its   *)
(* budget, src/src/core/timeout.ts.                                        *)
(***************************************************************************)
EXTENDS Integers, Sequences, FiniteSets

CONSTANT Depth                  \* middlewares of the pipeline

ASSUME ContextAssumption == Depth \in Nat \ {0}

VARIABLES
  late,       \* the time budget has run out
  original,   \* middlewares whose edits the frozen copy of the request has
  request,    \* middlewares whose edits ctx.request has
  response,   \* whether a middleware has set ctx.response
  crashed     \* an unhandled rejection has ended the process

context == <<late, original, request, response, crashed>>

ContextTypeOK ==
  /\ late \in BOOLEAN
  /\ original \subseteq 1 .. Depth
  /\ request \subseteq 1 .. Depth
  /\ response \in BOOLEAN
  /\ crashed \in BOOLEAN

(* Both copies are clones of the client's request.                         *)
ContextInit ==
  /\ late = FALSE
  /\ original = {}
  /\ request = {}
  /\ response = FALSE
  /\ crashed = FALSE

HasTime == ~late

(* The budget runs out.                                                    *)
Expire ==
  /\ ~crashed
  /\ ~late
  /\ late' = TRUE
  /\ UNCHANGED <<original, request, response, crashed>>
=============================================================================
