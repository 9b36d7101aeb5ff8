---------------------------- MODULE RouteRequest ----------------------------
(***************************************************************************)
(* A request from the listener's middleware to its log rows: the config    *)
(* routes of src/src/server/router.ts, the function routes of              *)
(* src/src/proxy/function-route-runtime.ts, the 'finish' listener of       *)
(* src/src/middleware/request-logging.ts, and what the store makes of the  *)
(* rows.  A step goes from one await of a handler to the next, so an       *)
(* answer, a failure behind it and the accounting are one step; the        *)
(* 'finish' event comes later.  The providers' fallback is Failover's:     *)
(* the call moves on, returns or fails.                                    *)
(***************************************************************************)
EXTENDS Integers, FiniteSets, Sequences

CONSTANTS
  Request,         \* requests; a generated request id is the request itself
  Routes,          \* kinds of route configured
  Formats,         \* format of each provider in the fallback list
  Backends,        \* store backends to look at: "memory", "sqlite"
  ClientIds,       \* request ids a client may send, of any request
  EarlyAnswers,    \* statuses of answers given before any route
  Failures         \* statuses an error may carry beside 500

Config == {"provider", "stream", "compose", "tools"}
Status == {200, 204, 500} \cup EarlyAnswers \cup Failures

ASSUME RouteAssumption ==
  /\ IsFiniteSet(Request)
  /\ Routes \subseteq Config \cup {"function"}
  /\ ClientIds \subseteq Request
  /\ Len(Formats) > 0
  /\ Backends \subseteq {"memory", "sqlite"}
  /\ EarlyAnswers \subseteq {200, 401, 404, 429, 500}
  /\ Failures \subseteq 400 .. 599

VARIABLES
  pc,          \* where each request's handler is
  route,       \* the kind of route it matched
  id,          \* its X-Request-ID: the client's or a generated one
  turn,        \* the provider of the fallback list being called
  code,        \* res.statusCode
  wire,        \* the status line that was sent, 0 before
  body,        \* how far the response is
  connected,   \* whether the socket is open
  owed,        \* usage entries a function route has still to record
  backend, storeOpen, log, usage,   \* the store
  stats        \* the proxy's StatsTracker

answer == <<code, wire, body, connected>>
store  == <<backend, storeOpen, log, usage>>
vars   == <<pc, route, id, turn, answer, owed, store, stats>>

Row == [req : Request, source : {"route", "finish"}, status : Status, tokens : 0 .. 1]

TypeOK ==
  /\ pc \in [Request -> {"idle", "admitting", "pipeline", "calling", "streaming",
                         "handler", "usage", "rejecting", "done", "unseen"}]
  /\ route \in [Request -> Routes \cup {"none"}]
  /\ id \in [Request -> Request]
  /\ turn \in [Request -> 1 .. Len(Formats)]
  /\ code \in [Request -> Status]
  /\ wire \in [Request -> Status \cup {0}]
  /\ body \in [Request -> {"none", "open", "ended", "finished", "lost"}]
  /\ connected \in [Request -> BOOLEAN]
  /\ owed \in [Request -> 0 .. 1]
  /\ backend \in Backends
  /\ storeOpen \in BOOLEAN
  /\ log \subseteq Row
  /\ usage \in [Request -> Nat]
  /\ stats \in [requests : Nat, errors : Nat, tokens : Nat]

Init ==
  /\ pc = [r \in Request |-> "idle"]
  /\ route = [r \in Request |-> "none"]
  /\ id = [r \in Request |-> r]
  /\ turn = [r \in Request |-> 1]
  /\ code = [r \in Request |-> 200]
  /\ wire = [r \in Request |-> 0]
  /\ body = [r \in Request |-> "none"]
  /\ connected = [r \in Request |-> TRUE]
  /\ owed = [r \in Request |-> 0]
  /\ backend \in Backends
  /\ storeOpen = TRUE
  /\ log = {}
  /\ usage = [r \in Request |-> 0]
  /\ stats = [requests |-> 0, errors |-> 0, tokens |-> 0]

-----------------------------------------------------------------------------
(* The store.  A closed SQLite store rejects the write, which is caught and*)
(* forgotten; the memory store has no closed state.  request_id is UNIQUE  *)
(* in SQLite and a second insert is ignored.                               *)
Writable == backend = "memory" \/ storeOpen

\* Mutant: the insert replaces the row of the same request id.
LoggedReplacing(r, row) ==
  IF Writable THEN {old \in log : backend = "memory" \/ id[old.req] # id[r]} \cup {row} ELSE log

Logged(r, row) ==
  IF Writable /\ (backend = "sqlite" => \A old \in log : id[old.req] # id[r])
    THEN log \cup {row} ELSE log

Recorded(r, n) ==
  IF Writable THEN [usage EXCEPT ![r] = @ + n] ELSE usage

LogRequest(r, source, status, tokens) ==
  log' = Logged(r, [req |-> r, source |-> source, status |-> status, tokens |-> tokens])

\* Mutant: a request is only counted when it did not fail.
CountsSuccesses(failed, tokens) ==
  [requests |-> stats.requests + (IF failed THEN 0 ELSE 1),
   errors   |-> stats.errors + (IF failed THEN 1 ELSE 0),
   tokens   |-> stats.tokens + tokens]

(* recordError of the catch, recordRequest and recordTokens of the finally.*)
Counts(failed, tokens) ==
  [requests |-> stats.requests + 1,
   errors   |-> stats.errors + (IF failed THEN 1 ELSE 0),
   tokens   |-> stats.tokens + tokens]

-----------------------------------------------------------------------------
(* The response.                                                           *)
Goto(r, where) == pc' = [pc EXCEPT ![r] = where]

(* res.status(s).json(...) or .end(), nothing sent before.                 *)
Send(r, s) ==
  /\ body[r] = "none"
  /\ code' = [code EXCEPT ![r] = s]
  /\ wire' = [wire EXCEPT ![r] = s]
  /\ body' = [body EXCEPT ![r] = "ended"]
  /\ UNCHANGED connected

\* Mutant: the connection stays open behind a failed answer.
BreakOnlyStatus(r) ==
  /\ code' = [code EXCEPT ![r] = 500]
  /\ UNCHANGED connected

(* An error leaves the handler when the head is out: errorHandler sets the *)
(* status, cannot send it either, and Express destroys the socket.         *)
Break(r) ==
  /\ code' = [code EXCEPT ![r] = 500]
  /\ connected' = [connected EXCEPT ![r] = FALSE]

\* Mutant: failures are left out of the log.
RecordSuccess(r, status, failed, tokens, entries) ==
  /\ IF failed THEN UNCHANGED log ELSE LogRequest(r, "route", status, tokens)
  /\ usage' = Recorded(r, entries)
  /\ stats' = Counts(failed, tokens)
  /\ UNCHANGED <<backend, storeOpen>>
  /\ Goto(r, "done")

(* recordRequestMetrics: the finally of every config route.                *)
Record(r, status, failed, tokens, entries) ==
  /\ LogRequest(r, "route", status, tokens)
  /\ usage' = Recorded(r, entries)
  /\ stats' = Counts(failed, tokens)
  /\ UNCHANGED <<backend, storeOpen>>
  /\ Goto(r, "done")

(* handleRouteError before anything was sent, then the finally.            *)
Fail(r, status, tokens) ==
  /\ Send(r, status)
  /\ Record(r, status, TRUE, tokens, 0)

(* respondWithCanonicalResponse, then the finally.  The serializer may     *)
(* throw after the tokens were noted and before the answer.                *)
Respond(r, tokens) ==
  \/ Send(r, 200) /\ Record(r, 200, FALSE, tokens, tokens)
  \/ Fail(r, 500, tokens)

-----------------------------------------------------------------------------
(* The listener's middleware.                                              *)

(* Answered ahead of the logging middleware: a preflight, or a body that   *)
(* is not JSON.                                                            *)
AnswerUnseen(r) ==
  /\ pc[r] = "idle"
  /\ \E s \in {204, 500} : Send(r, s)
  /\ Goto(r, "unseen")
  /\ UNCHANGED <<route, id, turn, owed, store, stats>>

(* A request is known by its id, the client's if it sends one.             *)
Arrive(r) ==
  /\ pc[r] = "idle"
  /\ Goto(r, "admitting")
  /\ \E i \in ClientIds \cup {r} : id' = [id EXCEPT ![r] = i]
  /\ UNCHANGED <<route, turn, answer, owed, store, stats>>

(* It is answered before any route: models, a wrong key, no such path, the *)
(* rate limit, or a limiter whose store fails.                             *)
AnswerEarly(r, s) ==
  /\ pc[r] = "admitting"
  /\ Send(r, s)
  /\ Goto(r, "done")
  /\ UNCHANGED <<route, id, turn, owed, store, stats>>

(* It passes the middleware and finds its route.                           *)
Match(r, kinds) ==
  /\ pc[r] = "admitting"
  /\ \E kind \in Routes \cap kinds : route' = [route EXCEPT ![r] = kind]

-----------------------------------------------------------------------------
(* registerConfigRoute.                                                    *)

(* The body cannot be read in its format, or the route's providers are     *)
(* missing or unknown.                                                     *)
Refuse(r) ==
  /\ Match(r, Config)
  /\ \E s \in {500} \cup Failures : Fail(r, s, 0)
  /\ UNCHANGED <<id, turn, owed>>

Dispatch(r) ==
  /\ Match(r, Config)
  /\ Goto(r, "pipeline")
  /\ UNCHANGED <<id, turn, answer, owed, store, stats>>

(* The pipeline throws, answers itself, or lets the request through.       *)
PipelineFails(r, s) ==
  /\ pc[r] = "pipeline"
  /\ Fail(r, s, 0)
  /\ UNCHANGED <<route, id, turn, owed>>

PipelineResponds(r, tokens) ==
  /\ pc[r] = "pipeline"
  /\ Respond(r, tokens)
  /\ UNCHANGED <<route, id, turn, owed>>

PipelinePasses(r) ==
  /\ pc[r] = "pipeline"
  /\ Goto(r, "calling")
  /\ UNCHANGED <<route, id, turn, answer, owed, store, stats>>

\* Mutant: one provider too many.
HasNextOffByOne(r) == turn[r] <= Len(Formats)

HasNext(r) == turn[r] < Len(Formats)

(* executeFallbackChain turns to the next provider, with the body that was *)
(* built before the chain from the first provider's transformer.           *)
FallBack(r) ==
  /\ pc[r] = "calling"
  /\ route[r] \in {"provider", "stream"}
  /\ HasNext(r)
  /\ turn' = [turn EXCEPT ![r] = @ + 1]
  /\ UNCHANGED <<pc, route, id, answer, owed, store, stats>>

BodyFormat(r) == Formats[1]

(* The chain, the composer or the tool router throws.                      *)
CallFails(r, s) ==
  /\ pc[r] = "calling"
  /\ Fail(r, s, 0)
  /\ UNCHANGED <<route, id, turn, owed>>

CallReturns(r, tokens) ==
  /\ pc[r] = "calling"
  /\ route[r] \in {"provider", "tools"}
  /\ Respond(r, tokens)
  /\ UNCHANGED <<route, id, turn, owed>>

(* The composed answer is sent, then setHeader('X-Prism-Compose-Steps')    *)
(* throws, as headers cannot follow the body: the catch notes a failure,   *)
(* its own answer throws too, the finally accounts, and the rejection      *)
(* breaks the connection.                                                  *)
ComposeReturns(r, tokens) ==
  /\ pc[r] = "calling"
  /\ route[r] = "compose"
  /\ \/ /\ body[r] = "none"
        /\ wire' = [wire EXCEPT ![r] = 200]
        /\ body' = [body EXCEPT ![r] = "ended"]
        /\ Break(r)
        /\ Record(r, 500, TRUE, tokens, tokens)
     \/ Fail(r, 500, tokens)
  /\ UNCHANGED <<route, id, turn, owed>>

(* writeSSEStream flushes the head, then copies chunks ...                 *)
StreamOpens(r) ==
  /\ pc[r] = "calling"
  /\ route[r] = "stream"
  /\ wire' = [wire EXCEPT ![r] = 200]
  /\ body' = [body EXCEPT ![r] = "open"]
  /\ Goto(r, "streaming")
  /\ UNCHANGED <<route, id, turn, code, connected, owed, store, stats>>

(* ... to the last, a 'done' or an 'error' chunk: all end well ...         *)
StreamEnds(r, tokens) ==
  /\ pc[r] = "streaming"
  /\ body' = [body EXCEPT ![r] = "ended"]
  /\ Record(r, 200, FALSE, tokens, tokens)
  /\ UNCHANGED <<route, id, turn, code, wire, connected, owed>>

(* ... or reading them throws, and the usage seen so far is lost.          *)
StreamFails(r) ==
  /\ pc[r] = "streaming"
  /\ Break(r)
  /\ Record(r, 500, TRUE, 0, 0)
  /\ UNCHANGED <<route, id, turn, wire, body, owed>>

-----------------------------------------------------------------------------
(* executeFunctionRoute.                                                   *)
EnterHandler(r) ==
  /\ Match(r, {"function"})
  /\ Goto(r, "handler")
  /\ UNCHANGED <<id, turn, answer, owed, store, stats>>

(* The handler may answer by itself, at once or piece by piece.            *)
HandlerSends(r, s) ==
  /\ pc[r] = "handler"
  /\ \/ Send(r, s)
     \/ /\ body[r] = "none"
        /\ code' = [code EXCEPT ![r] = s]
        /\ wire' = [wire EXCEPT ![r] = s]
        /\ body' = [body EXCEPT ![r] = "open"]
        /\ UNCHANGED connected
  /\ UNCHANGED <<pc, route, id, turn, owed, store, stats>>

HandlerEnds(r) ==
  /\ pc[r] = "handler"
  /\ body[r] = "open"
  /\ body' = [body EXCEPT ![r] = "ended"]
  /\ UNCHANGED <<pc, route, id, turn, code, wire, connected, owed, store, stats>>

\* Mutant: failures are left out of the log.
RecordHandlerSuccess(r, status, failed, tokens, next) ==
  /\ IF failed THEN UNCHANGED log ELSE LogRequest(r, "route", status, tokens)
  /\ stats' = Counts(failed, tokens)
  /\ owed' = [owed EXCEPT ![r] = tokens]
  /\ Goto(r, next)
  /\ UNCHANGED <<route, id, turn, backend, storeOpen, usage>>

(* The finally of a function route, up to its await of the log row.        *)
RecordHandler(r, status, failed, tokens, next) ==
  /\ LogRequest(r, "route", status, tokens)
  /\ stats' = Counts(failed, tokens)
  /\ owed' = [owed EXCEPT ![r] = tokens]
  /\ Goto(r, next)
  /\ UNCHANGED <<route, id, turn, backend, storeOpen, usage>>

\* Mutant: a handler that answered by itself is taken to have sent 200.
HandlerReturnsOk(r, tokens) ==
  /\ pc[r] = "handler"
  /\ body[r] # "none"
  /\ RecordHandler(r, 200, FALSE, tokens, "usage")
  /\ UNCHANGED answer

(* It returns having answered: the row gets that status ...                *)
HandlerReturnsSent(r, tokens) ==
  /\ pc[r] = "handler"
  /\ body[r] # "none"
  /\ RecordHandler(r, code[r], FALSE, tokens, "usage")
  /\ UNCHANGED answer

(* ... nothing, which is 204, or a result to send; or the result cannot    *)
(* be sent, and its usage is kept all the same.                            *)
HandlerReturns(r, tokens) ==
  /\ pc[r] = "handler"
  /\ \/ Send(r, 204) /\ RecordHandler(r, 204, FALSE, 0, "usage")
     \/ Send(r, 200) /\ RecordHandler(r, 200, FALSE, tokens, "usage")
     \/ Send(r, 500) /\ RecordHandler(r, 500, TRUE, tokens, "usage")

(* It throws; when it had answered, so does the catch.                     *)
HandlerThrows(r, s) ==
  /\ pc[r] = "handler"
  /\ \/ Send(r, s) /\ RecordHandler(r, s, TRUE, 0, "usage")
     \/ /\ body[r] # "none"
        /\ code' = [code EXCEPT ![r] = s]
        /\ RecordHandler(r, s, TRUE, 0, "rejecting")
        /\ UNCHANGED <<wire, body, connected>>

RecordUsage(r) ==
  /\ pc[r] \in {"usage", "rejecting"}
  /\ usage' = Recorded(r, owed[r])
  /\ owed' = [owed EXCEPT ![r] = 0]
  /\ Goto(r, "done")
  /\ IF pc[r] = "rejecting" THEN Break(r) ELSE UNCHANGED <<code, connected>>
  /\ UNCHANGED <<route, id, turn, wire, body, backend, storeOpen, log, stats>>

-----------------------------------------------------------------------------
(* The response has been handed to the system: the logging middleware      *)
(* writes a row of its own, which knows neither provider nor tokens.       *)
Finish(r) ==
  /\ body[r] = "ended"
  /\ pc[r] # "unseen"
  /\ body' = [body EXCEPT ![r] = "finished"]
  /\ LogRequest(r, "finish", code[r], 0)
  /\ UNCHANGED <<pc, route, id, turn, code, wire, connected, owed, backend,
                 storeOpen, usage, stats>>

(* On a socket that is gone the event may never come.                      *)
LoseFinish(r) ==
  /\ body[r] = "ended"
  /\ ~connected[r]
  /\ body' = [body EXCEPT ![r] = "lost"]
  /\ UNCHANGED <<pc, route, id, turn, code, wire, connected, owed, store, stats>>

(* The client goes away before it has the response; nothing listens for it.*)
Disconnect(r) ==
  /\ connected[r]
  /\ pc[r] \notin {"idle", "unseen"}
  /\ body[r] # "finished"
  /\ connected' = [connected EXCEPT ![r] = FALSE]
  /\ UNCHANGED <<pc, route, id, turn, code, wire, body, owed, store, stats>>

(* The process shuts down and its drain did not wait long enough.          *)
CloseStore ==
  /\ storeOpen
  /\ storeOpen' = FALSE
  /\ log' = IF backend = "memory" THEN {} ELSE log
  /\ usage' = IF backend = "memory" THEN [r \in Request |-> 0] ELSE usage
  /\ UNCHANGED <<pc, route, id, turn, answer, owed, backend, stats>>

(* What a pending call to providers, or the stream of its answer, becomes. *)
CallStep(r) ==
  \/ FallBack(r) \/ StreamOpens(r) \/ StreamFails(r)
  \/ \E s \in {500} \cup Failures : CallFails(r, s)
  \/ \E n \in 0 .. 1 : CallReturns(r, n) \/ ComposeReturns(r, n) \/ StreamEnds(r, n)

ConfigStep(r) ==
  \/ Refuse(r) \/ Dispatch(r) \/ PipelinePasses(r)
  \/ \E s \in {500} \cup Failures : PipelineFails(r, s)
  \/ \E n \in 0 .. 1 : PipelineResponds(r, n)

HandlerStep(r) ==
  \/ EnterHandler(r) \/ HandlerEnds(r) \/ RecordUsage(r)
  \/ \E s \in {200, 500} \cup Failures : HandlerSends(r, s)
  \/ \E n \in 0 .. 1 : HandlerReturnsSent(r, n) \/ HandlerReturns(r, n)
  \/ \E s \in {500} \cup Failures : HandlerThrows(r, s)

Admission(r) ==
  \/ AnswerUnseen(r) \/ Arrive(r)
  \/ \E s \in EarlyAnswers : AnswerEarly(r, s)

Next ==
  \/ CloseStore
  \/ \E r \in Request :
       \/ Admission(r) \/ ConfigStep(r) \/ CallStep(r) \/ HandlerStep(r)
       \/ Finish(r) \/ LoseFinish(r) \/ Disconnect(r)

(* The request's time budget aborts a call to a provider and the reading   *)
(* of its stream.  Nothing of the kind bounds a middleware, a function     *)
(* route's handler or a tool's local function.                             *)
Fairness == \A r \in Request : WF_vars(route[r] # "tools" /\ CallStep(r))

Spec == Init /\ [][Next]_vars /\ Fairness

-----------------------------------------------------------------------------
(* Properties.                                                             *)

Rows(r) == {row \in log : id[row.req] = id[r]}

Handled(r) == route[r] # "none" /\ pc[r] \in {"usage", "rejecting", "done"}

(* A row tells the outcome: the status line its request got, or else a     *)
(* failure behind it, which the client notices too because its connection  *)
(* is broken (router.ts handleRouteError, function-route-runtime.ts).      *)
RowsTellOutcome ==
  \A row \in log :
    \/ row.status = wire[row.req]
    \/ /\ row.status >= 400
       /\ ~connected[row.req] \/ pc[row.req] = "rejecting"

(* While the store is open, every request that a route has handled or that *)
(* the logging middleware saw finish has a row under its id, whoever fails *)
(* or leaves, in either backend.                                           *)
AuditComplete ==
  storeOpen =>
    \A r \in Request :
      Handled(r) \/ (body[r] = "finished" /\ pc[r] # "unseen") => Rows(r) # {}

(* No usage entry without a row to join it with: the rows and the entries  *)
(* are written by separate calls that nobody checks (router.ts 730-757).   *)
UsageHasRow ==
  storeOpen \/ backend = "sqlite" =>
    \A r \in Request : usage[r] > 0 => Rows(r) # {}

(* The admin statistics and the rows of the memory store agree on what was *)
(* handled, and the statistics on no more failures than the rows.          *)
StatsMatchLog ==
  storeOpen /\ backend = "memory" =>
    LET routed == {row \in log : row.source = "route"} IN
      /\ stats.requests = Cardinality(routed)
      /\ stats.tokens = Cardinality({row \in routed : row.tokens = 1})
      /\ stats.errors <= Cardinality({row \in routed : row.status >= 400})

(* Of the two rows written for a config route, SQLite keeps the router's,  *)
(* which knows provider and tokens, unless another request bears its id.   *)
RouteRowKept ==
  storeOpen /\ backend = "sqlite" =>
    \A r \in Request :
      /\ Handled(r)
      /\ route[r] \in Config
      /\ \A other \in Request \ {r} : id[other] # id[r] \/ pc[other] = "idle"
      => /\ {row.source : row \in Rows(r)} = {"route"}
         /\ \A row \in Rows(r) : row.tokens >= usage[r]

(* A call to a provider ends in a complete answer or a broken connection,  *)
(* never in a client that waits.                                           *)
CallsAreAnswered ==
  \A r \in Request :
    pc[r] \in {"calling", "streaming"} /\ route[r] # "tools"
      ~> /\ pc[r] = "done"
         /\ body[r] \in {"ended", "finished", "lost"} \/ ~connected[r]

(* Every row has the status its client was sent.                           *)
LoggedAsSent == \A row \in log : row.status = wire[row.req]

(* Each provider is sent a body of its own format.                         *)
FallbackUnderstood ==
  \A r \in Request :
    pc[r] = "calling" /\ route[r] \in {"provider", "stream"}
      => BodyFormat(r) = Formats[turn[r]]
=============================================================================
