# Verification of Prism Pipe

Prism Pipe (`src/`) is a gateway in TypeScript between applications and AI
providers: it listens on one or more ports, turns a request of one provider's
format into a canonical form, runs it through middleware, calls a provider (or
the next one of a fallback list), turns the answer back and records what was
used. This directory holds TLA+ models of its parts, the TLC instances that
check them, and TLAPS proofs about them. All paths below are relative to the
repository's `src/`.

## 1. Inventory

Every part runs in one Node.js process: a callback runs to its next `await`
without interruption, and everything hard about this program lies between two
such points, in what other requests, timers and operators do there.

### 1.1 Calling providers

| Part | State | Operations | Hard behaviour | Correct when |
| --- | --- | --- | --- | --- |
| Fallback chain `fallback/chain.ts` | position in the provider list, attempt counter, error list per call | `executeFallbackChain` | the budget runs out at any point; failures of three kinds; backoff sleeps; breakers shared with other requests | providers are tried in order, none is skipped without a reason, nothing is called late, every call ends |
| Circuit breaker `fallback/circuit-breaker.ts` | state, failure count, half-open slots and successes, opening time, per provider | `getState`, `allowRequest`, `recordSuccess`, `recordFailure`, `reset` | reading the state changes it; results of calls admitted in an earlier state arrive late | the counters agree with the state, only documented transitions happen, no slot is lost |
| Timeout budget `core/timeout.ts` | deadline and abort signal | `remaining`, `hasTime`, `slice` | two reads in one callback may see different times | no work starts after the deadline |
| Provider calls `proxy/provider.ts` | the SSE buffer of a stream | `callProvider`, `callProviderStream` | abort while the headers or while the body are awaited; cut-off and malformed streams | each failure is classified as retryable or fatal as its status says |
| Retry helper `fallback/retry.ts` | attempt counter | `retryWithBackoff`, `parseRetryAfter` | a Retry-After longer than the limit | at most `maxRetries` repeats |
| Network `network/` | round-robin index, rate-limit marks with expiry, cached agents | `selectIp`, `markRateLimited`, `clearRateLimit`, `getAgent` | every address marked at once; marks change whom the shared index counts | a marked address is used only when all are marked; each has its share of turns |

### 1.2 Serving requests

| Part | State | Operations | Hard behaviour | Correct when |
| --- | --- | --- | --- | --- |
| Rate limiter `rate-limit/token-bucket.ts`, `server/rate-limit.ts` | one bucket per key, kept in the store | `check` | the bucket is read before an `await` and written after it | a key is not granted more than its capacity plus refill |
| Router `server/router.ts`, `proxy/route-tree.ts` | the context of each request | route registration, one handler per kind of route, error handling, metrics | an error after the response was sent; writes to the store nobody waits for; one body for every fallback provider | one response per request, one log entry per request, usage recorded for answered requests |
| Pipeline `core/pipeline.ts`, `core/context.ts`, `core/composer.ts`, `core/errors.ts` | index of the onion | `execute`, `next` | `next()` called twice, after a failure, or out of time | each middleware runs once, errors reach the caller as `PipelineError` |
| Chain composer and tool router `compose/` | step results, tool rounds | `execute`, `executeToolCall`, templates | a step fails under one of several policies; tool rounds hit their limit | steps run in order, a failure ends or skips as configured |
| Streaming `proxy/stream.ts` | bytes written | `writeSSEStream`, `parseSSEText` | the client leaves; the source fails half way; each chunk is translated on its own | a stream ends exactly once, and the client has heard what the provider said, in order, as far as chunks are translated whole |
| Function routes `proxy/function-route-runtime.ts` | response of a user function | `run` | the function answers by itself and returns a value too | one response |
| Built-in middleware `middleware/` | none, or a log | prompt guard, thinking, logging, custom loading | decisions before and after `next()` | a blocked request never reaches a provider |
| Transforms `proxy/transforms/`, `proxy/feature-degradation.ts`, `middleware/transform-format.ts` | none; the client keeps the history and sends it whole each time | to and from the canonical form: requests, answers, chunks | features the target lacks; formats that name calls, number them or go by the function; identifiers that travel to the client and back | what one end means the other reads, over several rounds |
| Authentication and tenants `auth/`, `server/auth.ts` | tenants, key index, monthly costs | `authenticate`, `addTenant`, `removeTenant`, `updateConfig` | the index and the tenant table are updated separately, one by one or all at once | only keys of present tenants are accepted, and each finds its tenant, also when identifiers or keys are given twice |
| Admin routes `admin/routes.ts` | statistics windows | health, statistics, costs, cache flush | reading breakers moves them | reads do not disturb requests |

### 1.3 Running the process

| Part | State | Operations | Hard behaviour | Correct when |
| --- | --- | --- | --- | --- |
| Application `prism-pipe.ts` | proxies, store, flags | `createProxy`, `start`, `stop`, `reload`, `shutdown` | the store's flag is set after an `await`; some proxies fail to start | the store is initialised once and closed last |
| Proxy `proxy-instance.ts`, `proxy/listener-runtime.ts` | server, plugins, state, timers | `start`, `stop`, `reload` | a stop during a start; a second start; a reload | a proxy that is stopped holds no port |
| Plugins `plugin/` | registry by name | `register`, `loadPlugins` | names are never given back | a plugin is registered once |
| Store `store/` | rate-limit rows, log, usage, costs | `RateLimitStore`, `LogStore`, ... in memory and in SQLite | the two differ on duplicates and on shared references | both keep what they were given |
| Request log `logging/request-log.ts` | buffer, flush timer | `logRequest`, `flush`, `close` | flushes overlap with each other and with new entries; a write fails; a close in between | an entry is written once or given up, and none waits for ever |
| Hot reload `config/hot-reload.ts` | current configuration, debounce timer | `startConfigWatcher` | an edit while a handler reads; handlers overlap; a stop during one | the settings of the last valid file are in force |
| Configuration `config/` | none | load, resolve, validate | - | - |
| CLI `cli/`, hosts `runtime/` | none | installation, placeholders | - | - |

How they interact: a listener (1.3) hands a request to authentication, the
rate limiter and the router (1.2); the router runs the pipeline, calls the
fallback chain (1.1), writes the response and then, without waiting, the log
and the usage to the store (1.3), which the rate limiter also uses. The proxies
of one process share its store. A breaker registry belongs to a proxy and is
read by its admin routes.

## 2. Plan

1. **Fallback chain** (done): `CircuitBreaker`, `FallbackChain`, the abstract
   `Failover`, their proofs.
2. **TokenBucket** (modelled, checked, every safety property proved): overlapping
   `check`s over a store that returns shared references (memory) or copies
   (SQLite).
3. **ProxyLifecycle** (modelled, checked, every safety property proved): process,
   proxies, listeners, plugin registry, store.
4. **RouteRequest** (modelled, checked, every safety property proved): a request
   from admission to the `finish` event with the store's writes.
5. **RequestContext**, **Pipeline**, **ChainComposer**, **ToolRouter** and their
   composition **ComposedRequest** (modelled, checked, every safety property
   proved): onion dispatch, step loop with policies, tool rounds. Left: the pipeline's
   verdict in place of `RouteRequest`'s `PipelineFails`, `PipelineResponds` and
   `PipelinePasses`, as a refinement.
6. **Canonical**, the four transformers, **FeatureDegradation**, **WireReading**
   and their composition **Conversation** (modelled and checked; what becomes of
   answers proved): a client and its providers over several rounds. Left: a proof
   of what becomes of requests.
7. **RequestLogger**, **ConfigWatcher**, **TenantManager** and **IpPool** (modelled and
   checked; the tenants' index, the log's entries and the pool's shares proved): parts
   that share no state with the rest. Their run also checks **TokenBucket**.
8. **Store** (abstract) refined by the memory and the SQLite store; **Retry**;
   **PromptGuard** and **Thinking**, whose decisions rest on pattern matching;
   the statistics of the admin routes.

`RouteRequest` stands on what `Failover` promises (the call moves on along the
list, returns or fails) in place of the whole chain; the store, inlined there,
will become a module of its own. The abstract specifications worth stating are
`Failover` (done) and the store. The theorems worth proving next are refinements:
the pipeline's verdict for the three steps `RouteRequest` has in its place, and
the memory and the SQLite store for an abstract one; after that, the requests of
`Conversation`, with the lemmas on single blocks that its answers rest on.
## 3. Modules

### `CircuitBreaker`

A breaker is a record of the fields of the class; each operator is one method,
which is synchronous in the code, and returns the record it leaves. `Sound`
says how the fields of a breaker fit together, `Moves` which transitions may
happen and why. `reset()` has no caller in the repository and is not modelled;
metrics counters are left out. The assumptions on the constants are what
`core/types.ts` accepts (positive threshold and probes, non-negative timeout).

### `FallbackChain`

| Variable | Code |
| --- | --- |
| `clock` | `Date.now()` |
| `running` | the request whose callback is on the stack: nobody else moves before its next `await`, but the clock may |
| `breaker` | the registry, by provider (an entry that does not exist yet is a new breaker, as `get()` makes it) |
| `pc[r]` | where an execution is: outer loop, inner loop, awaiting the call, sleeping, returned, thrown |
| `pos[r]`, `attempt[r]` | the two loop variables |
| `deadline[r]`, `wakeAt[r]` | `deadlineAt` of the budget, the sleep's timer |
| `fate[r][p]` | observation: how the request left each provider |

`SkipProvider`, `EnterProvider`, `OutOfTime`, `GiveUp`, `Call` are the
synchronous pieces of the loops; `CallSucceeds` and the three `CallFails...`
are the continuation after the call's `await` with everything it does, `Wake`
the one after the sleep. A call may end with any HTTP status or fault of the
configuration, classified as `classifyError` does, and past the deadline with
an abort, which is a retryable `timeout` while `fetch` waits and a fatal
`unknown` while the body is read (`res.json()` is outside the `try`).
`ReadStates` is the admin routes' loop over the breakers.

The router never passes a breaker registry (`router.ts:530`, `:589`), although
each proxy creates one and its README speaks of circuit breaking;
`UseBreakers` is the option the chain exports and its tests use. The theorems
hold for both values. `circuit-breaker.ts:19` says an open breaker rejects
immediately and `chain.ts:24` that tripped providers are skipped; the chain asks
only in `EnterProvider`, so a request whose own failures trip the breaker goes on
calling that provider (`Wake`, `Call`).

The message, code and status of the final error are data no property here is
about. Two providers of the same name would share a breaker; the model gives
each position its own.

### `Failover`

The abstract chain: each request has a turn, an outcome and may be late.
`FallbackChain` implements it with `turn <- pos`, the outcome read off `pc`,
and `late` the requests past their deadline.

### `TokenBucket`

One client address (the bucket's key) and the checks of its requests at the
listeners of one process.

| Variable | Code |
| --- | --- |
| `clock` | `Date.now()` |
| `tasks` | the microtask queue: checks that wait for the continuation of an `await` on a store call. The store calls are `async` functions without an inner `await`, so a continuation is queued at once and runs in the order of the calls |
| `phase[c]`, `now[c]`, `entry[c]`, `wait[c]` | where `check` is, and its locals |
| `heap`, `stored`, `backend` | bucket objects by the check that made them, and the store's row. The memory store hands out the stored object itself, SQLite a copy |
| `reply[c]` | the headers the middleware sets |
| `granted`, `races`, `promise` | observation |

`FindNone`, `FindObject`, `FindRow` are `check` up to its first `await`, `Grant`
and `Deny` its middle up to `rateLimitSet`, `Reply` the rest with the
middleware. `Cleanup` is the maintenance method of the SQLite store. Tokens are
counted in units of which `Minute` make one, and a tick brings `Rpm` of them. The
code counts in floats. A level is a sum of refills, and where it should be a whole
number of units it may come out a little less (`short`): six refills of a sixth of a
token are not quite a token, so a client that polls may be denied at the very
time `Retry-After` promised. A quotient that should be whole may come out a
little more, and `Math.ceil` then adds a millisecond (`Ceilings`). The model lets
every sum and quotient go either way; that floats err by less than a unit is the
assumption left. Steps of the clock backwards are not modelled; the code refills
a negative amount after one, and takes it back when the clock has caught up. `Listener` may hold several listeners:
they share the bucket, since the key is the address alone
(`server/rate-limit.ts:28`), so a listener of few requests per minute grants what
a faster one's check has refilled, although `README.md:197` promises requests per
minute and address of each. The run therefore has one listener.

### `ProxyLifecycle`

| Variable | Code |
| --- | --- |
| `flag`, `dbOpen` | `storeInitialized` and the database handle of the store |
| `started[p]`, `portInfo[p]` | the two fields of `ProxyInstance`; a server is named by the call that made it |
| `registered[p]` | plugin names in the registry of the proxy: the built-in prompt guard and, for `Hooked` proxies, a configured one with hooks |
| `listening[p]`, `requests[p]` | servers that accept connections, connections that keep the server from closing |
| `phase[t]`, `kind[t]`, `pc[t][p]` | a call, what it is, and at which `await` it is in the method of each proxy |
| `crossed`, `doubled`, `timedOut` | observation: proxies on which a start and a stop, or two stops, overlapped, and whose drain ended by its timer |

A step goes from one `await` to the next. `Begin` only notes the call; its first
synchronous piece is a step of its own, which adds no more than later calls.
Awaits are taken as the language describes them, any other continuation may run
meanwhile, rather than by counting microtasks: a lifecycle must not depend on
how many there are, and `StoreBackend.init` may be any asynchronous function.
`RegisterFails` stands for a failing import, `onInit` or registration,
`Bind` for `app.listen`, whose port may be taken. Calls are numbered in the
order they are made, and a resolved call is forgotten.

What the model shows beside the properties: two proxies that start together both open
the database, although `prism-pipe.ts:269` speaks of the first start only, and the
handle opened first is never closed (`OpenStore` twice); when one of several proxies fails to
start, the others stay up and the caller only sees the rejection; after a
`shutdown()` that overlaps a `start()`, the flag may stay set over a closed
store, so every later start serves without one; a proxy whose start failed after
registration can never be started.

### `RouteRequest`

| Variable | Code |
| --- | --- |
| `pc[r]` | at which `await` the handler of a request is: idle, `admitting` (the listener's middleware), `pipeline`, `calling` (chain, composer or tool router), `streaming`, `handler` (a function route), `usage` and `rejecting` (its log row is being awaited), done; `unseen` was answered ahead of the logging middleware |
| `route[r]`, `id[r]` | the kind of route matched, the `X-Request-ID`: sent by the client or generated |
| `turn[r]` | the provider the fallback chain is at |
| `code[r]`, `wire[r]`, `body[r]`, `connected[r]` | `res.statusCode`, the status line that went out, how far the response is (nothing, head and part, ended, `finish` emitted or never to be), the socket |
| `owed[r]` | usage a function route records after its log row |
| `backend`, `storeOpen`, `log`, `usage` | the store: its rows by request and by who wrote them, its usage entries |
| `stats` | `StatsTracker` of the admin routes |

A step goes from one `await` to the next, so the answer, an exception behind it
and the accounting of the `finally` are one step; `finish` is a later event.
The log and usage writes of a config route are not awaited and their failure is
swallowed: the model makes them in the step that starts them, in order, as both
stores do. The failover is reduced to `FallBack`, `CallReturns` and `CallFails`,
which is all the router sees of `Failover`.

What the actions contain that is easy to miss:

- A request is written to the log twice, by the router and by `finish`. SQLite's
  `request_id` is unique and the second insert is ignored, the memory store
  keeps both. A client may send another's id, and its row is then lost. An
  answer ahead of the logging middleware (a preflight, a body that is not JSON)
  is never logged.
- Serialising the answer may throw after the tokens were noted (`Respond`); a
  composed answer always throws behind it (`ComposeReturns`); a stream that
  fails has its head out and loses the usage seen so far (`StreamFails`). Each
  time the catch tries to answer again, and Express breaks the connection.
- A function route may answer by itself, whole or in parts, and then return,
  return a result, or throw. As it awaits its row, `finish` may come first.
- A closed SQLite store rejects writes; a closed memory store is empty and
  accepts them.

Left out: bodies and headers, the tenant's and the rate limiter's answers beyond
being early ones, latency, the contents of a row apart from status and tokens
(one unit stands for a positive count), Express itself beyond its handling of
a late error.

### `RequestContext`, `Pipeline`, `ChainComposer`, `ToolRouter`, `ComposedRequest`

The part of a compose route that `RouteRequest` shows only by its outcome. The
first module holds what the stages share, the next three one stage each, and
`ComposedRequest` the hand-over of `server/router.ts` between them.

| Variable | Code |
| --- | --- |
| `late` | the deadline of the request's budget has passed |
| `original`, `request` | `ctx.original` and `ctx.request`: which middlewares' edits each copy of the request has |
| `response` | whether `ctx.response` is set |
| `crashed` | a rejection nobody handles has ended the process |
| `mw[i]`, `called[i]`, `floating` | what middleware `i` does, `nextCalled` of its `next`, those that called it without awaiting |
| `verdict[i]` | how the promise of `dispatch(i)` settled, with the code and the step of the error |
| `chain`, `policy` | where `ChainComposer.execute` is, `onError` of each step |
| `results`, `stepMap`, `previous` | `completedSteps`, `stepMap`, `tplCtx.previous` |
| `body` | the text the step being called is given |
| `tools`, `round`, `toolCalls`, `toolResults`, `conversation` | where `ToolRouterComposer.execute` is and its locals; the conversation is the list of rounds added to the messages |
| `doomed` | the call under way began with the budget's signal aborted |

Middleware and providers are the environment: a middleware may edit, answer,
throw, return without `next()`, call it twice, catch what it throws, or not await
it; a call may succeed or fail at any time, and one that begins on an aborted
signal can only fail. A text is known by the step it comes from and by what it is
there (an answer, the configured default, or empty), a tool by who runs it, a
failure by its code and step. Time is the one bit `late`, which is all `hasTime`
tells; a step's slice of the budget is a step that fails early (`StepFails`).

What the actions contain that is easy to miss:

- `Dispatch` looks at the clock before it looks at the list, so a request may
  time out behind its last middleware (`Timeout(Depth + 1)`).
- A floating `next()` may still be running when the router goes on, and its
  failure is nobody's: Node ends the process (`Crash`).
- The loop of the chain has three ways to push a result. The one of a spent
  budget leaves neither `stepMap` nor `previous` behind.
- `isPartial` changes nothing: both ends of `execute` return the same, and a
  partial chain whose steps were only defaulted passes the second test.
- The last round runs its tools before the limit is noticed: their results are
  in the conversation and no model sees them (`EnterRound`).

Left out: metrics, logging, templates' syntax (a template can refer to what is
in `stepMap`, `previous` and the original, and these are compared), steps of
equal name (`core/composer.ts:17` calls the name unique), a middleware that keeps
the promise of `next()` and awaits it later, the contents of answers. Expiry
between two reads of the clock in one callback (`CallStep` on a budget that is
spent a moment later) is covered by `StepFails`.

`docs/DEEP-DIVE-INGRESS-AND-COMPOSITION.md` describes the policies `skip` (422-426)
and `fail` (415-417) otherwise than the code acts. The passing properties claim
nothing where they differ (a step called right behind a skipped one, the outcome of
a chain that `fail` stopped behind a useful step); the run `policies_as_documented`
shows the differences.

### `Canonical`, the transformers, `FeatureDegradation`

A text is a sequence of fragments, so that joining texts and cutting them into
chunks is concatenation; `Quote` and `IsJson` are all that is known of JSON. A
block has one shape in every format: type, text (what was said, a picture's data,
a call's arguments, a call's result), identifier and name. A message on the wire
also carries the calls and the answered call of the chat formats.

`OpenAITransformer`, `OllamaTransformer`, `AnthropicTransformer` and
`GeminiTransformer` have one operator per method of the class, with the class's
tables of stop reasons. Ollama's conversion of messages is a copy of OpenAI's in
the code and the same operator here. `FeatureDegradation` has the middleware
(`TransformFormat`) and the wrapper around every provider's transformer
(`Degrade`), in the order in which their steps read the request and its copy.
Model names, sampling parameters, usage counts, media types and the layout of
tool schemas are left out; `tools` is whether there are any.

### `WireReading`, `Conversation`

`WireReading` is the two ends: how each format writes an answer, a call's results
and a stream, and what a reader takes from them. It is external to the repository
and does not use the transformers, so that the properties compare two independent
accounts. `Conversation` puts the proxy between them.

| Variable | Code |
| --- | --- |
| `client`, `history` | the client: its format, whether the router guesses it (`detectClientFormat`) or the caller names it, system prompt, tools, and the messages it keeps in its own format |
| `route` | the route's `systemPrompt` |
| `to`, `sent` | the provider's format, the path (fallback chain, composer, or the library's own use), the body it was sent |
| `answer` | what the provider means to say |
| `style` | how the provider cuts its stream: each part in a chunk of its own (`apart`), whole blocks of which several may share a chunk, with the end of a Gemini stream too (`bundled`), the arguments of several calls in turn (`woven`) |
| `incoming`, `outgoing` | chunks of a stream not yet read by `parseSSE`, chunks written by `writeSSEStream` |
| `got` | the whole answer the client was sent |
| `round`, `phase`, `made` | where the talk is; a counter for the identifiers providers make up |

`Send` is the router from the parsed body to the provider's: detection,
`toCanonical`, the route's prompt, the middleware on the fallback path, the
wrapper, `fromCanonical`. `AnswerWhole` is the provider's JSON to the client's,
`Relay` one chunk, `SourceEnds` a connection that ends early or late. `ReadLine` is
`parseSSE`: lines without `data: `, and so all of Ollama's, reach no transformer.
`Assemble`, `ReturnResults` and `AskMore` are the client. A client reads the events
that `stream.ts` writes, whatever the format is named; it puts the fragments of a
call together in the order in which they come, since the chunks it gets carry no
index, and outside the chat formats it can use a call only if its arguments parse.

Conversions that lose something the properties would ask for are left out of them
by name (`CallsAlone`, `ResultsDoubled`, `ManualLost`, `Carried`, `IsCopy`, `Reads`,
`CallsReshaped`), so that the rest of the translation is still checked. The losses are real, and
several are against what a document or a comment promises:

- An assistant message of calls whose content is null (as OpenAI writes it) loses
  its calls: `openai.ts:65-83` merges them into the message pushed before, and
  none was. The results that follow then answer no call.
- A tool message of a chat client becomes two messages, one of its text and one
  of its result (`openai.ts:41`, `:86`). A chat provider reads one tool message too
  many, without `tool_call_id`, although `README.md:16` has any OpenAI SDK just work;
  Anthropic reads the text as the
  user's words. `ResultsFindTheirCall` passes over that copy, which stands right before
  the result it copies, and over nothing else.
- Results in an Anthropic history stand in a message of role `user`, and
  `openai.ts:155` looks for results in messages of role `tool` only: chat
  providers do not get them.
- Gemini's results go by the function's name, the others' by identifier, and the
  conversions copy the one into the other, so across that border results do not
  find their calls. The comments at `gemini.ts:67`, `:237` and `:341` call the
  identifiers unique; they are within one message, not between messages, and
  not in a stream, where the position is that within one chunk.
- An Anthropic client without tool blocks in its history is taken for OpenAI's
  (`router.ts:68`), and so is one whose model's name begins with `gpt` and who sends
  no system prompt. `system` then travels among the extras and the answer comes in
  OpenAI's shape, which `Reads` excludes.
- A degraded system prompt is taken from the original request
  (`feature-degradation.ts:139`): the description of the tools added to the copy is
  lost, and a provider that has neither tools nor system prompts is not told of the
  tools (`:65` says they become instructions). It survives on the fallback path, where
  the middleware added it before.
- In streams, thoughts become words, the stop reason is dropped, and a provider
  that sends a call in one chunk (Gemini, Ollama) reaches an Anthropic client
  without the arguments; the other way round a Gemini client's stream ends in the
  exception of `JSON.parse` at `gemini.ts:366`.
- Of a chunk with several parts the transformers of OpenAI and Gemini read the first,
  and nothing of the one that ends a Gemini stream (`gemini.ts:324`), after which the
  client is told that the stream is done; the index that says which call a fragment of
  arguments belongs to is dropped (`openai.ts:342`), and when the arguments of two calls
  come in turn all of them end up in one. `SharedChunksHeard` says what is left of such
  streams.
- A stream of Ollama's is not SSE (`ollama.ts:15` says that it is handled), but
  `parseSSE` passes over lines without `data: ` (`provider.ts:216`), so the client hears
  nothing. Its
  transformer would read the last line, with token counts, as usage, so the
  stream would have no end mark either. A stream to a Gemini or Ollama client ends
  in `[DONE]`, which those formats do not have.

Outside the model: `tool_choice` is dropped by every transformer; a content of
several parts where the code calls `String` (a chat system message, an Anthropic
result) becomes `[object Object]`; every provider but Anthropic is called at
`/v1/chat/completions`, whatever its format.

### `RequestLogger`, `ConfigWatcher`, `TenantManager`, `IpPool`

Four parts that share no state with each other or the rest. Each listener makes
its tenants and its pool (`proxy/listener-runtime.ts:131`, `:144`); the logger, the
watcher, the tenants' middleware and the marks of the pool have no caller in the
repository and are what the package offers to programs.

| Module | State and steps |
| --- | --- |
| `RequestLogger` | `writeQueue`; `flights`, what each flush has still to write; `written`, `failed`. `LogRequest` with the flush the full queue causes, `FlushTick`, `WriteEntry` (one `await` of the loop, or the exception that gives up the rest of the batch), `CloseLogger` |
| `ConfigWatcher` | the file, the running configuration, the pending event, the debounce timer, and each running handler with what it has read. `Notice`, `HandleChange`, `Read`, `Apply` are the pieces between awaits; with the default loader `Apply` reads the file again |
| `TenantManager` | `tenants` and `keyIndex`, the costs of the month, and the requests between the middleware's two pieces. Lists and additions may hold any identifiers and keys, the same ones again too: `given` observes which were given and not taken back |
| `IpPool` | marks with their time, `roundRobinIndex` and `weightedCounter`, shared by all providers. `SelectIp` clears expired marks, falls back to marked addresses and takes the next in turn |

What the models show beside the properties: `close()` may resolve while an earlier
flush is still writing, and an entry logged after it waits for ever (or for the
hundredth); a failed write gives up the entries behind it in its batch; a handler
that has begun applies its configuration after the watcher was stopped; with a
`parseConfig`, the slower of two overlapping handlers wins, even with the older
content; `addTenant` with the id of a present tenant and another key leaves the old key
in the index, of two tenants with one key only the last added is found, and removing
either takes the key from both; a request with a key whose tenant is gone makes
`authenticate()` throw (`tenant.ts:163`), where `tenant.ts:145` promises a context or null; providers with different addresses move the same
index, so each alone may not see every address in turn.

## 4. Runs

### `fallback_chain` (`MCFallbackChain`, `FallbackChain.cfg`)

Two requests, two providers, one retry, a budget of two ticks, a clock of four,
threshold 2, reset after 1, one probe. Small as it is, a request can expire at
each point of both loops, two can race for one breaker in all three states, a
call admitted while the breaker was closed can end while it is open or
half-open, and each provider can be skipped, fail in each way or answer. The
statuses hit each branch of `classifyError`. Deadlock is not checked: a chain
ends and the clock stops at its bound.

| Property | Says |
| --- | --- |
| `BreakersSound` | the counters agree with the state whatever results arrive late |
| `SlotsAccounted` | a half-open slot belongs to a counted success, a pending first call, or a request that ran out of time before calling |
| `NoProviderLeftUntried` | a chain that fails with time left has used up every provider |
| `BreakerTransitions` | only the documented transitions, each for its reason |
| `ChainsEnd` | every chain returns or throws |
| `ImplementsFailover` | the refinement: providers are left in list order, each once, and the outcome is the first answer or a failure with nothing left |

### `half_open_wedge` (violated)

A half-open breaker allows a few test requests (`circuit-breaker.ts:20`). The
run shows a request that takes the slot in `allowRequest` and finds its budget
gone at `chain.ts:66`, a millisecond later in the same callback. It leaves
without recording anything, and as only a recorded result gives a slot back,
the breaker stays half-open and turns everyone away until the process restarts.
`SlotsAccounted` of the passing run says this is the only way to lose a slot.

### `proxy_lifecycle` (`MCProxyLifecycle`, `ProxyLifecycle.cfg`)

Two proxies, one with hooks, and any three of: start of either, stop and reload
of the one with hooks, shutdown, with everything that can fail failing. Three
calls are what it takes for a start to find what two stops left behind; that two
proxies start together is two calls. One connection per proxy tells a drained
server from one that is not. The process may stop, so deadlock is not checked.

| Property | Says |
| --- | --- |
| `ListenerOwned` | a server that listens is its proxy's, or its start has still to hear of it |
| `ServingHasStore` | no proxy serves over a closed store unless a start and a stop of one proxy overlapped |
| `DrainedBeforeClose` | a shutdown closes the store under no request, unless the drain's timer fired or calls overlapped |
| `CallsMeanIt` | a resolved stop or shutdown leaves its proxies deaf, a resolved start leaves them serving |
| `CallsSettle` | every call resolves or rejects |

The exceptions are real: the second of two signals (`index.ts:43`) shuts down
once more, finds no server listening, and closes the store under the requests
the first is waiting for.

### `reload_fails` (violated)

`README.md:152` says that `reload()` reloads all proxies. The run has no faults:
a running proxy is stopped, and the start throws because the built-in plugin of
the first start is still registered (`proxy-instance.ts:119`,
`plugin/registry.ts:50`). So does any start after a stop.

### `route_request` (`MCRouteRequest`, `RouteRequest.cfg`)

Two requests over all five kinds of route, either store, two providers, with one
of the requests possibly bearing the other's id. Two are enough for a row to be
ignored in favour of another's; everything that can fail does so before, behind
or inside an answer, and the client or the store may leave at any time. Errors
carry 500 and early answers 429: the properties tell apart only success and
failure. Requests end, so deadlock is not checked.

| Property | Says |
| --- | --- |
| `RowsTellOutcome` | a row's status is the one sent, or that of a failure behind the answer, and then the connection is broken |
| `AuditComplete` | with the store open, a request that a route has handled or that was seen to finish has a row under its id |
| `UsageHasRow` | no usage entry without a row to join it with, although separate, unchecked calls write them |
| `StatsMatchLog` | the admin statistics agree with the router's rows of the memory store in number and tokens, and report no more errors than they show |
| `RouteRowKept` | of a config route's two rows SQLite keeps the router's, which knows the tokens |
| `CallsAreAnswered` | a call to providers ends in a complete answer or a broken connection |

`RouteRowKept` is about config routes only: the first row of a function route
that answers by itself may be `finish`'s, and its tokens are lost.
`StatsMatchLog` bounds errors from one side because a function route that
answers with an error status by itself does not count one.

### `compose_logged` (violated)

`README.md:34` promises every request in the log for audit. Behind a composed
answer the router sets a header (`router.ts:481`), which throws as the head is
out: the client has its 200, the log says 500 and the statistics count an error.

### `fallback_body` (violated)

`README.md:22` promises that requests fall back from OpenAI to Anthropic. The
body is built once, by the first provider's transformer (`router.ts:526`), and a
fallback of another format is sent that body.

### `composed_request` (`MCComposedRequest`, `ComposedRequest.cfg`)

Two middlewares, of which the outer may forget to await and the inner edits; a
chain of three steps with every choice of policies, or two rounds of up to two
calls out of one tool of each kind; the budget may run out at any step. The
rules of the onion relate a middleware to its neighbour, so two show them, and
the theorems of section 6 hold for any number. Three steps are what it takes for
a step to see one that is not its predecessor; two calls for a result to be out
of place; two rounds for a limit that is neither first nor passed. Requests end,
so deadlock is not checked.

| Property | Says |
| --- | --- |
| `OnionOrder` | while a middleware runs, those outside it wait, unless one in between did not await |
| `ErrorNamesCulprit` | what a dispatch rejects with was thrown by that middleware, or is what the one inside it rejected with, unchanged |
| `StepsSeeTheirPast` | a step is called with every earlier result in the map and, unless that one was skipped, on the text of the one just before it, although one of three branches leaves neither |
| `ChainKeepsPolicies` | a chain goes on and stops as its policies say, throws when no step was of use, and otherwise answers with the last that was, unless `fail` stopped it |
| `CallsHaveResults` | each tool call in the conversation has one result, in order, an error if nobody runs the tool |
| `CompositionEnds` | a composition ends, unless a local function keeps it or the process dies |

### `policies_as_documented` (violated)

`docs/DEEP-DIVE-INGRESS-AND-COMPOSITION.md` says of a step with policy `fail` that the
whole composition fails (415-417), and of one with `skip` that the chain continues
with the previous output (422-424). The property has a conjunct for each and the code
violates both. The trace is a chain that `fail` stopped and that answers with the text
of a defaulted step before it (`compose/chain.ts:258`); with the conjunct on `skip`
alone it is a step that is called with the empty text of a skipped one
(`compose/chain.ts:230`).

### `edits_reach_providers` (violated)

`ARCHITECTURE.md:119` says that middleware can transform requests, and
`README.md:230` that the prompt guard's `sanitize` strips what it found and
continues. The run shows an edit of `ctx.request` that no provider of a compose
route sees: the chain builds on `ctx.original` (`compose/chain.ts:36`), the tool
rounds on the request as parsed (`server/router.ts:396`). A route's own
`systemPrompt`, set on `ctx.request` (`router.ts:328`), is lost the same way.

### `conversation` (`MCConversation`, `Conversation.cfg`)

Five clients (OpenAI and Anthropic over HTTP, Anthropic, Gemini and Ollama through
the library), providers of the four formats and `plain`, one an application
registered that has none of the features, so that every degradation happens. A
client opens with a question, a picture or an earlier exchange of one or two
calls, with or without system prompt, tools and thoughts. Answers have words, one
or two calls of one function, thoughts, are cut off, or carry broken arguments,
and come whole or in chunks: each part in its own, blocks sharing chunks in every
way, or the arguments of two calls in turn. Two rounds are what it takes for an identifier to go
to the client and come back beside another's. A conversation may end at any time,
so deadlock is not checked.

| Property | Says |
| --- | --- |
| `RequestUnderstood` | a provider reads the words, pictures and calls of the client's history, by the same speakers and in the same order, after the right system prompt; one without a feature reads the rest, with prompt and tools in words |
| `ResultsFindTheirCall` | the provider reads the results of the client's history, all, in order and none twice, each for the call it answered there, apart from the known copies between chat formats |
| `AnswerHeard` | the client hears the words and calls of the answer, in order, and that it was cut off; at every moment of a stream whose chunks hold one part each it has heard a beginning of it and nothing twice, and all of it once it is told the end; its calls have distinct identifiers |
| `SharedChunksHeard` | of blocks that share chunks the client hears nothing twice and nothing out of order; from OpenAI's format, also where arguments come in turn, it hears all words, and the calls it gets have distinct identifiers |

### `services` (`MCServices`, `Services.cfg`)

Five parts, of which a behaviour exercises one (`subject`), the others staying as
they began. They may stop, so deadlock is not checked.

- Rate limit: three checks at one listener with a capacity of one, either store, a
  minute of three ticks, a second of the headers of two, a lifetime of a stored
  bucket of a minute, a clock of four. Two overlapping checks can both be let through,
  a refused one be written over a granted one, and a poll and a wait follow;
  expiry and cleanup come in between. The theorems hold for any number of checks, any
  rate and any clock.
- Tenants: two identifiers and two keys, lists of up to two entries, additions,
  removals and requests that may clash in every way: a key changes hands, an identifier
  gets another key, two tenants have one key.
- Address pool: three addresses of weight 2, 1 and 1, a provider with two of them,
  marks that expire and six selections complete a cycle of every set and begin another.
- Request logger: four entries and a queue of two make flushes overlap with a third
  batch and with a close.
- Config watcher: three edits make two handlers overlap and a third event arrive.

| Property | Says |
| --- | --- |
| `GrantsBounded` | what was let through and what is left in the bucket never exceed capacity plus refill by more than one token per overlap of checks on different copies of the bucket: with the memory store only while the bucket is new, with SQLite whenever checks overlap |
| `ResetAtTrue` | `X-RateLimit-Reset` is the first time at which the bucket is full, or a tick later, also through refused checks, which do not set it. It is also why the cleanup by reset time loses nothing |
| `RetryAfterEnough` | a client that waits longer than `Retry-After` says, if only by a tick, is let through, however often it polled and however its refills were rounded |
| `KeysResolve` | the maps hold nothing that was not given or was taken back, and a tenant that shares neither its identifier nor its key is found by its key |
| `FairShare` | as long as requests choose from the same addresses, each has its share of turns, whatever marks and other providers did to the indexes before |
| `EachEntryOnce` | however flushes overlap, an entry is queued, on its way, stored or given up, in one place and once |
| `EntriesSettle` | what is queued while the timer runs, or on its way, is stored or given up in the end, also if `close` comes first |
| `SettlesOnFile` | once the file is left alone, valid and watched, its settings are in force; with a `parseConfig` unless handlers overlapped |

## 5. Fairness

`FallbackChain!Fairness` asks for weak fairness of the clock, of each
callback's synchronous steps (the event loop runs a callback to its next
`await`), of each sleep's timer, and of the end of a call *once its deadline
has passed* (the budget's `AbortSignal` is passed to `fetch`). A provider that
simply never answers is allowed before the deadline. Nothing is assumed of
clients or operators. `ChainsEnd` needs each of them.

`ProxyLifecycle!Fairness` asks for weak fairness of each call's steps and of its
settling: hooks, imports and the database come back, `listening` is emitted and
timers fire. Clients owe nothing, so a drain may only end by its timer.
`RouteRequest!Fairness` asks for weak fairness of what a pending call to
providers or its stream becomes, since the abort signal of the request's budget
ends both. It asks it neither of tool rounds, whose local functions nothing
bounds, nor of middleware and handlers. `ComposedRequest!Fairness` is of the same
kind: the steps of a chain and of tool rounds are weakly fair, as the abort
signal ends every call to a provider, except while a local function runs.
`CompositionEnds` says so and excepts that case. `LoggerFairness` is that of the
interval, which goes off until it is cleared, and of the store, whose promises
settle. `WatcherFairness` is that of the events of a file that is watched, of the
debounce timer and of reading a file; nobody owes an edit or a stop. `TokenBucket`,
`Conversation`, `TenantManager` and `IpPool` state no liveness and no fairness.

## 6. Proofs

`FallbackChainProofs` begins with the breaker: for all thresholds and timeouts, each
method keeps it typed and `Sound`, moves it only as `Moves` allows, and does to the
slots and successes counted in half-open what the lemmas say.

Then it proves for any number of requests, providers and
retries, any budget and backoff, with or without breakers:

- `Invariance`: `Spec => []IInv`. `IInv` joins `TypeOK`, `BreakersSound`,
  `RegistryUntouched`, `ControlConsistent` and `FailoverInOrder`. The first two
  are not inductive alone: that an attempt counter stays in range needs that a
  sleeping request may retry, that an index is a provider's needs the control
  state, and that a request settles its fate with a provider once needs the
  order of the earlier ones.
- `TypeCorrect`, `BreakersStaySound`, `FailoverStaysInOrder` (providers are left
  in order, each for a settled reason) follow at once;
  `NothingLeftUntried` from the last two conjuncts.
- `BreakersMoveAsPromised`: the action property, one method at a time.
- `SlotsStayAccounted`: `SlotsAccounted` is inductive relative to `IInv`; the
  proof counts the sets `Pending` and `Unused` with the theorems on finite
  sets, hence the assumption that `Request` is finite.
- `ChainImplementsFailover`: the refinement, each action being one abstract
  step or a stutter.

`ProxyLifecycleProofs` proves `ListenerAlwaysOwned` for any number of proxies and
calls. What keeps two overlapping starts apart is not the `started` flag, which
both find unset, but the registry: the built-in plugin can be registered once.
The invariant `OwnedInv` therefore splits on it. Before, the proxy is `Fresh`:
nothing listens and no call is past registration. After (`Passed`), at most one
call is between registration and serving, no stop is under way meanwhile, the
server is the remembered one afterwards, and it never listens again once it is
drained. `RestInv` says that a call that has not begun or has ended is in no
method. A change that gave plugin names back on a stop would repair `reload` and
make this theorem false (the mutant `NamesReplaced` shows how), unless `stop`
and `start` were serialised as well.

The same module proves `ServingAlwaysHasStore` and `LifecycleTyped`. A shutdown
closes the store in one step (`Resolve`) and clears `storeInitialized` in a later
one (`ShutdownDone`); in between the flag lies, and `initStore` believes it.
`StoreInv` says why no start is caught by that as long as no start overlaps a
stop of the same proxy: `Apart` (the overlap itself), `Opened` (a start past
`initStore` has the store open), `Flagged` (the flag lies only while a shutdown
closes), `Shut` (what a shutdown has stopped stays silent until it resolves;
this rests on `OwnedInv`) and `Kinds` (a shutdown is a call on every proxy, so it
meets every start). TLC checked `StoreInv` in the instance of `proxy_lifecycle`
before it was proved.

Its last part proves `StoreClosesDrained` and `CallsAlwaysMeanIt`. Both
speak of the step in which a call resolves, so the invariant, `CallsInv`, says
for each proxy what the calls under way have done to it so far: `Overlaps` (calls
that meet there are noted as crossed or doubled), `Drains` (a proxy that no
longer listens while it still remembers its server, or has requests left that no
timer gave up, has a stop in its drain) and `AsAsked` (a call that is through
with a proxy left it listening or silent as asked, as long as nothing crossed).
TLC checked it in that instance first.

`RouteRequestProofs` proves `AuditStaysComplete` and `UsageAlwaysHasRow`, for any
number of requests, providers, shared ids and both stores. Their invariant
`IInv` adds to the two and to `TypeOK` only `Fresh`: a request that has not
arrived has no row, no usage and no response, and one without a route is at none
of the places a route leads to. Without it the choice of an id on arrival could
part a row from the request it accounts for. Nearly every step falls under one lemma,
`StepKeeps`: a step that lets the log grow, touches one request and, if it
settles or charges that request, finds a row under its id keeps all three. That
a write finds one is `LoggedRow`: the insert either succeeds or is ignored
because there is a row with that id. Closing the store is the one step of
its own.

The same module proves `RowsAlwaysTellOutcome`, `StatsAlwaysMatchLog` and
`RouteRowAlwaysKept`. What a row says depends on how far the response was when
it was written, and the response may still break afterwards. `LogInv`, on top of
`IInv`, is therefore about the handler: `ResponseInStep` (at which place of the
handler the response can be untouched, open or ended, and that its code is what
the client was told), `UsageInStep` (usage comes after everything else on a
config route) and `RowsInStep` (a row belongs to a request that is settled or
whose response is out, so no later step rewrites its status). The three
properties are then inductive together with it. The counts of `StatsMatchLog`
are those of finite sets that grow by one row at a time.

`TokenBucketProofs` proves `BucketTyped` for any listeners, checks and rates, over
both stores. `BaseInv` adds to the types `Times` (no bucket is ahead of a check
that holds it), `Queue` (checks run in the order in which they looked the bucket
up) and `Unmade` (a bucket not made yet is used by nobody).

The other three properties are proved for a listener that has its store to
itself, the hypothesis `Listener = {l}` of the theorems. It is not a convenience:
listeners of different rates share the bucket of an address, and then one
inherits the refill of the other (section 3, `TokenBucket`).
`BucketInv(l)` says of the buckets in use (stored, or held by a check):

- `ResetRight`: its reset time is when it is full, or a tick later. A denial
  refills the bucket without moving its reset time; that keeps the two bounds.
- `Outlives`: it is stored for at least as long as it needs to fill, which is
  why an expired bucket can be replaced by a full one.
- `Paid`: what was granted so far plus what is left is at most the capacity, the
  refill and the races; for a check that looked and has not decided, with
  one token for every other check that looked at a different copy.
- `Promised`: without a race all checks that look hold one bucket, and by the
  time the first denial promised it has a token, but for the rounding.

The levels in these are not rounded. `short` only decides what a check sees of one
(`Units`), so a check may be denied a tick after its bucket holds a token and no
later; that tick is what `RetryAfterEnough` leaves out.

`GrantsAlwaysBounded`, `ResetAlwaysTrue` and `RetryAfterAlwaysEnough` follow. The
provers know little of products of variables: the lemmas `TimesMore` and
`TimesSum` carry all the arithmetic. `MaxClock` only bounds the ticks; the
theorems hold for each value.

`ComposedRequestProofs` proves every safety property of `composed_request` for
any number of middlewares, steps, tools and rounds. The stages share only the
context, so each has an invariant of its own and the others leave it alone:

- `OnionKeepsOrder` and `ErrorsKeepTheirName` from `PipelineInv`, which adds
  `Nested`: what `called`, `floating`, `mw` and `verdict` say of a middleware and
  of the one inside it. A middleware that has not called `next()` has nothing
  inside it; one that waits is waited for until the inside has settled. Without
  it, a middleware could resume while one inside it runs. The six ways to settle
  or to enter fall under the lemmas `Settles` and `Enters`.
- `CallsAlwaysHaveResults` from `ToolInv`, which adds `ToolsInOrder`: where in a
  round the loop is, and that the results so far answer the first calls.
- `StepsAlwaysSeeTheirPast` and `ChainAlwaysKeepsPolicies` from `ChainInv`.
  `PastKept` says that everything is remembered while there is time or a call is
  under way: a late chain may have forgotten a result, but it never calls again
  because the deadline does not move. `ResultsByPolicy` says what each result is
  made of, and `LastGood` that the useful steps, if any, have a last one, which the
  choice in `ChainAnswer` needs.
- `TypeCorrect` joins the typed parts.

`ServicesProofs` is about three of the parts without shared state.
`KeysAlwaysResolve` holds for any tenants, keys and lists, with the same identifier or
key in them any number of times: `KeysResolve` is inductive with the types, the
lemmas say what the maps of a list hold (the last entry of each identifier, and
of each key) and that a step on one tenant leaves those alone that share nothing with
it. `EntriesStayOnce` and
`EntriesStayLogged` hold of the request logger for any entries and any length of
queue. `LoggerInv` is `EachEntryOnce` with the types and with the fact that a
flush under way has something left to write. The lemmas `AppendOnce`,
`TailOnce`, `AppendBatch`, `DropBatch` and `AdvanceBatch` say what the sequences'
operators do to the entries they hold. `EntriesStayLogged` is no property of a
run: every step keeps what was logged, and never takes an entry back from the
store or from those given up.

`SharesAlwaysFair`, for any addresses and weights, is about the turns of `IpPool`.
A cycle has as many slots as the weights add up to (as many as there are
addresses, in round robin), and each address has a run of them. `PoolInv` says that
the turns counted since the pool changed are those of the slots from `s`, where
the index stood then, to `c`, where it stands now, the end of the cycle having been
passed `k` times (`Dealt`). `NoneDealt` begins such a count, `DealtNext` takes one
turn: the address selected is the one whose slots hold the index (`InTurnIs`,
`WeightedIs`). `DealtFairly` derives the bounds, from `MadeIs` (as many turns were
made as slots passed) and some arithmetic of products. A pool of one address takes
no turns and needs no invariant.

The sums of weights and the filter of addresses are folds over a sequence of any
length, hence an induction, and the theorems of the library that state induction
take an operator as a parameter. Their root does not: `<` is well-founded on the
naturals, so every nonempty set of naturals has a least element (`LeastNat`), and
what holds of 0 and passes from `k` to `k + 1` holds up to any `n` (`Induction`,
over a set of numbers in place of a predicate). `FoldExists` builds by it the
function that the definition of `FoldLeft` chooses; `TotalIs`, `TotalsOfPrefixes` and
`AmongIs` say what the folds yield. The induction and the general facts are in
`SequenceFacts`, which `ConversationProofs` uses too.

`ConversationProofs` proves `AnswersAlwaysHeard`, for any providers, clients, histories
and rounds and for any answer that is as `Tells` says, whole or in a stream whose chunks
hold one part each. Of streams that share chunks or send arguments in turn it says
nothing, as they are not heard in full (section 3). An answer is words and thoughts, then calls,
each with a name and arguments. Words after a call are left out because a message of
OpenAI or Ollama has one content and a list of calls and cannot say where among
them a word stood. A provider's text is any sequence of strings.

- Its lemmas go through the formats one block at a time. What an operator does
  to a sequence of blocks is what it does to each of them, joined (`Spread`, of
  `SequenceFacts`): `OfTypes`, `Words`, the streams and what is read of them are all
  brought to that form, by induction on the sequence (`SequenceInduction`). `Canonical(p, s)` is the sequence of
  canonical blocks that the chunks of an answer `s` amount to when provider `p` streams
  it, and `Showing(f)` what a client of format `f` gets of one.
- The invariant is `TalkInv`. `TalkTyped` and `Fresh` say that there is nothing of an
  answer before there is one. `AnswerSound` is the claim on a whole answer, and on the
  identifiers of its calls, for as long as the client has not gone on.
- `StreamSound` is about the stream. What the client heard says too little to be
  inductive, since a chunk means nothing without those before it: the name of a call
  comes in one chunk and its arguments in later ones. `Relayed` says instead that the
  parts written are those of a beginning `a` of the canonical blocks, and that the end
  was told only if nothing is left; `Flowing` that the chunks still to come amount to
  the rest `b` of them, so that a chunk read and its translation take one step along
  `a \o b`. A stream that breaks off or whose relay throws keeps `Relayed`.
- `RelayedHeard` then derives that the client heard a beginning, and
  `StreamAnswered` that the message it puts together has calls that can be told
  apart. In a stream their identifiers are the provider's (`Identified` makes them
  different), and putting the parts together must not merge two calls or
  split one: `Orderly` says of the parts that one without a name follows the call it
  goes on with, `Fine` what the fold of `Assembled` keeps. In a whole answer
  (`WholeAnswer`) the identifiers may also be made of a call's place in it.

TLC cannot evaluate `TalkInv`, which speaks of all sequences of blocks; it checks
`AnswerHeard` itself in `conversation`.

The assumptions are `LifecycleAssumption`, `BreakerAssumption`,
`ChainAssumption`, `RouteAssumption`, `BucketAssumption`, `ContextAssumption`,
`PipelineAssumption`, `ToolAssumption`, `TenantAssumption`, `PoolAssumption` and
`ConversationAssumption` (the ranges of the constants; `FallbackChain` and
`ChainComposer` each have a `ChainAssumption`), `AnswersAssumption` (every answer a
provider may give is as `Tells` says) and `BackoffAssumption`, which
says that `BaseBackoff * 2 ^ n` is a natural number: the provers know nothing of
exponentiation. TLC evaluates all of them in the runs.

Model-checked only: `ChainsEnd`, `CallsSettle`, `CallsAreAnswered`,
`CompositionEnds`, `EntriesSettle` and `SettlesOnFile` (liveness is out of the
prover's reach); `SharedChunksHeard` of `conversation`, and `RequestUnderstood` and
`ResultsFindTheirCall`, which compare what two ends make of histories of any shape, over several messages
that refer to each other and with tools and prompts turned into words: they would
need an account of every message of a history in the way `ConversationProofs` gives one
of the blocks of one answer.

## 7. Not modelled

- **Prompt guard, thinking and custom middleware** (`middleware/`): what they decide
  rests on regular expressions over texts and on imported files. What a middleware
  may do to a request, wherever it stands in the pipeline, is in `Pipeline`.
- **Retry helper** (`fallback/retry.ts`): exported, not used by the router; its loop
  is the one of a single provider in `FallbackChain` without breaker and budget.
- **Configuration** (`config/loader.ts`, `schema.ts`, `defaults.ts`): a pure reading
  of files. The bounds it enforces are the assumptions on the constants.
- **Statistics, cost and cache routes** of `admin/`: reads, apart from the breakers'
  states in `FallbackChain` and the counters in `RouteRequest`.
- **Composition as `docs/DEEP-DIVE-INGRESS-AND-COMPOSITION.md` plans it**: parallel and
  conditional steps, step transforms, the `X-Prism-Partial` headers. The code has none.
- **Usage and cost queries of the store**, log retention: aggregations in SQL.
- **Agents** (`network/agent-factory.ts`), proxies and the pool's `random` and
  `least-recently-used` strategies.
- **Single-port server** (`server/express.ts`), **command line** (`cli/`), **hosts**
  (`runtime/`): a second way to start the same router, file and process I/O,
  interfaces without behaviour.
