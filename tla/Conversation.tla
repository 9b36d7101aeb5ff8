---------------------------- MODULE Conversation ----------------------------
(***************************************************************************)
(* A client and its providers talk through the transformers: requests and  *)
(* answers, whole or streamed, of src/src/server/router.ts, with the       *)
(* provider's bytes read by src/src/proxy/provider.ts and the client's     *)
(* written by src/src/proxy/stream.ts.  The client keeps the history in    *)
(* its own format and sends it whole each time, to a provider of any       *)
(* format.  Over HTTP the router guesses the client's format; a program    *)
(* that uses the library names it.                                         *)
(***************************************************************************)
EXTENDS OllamaTransformer, AnthropicTransformer, GeminiTransformer,
        FeatureDegradation, WireReading

CONSTANTS
  Providers,     \* formats of the providers
  Clients,       \* pairs <<format, how it is known>>: "http" or "library"
  Systems,       \* system prompts of a client
  RoutePrompts,  \* system prompts of a route
  Openings,      \* openings[format]: what a client's history may start with
  SaidBy(_),     \* answers a provider may give: [blocks, cut]
  Cuts,          \* ways in which providers cut a stream into chunks
  Results,       \* results of calls, in the order in which they are returned
  MaxRounds      \* requests in a conversation

ASSUME ConversationAssumption ==
  /\ Providers \subseteq {"openai", "ollama", "anthropic", "gemini", "plain"}
  /\ Clients \subseteq {"openai", "ollama", "anthropic", "gemini"} \X {"http", "library"}
  /\ \A c \in Clients : c[2] = "http" => c[1] \in {"openai", "anthropic"}
  /\ Cuts \subseteq {"apart", "bundled", "woven"}
  /\ MaxRounds \in Nat \ {0}
  /\ \A c \in Clients : \A opening \in Openings[c[1]] : opening \in Seq(Range(opening))

(* What a provider may say: words, then calls, each with a name and         *)
(* arguments; only Anthropic's format has thoughts.  It names its calls    *)
(* when it sends them.                                                     *)
Word == STRING
AnswerBlock == [type : {"text", "tool_use", "thinking"}, text : Seq(Word),
                id : {NoId}, name : Word]

Tells(p, said) ==
  /\ said \in [blocks : Seq(AnswerBlock), cut : BOOLEAN]
  /\ \A i \in DOMAIN said.blocks :
       /\ said.blocks[i].type = "thinking" => p = "anthropic"
       /\ said.blocks[i].type = "tool_use" =>
            /\ said.blocks[i].name # "" /\ said.blocks[i].text # <<>>
            /\ \A j \in DOMAIN said.blocks : i < j => said.blocks[j].type = "tool_use"

ASSUME AnswersAssumption == \A p \in Providers : \A said \in SaidBy(p) : Tells(p, said)

VARIABLES
  client,     \* its format, how it is known, its system prompt, tools, model
  history,    \* the messages it has, in its format
  route,      \* the system prompt of the route
  round,      \* requests it made
  phase,
  to,         \* <<format of the provider, "fallback" or "compose">>
  sent,       \* the body the provider was sent
  answer,     \* what the provider says: [blocks, cut]
  style,      \* how it is cut into chunks
  incoming,   \* chunks of it the proxy has still to read
  outgoing,   \* chunks the client got
  got,        \* the whole answer the client got: [message, stop]
  made        \* identifiers the providers made up

talk == <<answer, style, incoming, outgoing, got>>
vars == <<client, history, route, round, phase, to, sent, talk, made>>

Nothing == [blocks |-> <<>>, cut |-> FALSE]
NoAnswer == [message |-> Plain("assistant", Absent), stop |-> ""]

(***************************************************************************)
(* The registry of transformers; `plain` is one an application registered, *)
(* of the messages of OpenAI and no other feature.                         *)
(***************************************************************************)
Capabilities(format) ==
  CASE format = "openai"    -> OpenAICapabilities
    [] format = "ollama"    -> OllamaCapabilities
    [] format = "anthropic" -> AnthropicCapabilities
    [] format = "gemini"    -> GeminiCapabilities
    [] format = "plain"     ->
         [tools |-> FALSE, vision |-> FALSE, thinking |-> FALSE, system |-> FALSE]

ToCanonical(format, body) ==
  CASE format = "openai"    -> OpenAIToCanonical(body)
    [] format = "ollama"    -> OllamaToCanonical(body)
    [] format = "anthropic" -> AnthropicToCanonical(body)
    [] format = "gemini"    -> GeminiToCanonical(body)

FromCanonical(format, req) ==
  CASE format \in {"openai", "plain"} -> OpenAIFromCanonical(req)
    [] format = "ollama"    -> OllamaFromCanonical(req)
    [] format = "anthropic" -> AnthropicFromCanonical(req)
    [] format = "gemini"    -> GeminiFromCanonical(req)

ResponseToCanonical(format, r) ==
  CASE format \in {"openai", "plain"} -> OpenAIResponseToCanonical(r)
    [] format = "ollama"    -> OllamaResponseToCanonical(r)
    [] format = "anthropic" -> AnthropicResponseToCanonical(r)
    [] format = "gemini"    -> GeminiResponseToCanonical(r)

ResponseFromCanonical(format, res) ==
  CASE format = "openai"    -> OpenAIResponseFromCanonical(res)
    [] format = "ollama"    -> OllamaResponseFromCanonical(res)
    [] format = "anthropic" -> AnthropicResponseFromCanonical(res)
    [] format = "gemini"    -> GeminiResponseFromCanonical(res)

ChunkToCanonical(format, c) ==
  CASE format \in {"openai", "plain"} -> OpenAIChunkToCanonical(c)
    [] format = "ollama"    -> OllamaChunkToCanonical(c)
    [] format = "anthropic" -> AnthropicChunkToCanonical(c)
    [] format = "gemini"    -> GeminiChunkToCanonical(c)

ChunkFromCanonical(format, c) ==
  CASE format = "openai"    -> OpenAIChunkFromCanonical(c)
    [] format = "ollama"    -> OllamaChunkFromCanonical(c)
    [] format = "anthropic" -> AnthropicChunkFromCanonical(c)
    [] format = "gemini"    -> GeminiChunkFromCanonical(c)

(***************************************************************************)
(* The request.                                                            *)
(***************************************************************************)
Body ==
  LET system == IF client.system = <<>> THEN <<>> ELSE <<Plain("system", Str(client.system))>>
  IN  IF client.format \in Chat
      THEN [system |-> <<>>, messages |-> system \o history, tools |-> client.tools]
      ELSE [system |-> client.system, messages |-> history, tools |-> client.tools]

(* What detectClientFormat makes of a body: calls or results among the     *)
(* blocks of a content, unless the model is a gpt and there is no system.  *)
DetectClientFormat(body) ==
  IF /\ body.system # <<>> \/ ~client.gpt
     /\ \E i \in DOMAIN body.messages :
          /\ body.messages[i].content.kind = "array"
          /\ OfTypes(body.messages[i].content.blocks, {"tool_use", "tool_result"}) # <<>>
  THEN "anthropic" ELSE "openai"

Format == IF client.known = "http" THEN DetectClientFormat(Body) ELSE client.format

(* JSON.parse of the arguments in the history.                             *)
Readable ==
  Format \in Chat =>
    \A i \in DOMAIN history : \A j \in DOMAIN history[i].calls :
      history[i].role = "assistant" => IsJson(history[i].calls[j].text)

(* The fallback path sends what the pipeline made of the request, with the *)
(* route's prompt; a compose route the client's request.                   *)
Prepared(provider, path) ==
  LET read == ToCanonical(Format, Body)
      told == IF read.system = <<>> THEN [read EXCEPT !.system = route] ELSE read
  IN  IF path = "fallback" THEN TransformFormat(told, Capabilities(provider)) ELSE read

Send(provider, path) ==
  /\ phase = "composing"
  /\ round < MaxRounds
  /\ path = "library" <=> client.known = "library"
  /\ round' = round + 1
  /\ to' = <<provider, path>>
  /\ IF Readable
     THEN /\ phase' = "sent"
          /\ sent' = FromCanonical(provider,
                       Degrade(Prepared(provider, path), Capabilities(provider)))
     ELSE /\ phase' = "failed"
          /\ UNCHANGED sent
  /\ UNCHANGED <<client, history, route, talk, made>>

(***************************************************************************)
(* The answer.  A provider that names its calls makes up an identifier     *)
(* for each.                                                               *)
(***************************************************************************)
Provider == to[1]

Identified(blocks) ==
  [i \in DOMAIN blocks |->
     IF blocks[i].type = "tool_use" THEN [blocks[i] EXCEPT !.id = <<"call", made + i>>]
     ELSE blocks[i]]

WireStop(format, said) ==
  LET calls == OfTypes(said.blocks, {"tool_use"}) # <<>>
  IN  CASE format \in {"openai", "plain"} ->
             IF said.cut THEN "length" ELSE IF calls THEN "tool_calls" ELSE "stop"
        [] format = "anthropic" ->
             IF said.cut THEN "max_tokens" ELSE IF calls THEN "tool_use" ELSE "end_turn"
        [] format = "gemini" -> IF said.cut THEN "MAX_TOKENS" ELSE "STOP"
        [] format = "ollama" -> "done"

WireAnswer(said) ==
  [message |-> WriteAnswer(Provider, said.blocks), stop |-> WireStop(Provider, said)]

(* A client that is taken for one of another format cannot read the        *)
(* answer.                                                                 *)
Reads == Format = client.format

(* callProvider and the serializer of the client's format.                 *)
AnswerWhole(said) ==
  LET read == WireAnswer(said)
  IN  /\ phase = "sent"
      /\ answer' = said
      /\ made' = made + Len(said.blocks)
      /\ IF Provider \in Chat /\ ~ArgumentsParse(read)
         THEN /\ phase' = "failed"
              /\ UNCHANGED <<got, history>>
         ELSE /\ got' = ResponseFromCanonical(Format, ResponseToCanonical(Provider, read))
              /\ phase' = IF Reads THEN "answered" ELSE "misread"
              /\ history' = IF Reads THEN Append(history, got'.message) ELSE history
      /\ UNCHANGED <<client, route, round, to, sent, style, incoming, outgoing>>

(* callProviderStream: the answer comes in chunks, cut one way or another. *)
AnswerInChunks(said) ==
  /\ phase = "sent" /\ to[2] # "compose"
  /\ answer' = said
  /\ made' = made + Len(said.blocks)
  /\ style' \in Cuts
  /\ incoming' \in Streams(Provider, said.blocks, style')
  /\ outgoing' = <<>>
  /\ phase' = "streaming"
  /\ UNCHANGED <<client, history, route, round, to, sent, got>>

Answer == \E said \in SaidBy(Provider) :
            LET known == [said EXCEPT !.blocks = Identified(@)]
            IN  AnswerWhole(known) \/ AnswerInChunks(known)

Kept(chunk) == chunk.kind # "null"

(* parseSSE hands a transformer the lines that begin with "data: ", and    *)
(* Ollama's do not.                                                        *)
ReadLine(chunk) ==
  IF Provider = "ollama" THEN NoChunk ELSE ChunkToCanonical(Provider, chunk)

(* writeSSEStream: a chunk read, turned into the client's format and       *)
(* written; the end of the stream in the words of the client's kind.       *)
WriteChunk(c) ==
  IF c.kind = "done" THEN Chunk(IF Format = "anthropic" THEN "message_stop" ELSE "[DONE]", <<>>)
  ELSE ChunkFromCanonical(Format, c)

RelayThrows(c) == Format = "gemini" /\ GeminiChunkThrows(c)

Relay ==
  /\ phase = "streaming" /\ incoming # <<>>
  /\ LET c       == ReadLine(Head(incoming))
         written == IF Kept(c) THEN WriteChunk(c) ELSE NoChunk
     IN  IF Kept(c) /\ RelayThrows(c)
         THEN /\ phase' = "failed"
              /\ UNCHANGED <<incoming, outgoing>>
         ELSE /\ incoming' = IF c.kind = "done" THEN <<>> ELSE Tail(incoming)
              /\ outgoing' = IF Kept(written) THEN Append(outgoing, written) ELSE outgoing
              /\ phase' = IF c.kind = "done" THEN "ended" ELSE phase
  /\ UNCHANGED <<client, history, route, round, to, sent, answer, style, got, made>>

(* The provider's connection ends, after its last chunk or before.         *)
SourceEnds ==
  /\ phase = "streaming"
  /\ incoming' = <<>>
  /\ phase' = "ended"
  /\ UNCHANGED <<client, history, route, round, to, sent, answer, style, outgoing, got, made>>

(* The client puts together what came; what it cannot use ends the talk.   *)
(* Outside the chat formats arguments are values: it parses what it got,   *)
(* and takes nothing for no arguments.                                     *)
Complete == outgoing # <<>> /\ Last(outgoing).kind \in {"[DONE]", "message_stop"}

Usable(blocks) ==
  client.format \in Chat
  \/ \A i \in DOMAIN blocks : blocks[i].type = "tool_use" =>
       blocks[i].text = <<>> \/ IsJson(blocks[i].text)

Assemble ==
  /\ phase = "ended"
  /\ IF Reads /\ Complete /\ Assembled(outgoing) # <<>> /\ Usable(Assembled(outgoing))
     THEN /\ history' = Append(history, WriteAnswer(client.format, Assembled(outgoing)))
          /\ phase' = "answered"
     ELSE /\ phase' = IF Reads THEN "failed" ELSE "misread"
          /\ UNCHANGED history
  /\ UNCHANGED <<client, route, round, to, sent, talk, made>>

(***************************************************************************)
(* The client goes on: with the results of the calls, or another word.     *)
(***************************************************************************)
Continue(messages) ==
  /\ phase = "answered"
  /\ history' = history \o messages
  /\ phase' = "composing"
  /\ answer' = Nothing /\ style' = "none" /\ outgoing' = <<>> /\ got' = NoAnswer
  /\ UNCHANGED <<client, route, round, to, sent, incoming, made>>

ReturnResults ==
  LET calls == CallsOf(Last(history))
      known == Len(CallsAmong(Exchange(history))) - Len(calls)
  IN  /\ calls # <<>>
      /\ Continue(WriteResults(client.format, calls, SubSeq(Results, known + 1, Len(Results))))

AskMore ==
  /\ CallsOf(Last(history)) = <<>>
  /\ Continue(<<Plain("user", IF client.format = "gemini" THEN Arr(<<Text(<<"more">>)>>)
                              ELSE Str(<<"more">>))>>)

Init ==
  /\ \E c \in Clients, s \in Systems, t \in BOOLEAN, g \in BOOLEAN :
       /\ g => c = <<"anthropic", "http">>
       /\ client = [format |-> c[1], known |-> c[2], system |-> s, tools |-> t, gpt |-> g]
  /\ \E opening \in Openings[client.format] : history = opening
  /\ route \in RoutePrompts
  /\ round = 0 /\ phase = "composing" /\ to = <<"none", "none">>
  /\ sent = [messages |-> <<>>, tools |-> FALSE, system |-> <<>>]
  /\ answer = Nothing /\ style = "none" /\ incoming = <<>> /\ outgoing = <<>> /\ got = NoAnswer
  /\ made = 10

Next ==
  \/ \E p \in Providers, path \in {"fallback", "compose", "library"} : Send(p, path)
  \/ Answer
  \/ Relay
  \/ SourceEnds
  \/ Assemble
  \/ ReturnResults
  \/ AskMore

Spec == Init /\ [][Next]_vars

(***************************************************************************)
(* What a request means to the provider.                                   *)
(***************************************************************************)
Prompt == IF client.system = <<>> /\ to[2] = "fallback" THEN route ELSE client.system

(* An assistant's message of calls without content loses the calls, if it  *)
(* is of a chat format.                                                    *)
CallsAlone == client.format \in Chat
              /\ \E i \in DOMAIN history : history[i].calls # <<>> /\ history[i].content = Absent

(* The results of a chat client reach Anthropic twice, once as words of    *)
(* the user.                                                               *)
ResultsDoubled == client.format \in Chat /\ Provider = "anthropic"
                  /\ \E i \in DOMAIN history : history[i].role = "tool"

(* The tools in words are lost by a degraded system prompt, on the paths   *)
(* without the middleware.                                                 *)
ManualLost == to[2] # "fallback" /\ client.system # <<>>

(* A provider reads the words, pictures and calls the client's history     *)
(* holds, by the same speakers and in the same order, after the system     *)
(* prompt of the client or the route; one without pictures, tools or a     *)
(* system prompt reads the rest, with the prompt and the tools in words.   *)
(* The two transformers, the middleware and the wrapper in between are     *)
(* router.ts:275 to 526.                                                   *)
RequestUnderstood ==
  phase = "sent" /\ Reads /\ ~CallsAlone /\ ~ResultsDoubled =>
    LET said   == Talk(history)
        heard  == Talk(sent.messages)
        system == SystemRead(Provider, sent)
    IN  IF Provider # "plain"
        THEN /\ heard = said
             /\ IsPrefix(Prompt, system)
             /\ sent.tools = client.tools
        ELSE /\ IsSuffix(SelectSeq(said, LAMBDA p : p.kind # "picture"), heard)
             /\ IsPrefix(PerFragment("user", "text", Prompt), heard)
             /\ client.tools /\ ~ManualLost =>
                  Contains(system, Manual[1]) \/ Contains(heard, Piece("user", "text", Manual))

(* The results a provider reads are those the client's history holds, in   *)
(* the same order, each for the call it answered there, whatever the       *)
(* identifiers went through; where both ends name a call in a way the      *)
(* translation keeps.  From one chat format to another every result is     *)
(* sent twice (openai.ts:41-43 and 86-96), first without an identifier;    *)
(* that copy is passed over here, and no other result.                     *)
Carried == {<<"anthropic", "anthropic">>, <<"gemini", "gemini">>}
           \cup {"openai", "ollama"} \X {"openai", "ollama", "plain", "anthropic"}

IsCopy(read, k) == read[k][1] = 0 /\ k < Len(read) /\ read[k + 1][2] = read[k][2]

WithoutCopies(read) ==
  FlatMap(LAMBDA k : IF IsCopy(read, k) THEN <<>> ELSE <<read[k]>>, [k \in DOMAIN read |-> k])

ResultsFindTheirCall ==
  phase = "sent" /\ Reads /\ ~CallsAlone /\ <<client.format, Provider>> \in Carried =>
    LET read == Pairs(Provider, sent.messages)
    IN  (IF Provider \in Chat THEN WithoutCopies(read) ELSE read) = Pairs(client.format, history)

(* Whatever a client was answered, the calls it got can be told apart by   *)
(* their identifiers; a streamed Gemini answer, whose identifiers number   *)
(* the parts of one chunk, is excepted.                                    *)
ToldApartIn(calls) == \A i, j \in DOMAIN calls : calls[i].id = calls[j].id => i = j

CallsToldApart ==
  /\ phase = "answered" /\ client.format # "gemini"
  /\ ~(Provider = "gemini" /\ got = NoAnswer) /\ style \in {"none", "apart"}
  => ToldApartIn(CallsOf(Last(history)))

(***************************************************************************)
(* What an answer means to the client.                                     *)
(***************************************************************************)
HasCalls(blocks) == OfTypes(blocks, {"tool_use"}) # <<>>
HasThoughts(blocks) == OfTypes(blocks, {"thinking"}) # <<>>

StopTold == got.stop \in {"length", "max_tokens", "MAX_TOKENS"}

(* A whole answer reaches the client with its words and its calls, and     *)
(* with the news that it was cut off (an Ollama answer has only `done`); a *)
(* Gemini client finds thoughts among the words.                           *)
WholeAnswerHeard ==
  phase = "answered" /\ got # NoAnswer /\ ~(client.format = "gemini" /\ HasThoughts(answer.blocks)) =>
    /\ TalkOf(got.message) = Spoken("assistant", answer.blocks)
    /\ "ollama" \notin {Provider, client.format} => (StopTold <=> answer.cut)

(* In a stream thoughts are words.                                         *)
Streamed == LET Say(p) == IF p.kind = "thought" THEN [p EXCEPT !.kind = "text"] ELSE p
            IN  Each(Say, AllPieces("assistant", answer.blocks))

(* Providers that send a call at once, to a client that wants its name     *)
(* first; and the other way round.                                         *)
CallsReshaped ==
  /\ HasCalls(answer.blocks)
  /\ \/ client.format = "anthropic" /\ Provider \in {"gemini", "ollama"}
     \/ client.format = "gemini" /\ Provider \notin {"gemini", "ollama"}

(* At every moment of a stream whose chunks hold one part each the client  *)
(* has heard a beginning of what the provider says, nothing twice and      *)
(* nothing skipped; if it is told the stream is done it has heard all.     *)
StreamHeardInOrder ==
  style = "apart" /\ ~CallsReshaped /\ Reads /\ outgoing # <<>> =>
    /\ IsPrefix(HeardIn(outgoing), Streamed)
    /\ Complete => HeardIn(outgoing) = Streamed

(* What a client was answered is what the provider said: words, calls, in  *)
(* this order, and that it was cut off, in whole answers and in streams    *)
(* whose chunks hold one part each.                                        *)
AnswerHeard == WholeAnswerHeard /\ StreamHeardInOrder /\ CallsToldApart

(* Of a chunk with several parts the transformers read one.  What is left  *)
(* is still nothing the provider did not say, nothing twice and nothing    *)
(* out of its order; and of OpenAI's format, where calls share a chunk     *)
(* with each other or with words, or their arguments come in turn, every   *)
(* word arrives, and the calls that do can be told apart.                  *)
IsSubsequence(s, t) ==
  LET Match(rest, e) == IF rest # <<>> /\ Head(rest) = e THEN Tail(rest) ELSE rest
  IN  FoldLeft(Match, s, t) = <<>>

WordsIn(pieces) == SelectSeq(pieces, LAMBDA p : p.kind = "text")

SharedChunksHeard ==
  style \in {"bundled", "woven"} /\ Reads =>
    /\ style = "bundled" => IsSubsequence(HeardIn(outgoing), Streamed)
    /\ Provider # "gemini" =>
         /\ IsPrefix(WordsIn(HeardIn(outgoing)), WordsIn(Streamed))
         /\ Complete => WordsIn(HeardIn(outgoing)) = WordsIn(Streamed)
         /\ phase = "answered" /\ client.format # "gemini" => ToldApartIn(CallsOf(Last(history)))
=============================================================================
