---------------------------- MODULE WireReading ----------------------------
(***************************************************************************)
(* What the two ends of a conversation mean, in each format: how a party   *)
(* writes an answer and the results of its calls, and what it reads in a   *)
(* body, a message or the chunks of a stream.  These ends are programs     *)
(* outside the repository; the definitions follow the formats' shapes as   *)
(* the transformers in src/src/proxy/transforms read and write them, and   *)
(* do not use the transformers.                                            *)
(***************************************************************************)
EXTENDS Canonical

Chat == {"openai", "ollama", "plain"}    \* `plain`: a custom transformer's

(***************************************************************************)
(* Writing: an answer of blocks, then the results of its calls.            *)
(***************************************************************************)
Renamed(blocks, from, to) ==
  Each(LAMBDA b : IF b.type = from THEN [b EXCEPT !.type = to] ELSE b, blocks)

WriteAnswer(format, blocks) ==
  CASE format \in Chat ->
         Wire("assistant",
              IF OfTypes(blocks, {"text"}) = <<>> THEN Absent ELSE Str(Words(blocks)),
              Renamed(OfTypes(blocks, {"tool_use"}), "tool_use", "function"), NoId)
    [] format = "anthropic" -> Plain("assistant", Arr(blocks))
    [] format = "gemini" ->
         Plain("model", Arr(Each(LAMBDA b : IF b.type = "tool_use"
                                            THEN Block("functionCall", b.text, NoId, b.name)
                                            ELSE b, blocks)))

CallsOf(m) == m.calls \o OfTypes(m.content.blocks, {"tool_use", "functionCall"})

WriteResults(format, calls, results) ==
  CASE format \in Chat ->
         [i \in DOMAIN calls |-> Wire("tool", Str(results[i]), <<>>, calls[i].id)]
    [] format = "anthropic" ->
         <<Plain("user", Arr([i \in DOMAIN calls |-> ToolResult(calls[i].id, results[i])]))>>
    [] format = "gemini" ->
         <<Plain("user", Arr([i \in DOMAIN calls |->
             Block("functionResponse", Quote(results[i]), Bare(calls[i].name), "")]))>>

(***************************************************************************)
(* Reading what was said: words and pictures by whom, and calls.           *)
(***************************************************************************)
Piece(by, kind, words) == [by |-> by, kind |-> kind, words |-> words]
PerFragment(by, kind, t) == [i \in DOMAIN t |-> Piece(by, kind, <<t[i]>>)]

Pieces(by, b) ==
  CASE b.type = "text" -> PerFragment(by, "text", b.text)
    [] b.type \in {"image", "image_url", "inlineData"} -> <<Piece(by, "picture", b.text)>>
    [] b.type \in {"tool_use", "function", "functionCall"} ->
         (IF b.name = "" THEN <<>> ELSE <<Piece(by, "call", <<b.name>>)>>)
         \o PerFragment(by, "arguments", b.text)
    [] b.type = "thinking" -> PerFragment(by, "thought", b.text)
    [] OTHER -> <<>>

AllPieces(by, blocks) == FlatMap(LAMBDA b : Pieces(by, b), blocks)

Spoken(by, blocks) ==
  FlatMap(LAMBDA b : IF b.type = "thinking" THEN <<>> ELSE Pieces(by, b), blocks)

Speaker(role) == CASE role \in {"assistant", "model"} -> "assistant"
                   [] role = "user"                   -> "user"
                   [] OTHER                           -> "nobody"

TalkOf(m) ==
  IF Speaker(m.role) = "nobody" THEN <<>>
  ELSE Spoken(Speaker(m.role), m.content.blocks \o m.calls)

Talk(messages) == FlatMap(TalkOf, messages)

SystemRead(format, body) ==
  IF format \in Chat
  THEN Words(FlatMap(LAMBDA m : m.content.blocks,
                     SelectSeq(body.messages, LAMBDA m : m.role = "system")))
  ELSE body.system

(***************************************************************************)
(* Reading calls and results: in a message in turn, what is called and     *)
(* what is answered; the pairs <<place of the call, result>>.              *)
(***************************************************************************)
Asked(id, name) == [kind |-> "call", key |-> id, name |-> name, words |-> <<>>]
Answered(key, words) == [kind |-> "result", key |-> key, name |-> "", words |-> words]

ExchangeOf(m) ==
  Each(LAMBDA c : Asked(c.id, c.name), CallsOf(m))
  \o Each(LAMBDA b : Answered(b.id, b.text),
          OfTypes(m.content.blocks, {"tool_result", "functionResponse"}))
  \o (IF m.role = "tool" /\ m.content.kind = "string"
      THEN <<Answered(m.answers, Words(m.content.blocks))>> ELSE <<>>)

Exchange(messages) == FlatMap(ExchangeOf, messages)

CallsAmong(entries) == SelectSeq(entries, LAMBDA e : e.kind = "call")

(* By identifier a result answers the last such call; by name, where calls *)
(* have no identifiers, the calls of a function are answered in turn.      *)
Answers(format, entries, at) ==
  LET calls  == CallsAmong(SubSeq(entries, 1, at))
      result == entries[at]
      byId   == {i \in DOMAIN calls : calls[i].key = result.key}
      byName == {i \in DOMAIN calls : Bare(calls[i].name) = result.key}
      before == Cardinality({k \in 1 .. at - 1 :
                               entries[k].kind = "result" /\ entries[k].key = result.key})
  IN  IF format # "gemini"
      THEN {i \in byId : \A j \in byId : j <= i}
      ELSE {i \in byName : Cardinality({j \in byName : j < i}) = before}

(* Braces of JSON around a result say nothing.                             *)
Bared(t) == IF IsJson(t) THEN SubSeq(t, 2, Len(t) - 1) ELSE t

(* Every result in turn, with the place of the call it answers; 0 if it    *)
(* answers none.                                                           *)
Pairs(format, messages) ==
  LET entries == Exchange(messages)
      Place(k) == LET called == Answers(format, entries, k)
                  IN  IF called = {} THEN 0 ELSE CHOOSE i \in called : TRUE
      Read(k)  == IF entries[k].kind = "result" THEN <<<<Place(k), Bared(entries[k].words)>>>> ELSE <<>>
  IN  FlatMap(Read, [k \in DOMAIN entries |-> k])

(***************************************************************************)
(* Streams: how a provider cuts an answer into chunks, and what a client   *)
(* makes of the chunks it gets.  A provider may send each part in a chunk  *)
(* of its own, and the end in an empty one.                                *)
(***************************************************************************)
Fragments(kind, b) ==
  [i \in DOMAIN b.text |-> Chunk(kind, <<[b EXCEPT !.text = <<b.text[i]>>, !.id = NoId, !.name = ""]>>)]

Named(kind, b) == Chunk(kind, <<[b EXCEPT !.text = <<>>]>>)

StreamBlock(format, b) ==
  CASE b.type = "text" /\ format # "anthropic" -> Fragments("delta", b)
    [] b.type = "text" /\ format = "anthropic" -> Fragments("text_delta", b)
    [] b.type = "thinking" -> Fragments("thinking_delta", b)
    [] b.type = "tool_use" /\ format = "anthropic" ->
         <<Named("tool_use_start", b)>> \o Fragments("input_json_delta", b)
    [] b.type = "tool_use" /\ format \in {"openai", "plain"} ->
         LET f == [b EXCEPT !.type = "function"]
         IN  <<Named("delta", f)>> \o Fragments("delta", f)
    [] b.type = "tool_use" /\ format = "ollama" ->
         <<Chunk("delta", <<[b EXCEPT !.type = "function"]>>)>>
    [] b.type = "tool_use" /\ format = "gemini" ->
         <<Chunk("delta", <<Block("functionCall", b.text, NoId, b.name)>>)>>

(* Ollama tells the tokens in the chunk that ends the stream.              *)
StreamEnd(format) ==
  CASE format = "anthropic" -> <<Chunk("message_delta", <<>>), Chunk("message_stop", <<>>)>>
    [] format = "gemini"    -> <<Chunk("usage", <<>>), Chunk("finish", <<>>)>>
    [] format = "ollama"    -> <<Chunk("counts", <<>>)>>
    [] OTHER                -> <<Chunk("finish_reason", <<>>), Chunk("usage", <<>>), Chunk("[DONE]", <<>>)>>

StreamAnswer(format, blocks) ==
  FlatMap(LAMBDA b : StreamBlock(format, b), blocks) \o StreamEnd(format)

(* Or whole blocks, several to a chunk: block i goes with the next if i is *)
(* in `joined`, the last of a Gemini answer with the news why it ended.    *)
WholePart(format, b) ==
  CASE b.type # "tool_use" -> b
    [] b.type = "tool_use" /\ format = "gemini" -> Block("functionCall", b.text, NoId, b.name)
    [] b.type = "tool_use" /\ format # "gemini" -> [b EXCEPT !.type = "function"]

Bundled(format, blocks, joined) ==
  LET places == [i \in DOMAIN blocks |-> i]
      Group(i) == FlatMap(LAMBDA j : IF i <= j /\ i .. (j - 1) \subseteq joined
                                     THEN <<WholePart(format, blocks[j])>> ELSE <<>>, places)
      Opened(i) == IF i - 1 \in joined THEN <<>>
                   ELSE <<Chunk(IF i .. Len(blocks) \subseteq joined THEN "finish" ELSE "delta",
                                Group(i))>>
  IN  FlatMap(Opened, places) \o (IF Len(blocks) \in joined THEN <<>> ELSE StreamEnd(format))

(* Or, where chunks say which call they belong to, the arguments of all    *)
(* calls in turn, a fragment of each.                                      *)
Woven(format, blocks) ==
  LET calls  == Renamed(OfTypes(blocks, {"tool_use"}), "tool_use", "function")
      all    == FlatMap(LAMBDA b : b.text, calls)
      Nth(n) == FlatMap(LAMBDA b : IF n \in DOMAIN b.text THEN <<Fragments("delta", b)[n]>> ELSE <<>>,
                        calls)
  IN  FlatMap(LAMBDA b : Fragments("delta", b), OfTypes(blocks, {"text"}))
      \o Each(LAMBDA b : Named("delta", b), calls)
      \o FlatMap(Nth, [n \in DOMAIN all |-> n])
      \o StreamEnd(format)

Streams(format, blocks, style) ==
  CASE style = "apart" -> {StreamAnswer(format, blocks)}
    [] style = "bundled" /\ format \in {"openai", "plain", "gemini"} ->
         {Bundled(format, blocks, joined) :
            joined \in SUBSET (1 .. (IF format = "gemini" THEN Len(blocks) ELSE Len(blocks) - 1))}
    [] style = "woven" /\ format \in {"openai", "plain"}
       /\ Len(OfTypes(blocks, {"tool_use"})) >= 2 -> {Woven(format, blocks)}
    [] OTHER -> {}

PartsOf(chunks) == FlatMap(LAMBDA c : c.parts, chunks)

HeardIn(chunks) == AllPieces("assistant", PartsOf(chunks))

(* The blocks a client assembles: a part without a name goes on where the  *)
(* last one stopped.                                                       *)
AssemblePart(blocks, p) ==
  LET call == p.type \in {"tool_use", "function", "functionCall"}
      b    == [p EXCEPT !.type = IF call THEN "tool_use" ELSE "text"]
  IN  IF blocks # <<>> /\ Last(blocks).type = b.type /\ p.name = ""
      THEN [blocks EXCEPT ![Len(blocks)].text = @ \o p.text]
      ELSE Append(blocks, b)

Assembled(chunks) == FoldLeft(AssemblePart, <<>>, PartsOf(chunks))
=============================================================================
