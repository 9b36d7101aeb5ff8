------------------------- MODULE OpenAITransformer -------------------------
(***************************************************************************)
(* src/src/proxy/transforms/openai.ts.  A body is a record of the          *)
(* messages, the tools flag and the field `system`, which this format does *)
(* not have: it travels among the extras.                                  *)
(***************************************************************************)
EXTENDS Canonical

OpenAICapabilities ==
  [tools |-> TRUE, vision |-> TRUE, thinking |-> FALSE, system |-> TRUE]

OpenAIPartToBlock(p) ==
  CASE p.type = "text"      -> Text(p.text)
    [] p.type = "image_url" -> Picture(p.text)
    [] OTHER                -> Text(Quote(p.text))

(* One turn of the loop over the messages: the content, then the calls,    *)
(* merged into the last message read, then the result.                     *)
OpenAIReadMessage(read, m) ==
  LET said   == CASE m.content.kind = "string" -> Append(read, Message(m.role, m.content))
                  [] m.content.kind = "array"  ->
                       Append(read, Message(m.role, Arr(Each(OpenAIPartToBlock, m.content.blocks))))
                  [] OTHER                     -> read
      merges == m.role = "assistant" /\ m.calls # <<>>
                /\ said # <<>> /\ Last(said).role = "assistant"
      calls  == Each(LAMBDA c : ToolUse(c.id, c.name, c.text), m.calls)
      called == IF merges THEN [said EXCEPT ![Len(said)].content = Arr(@.blocks \o calls)]
                          ELSE said
  IN  IF m.role = "tool"
      THEN Append(called, Message("tool", Arr(<<ToolResult(m.answers, Words(m.content.blocks))>>)))
      ELSE called

OpenAIToCanonical(body) ==
  LET system == SelectSeq(body.messages, LAMBDA m : m.role = "system")
      others == SelectSeq(body.messages, LAMBDA m : m.role # "system")
  IN  [system   |-> FoldLeft(LAMBDA s, m : Joined(s, Words(m.content.blocks)), <<>>, system),
       messages |-> FoldLeft(OpenAIReadMessage, <<>>, others),
       tools    |-> body.tools,
       extras   |-> body.system]

(* A message of blocks becomes one entry: its text and pictures, its       *)
(* calls, and an empty string when it has neither.                         *)
OpenAIEntryFirstText(m) ==
  LET texts == OfTypes(m.content.blocks, {"text"})
  IN  Wire(m.role, IF texts = <<>> THEN Absent ELSE Str(texts[1].text),
           Each(LAMBDA b : Block("function", b.text, b.id, b.name),
                OfTypes(m.content.blocks, {"tool_use"})), NoId)

OpenAIEntry(m) ==
  LET calls == Each(LAMBDA b : Block("function", b.text, b.id, b.name),
                    OfTypes(m.content.blocks, {"tool_use"}))
      parts == Each(LAMBDA b : IF b.type = "image" THEN [b EXCEPT !.type = "image_url"] ELSE b,
                    OfTypes(m.content.blocks, {"text", "image"}))
      content == CASE parts = <<>> /\ calls = <<>> -> Str(<<>>)
                   [] parts = <<>> /\ calls # <<>> -> Absent
                   [] Len(parts) = 1 /\ parts[1].type = "text" -> Str(parts[1].text)
                   [] OTHER -> Arr(parts)
  IN  Wire(m.role, content, calls, NoId)

OpenAIWriteMessageNoId(m) ==
  Each(LAMBDA b : Wire("tool", Str(b.text), <<>>, NoId), OfTypes(m.content.blocks, {"tool_result"}))
  \o (IF m.role = "tool" THEN <<>> ELSE <<OpenAIEntry(m)>>)

OpenAIWriteMessage(m) ==
  CASE m.role = "system" ->
         <<Plain("system", IF m.content.kind = "string" THEN m.content ELSE Str(<<>>))>>
    [] m.role = "tool" /\ m.content.kind = "array" ->
         Each(LAMBDA b : Wire("tool", Str(b.text), <<>>, b.id),
              OfTypes(m.content.blocks, {"tool_result"}))
    [] m.role # "system" /\ m.content.kind = "string" -> <<Plain(m.role, m.content)>>
    [] OTHER -> <<OpenAIEntry(m)>>

OpenAIFromCanonical(req) ==
  LET system == IF req.system = <<>> THEN <<>> ELSE <<Plain("system", Str(req.system))>>
  IN  [messages |-> system \o FlatMap(OpenAIWriteMessage, req.messages),
       tools    |-> req.tools,
       system   |-> req.extras]

(* An answer on the wire: its message and why the provider stopped.        *)
OpenAIStops == [stop |-> "end", length |-> "max_tokens", tool_calls |-> "tool_use",
                content_filter |-> "content_filter"]
OpenAIStopsBack == [end |-> "stop", max_tokens |-> "length", tool_use |-> "tool_calls",
                    content_filter |-> "content_filter"]

OpenAIResponseToCanonical(r) ==
  LET said == Words(r.message.content.blocks)
  IN  [content |-> (IF said = <<>> THEN <<>> ELSE <<Text(said)>>)
                   \o Each(LAMBDA c : ToolUse(c.id, c.name, c.text), r.message.calls),
       stop    |-> Lookup(OpenAIStops, r.stop, "unknown")]

(* The message chat formats build from an answer, shared with Ollama.      *)
ChatAnswer(res) ==
  Wire("assistant",
       IF OfTypes(res.content, {"text"}) = <<>> THEN Absent ELSE Str(Words(res.content)),
       Each(LAMBDA b : Block("function", b.text, b.id, b.name), OfTypes(res.content, {"tool_use"})),
       NoId)

OpenAIResponseFromCanonical(res) ==
  [message |-> ChatAnswer(res), stop |-> Lookup(OpenAIStopsBack, res.stop, "stop")]

(* JSON.parse of the arguments of every call.                              *)
ArgumentsParse(r) == \A i \in DOMAIN r.message.calls : IsJson(r.message.calls[i].text)

(* A delta with text and calls yields its text alone, one with several     *)
(* calls the first.                                                        *)
OpenAIDeltaNamedOnly(c) ==
  LET texts == Words(c.parts)
      calls == SelectSeq(c.parts, LAMBDA b : b.type = "function" /\ b.name # "")
  IN  IF texts # <<>> THEN Delta(texts) ELSE IF calls # <<>> THEN CallDelta(calls[1]) ELSE NoChunk

OpenAIDeltaCallsFirst(c) ==
  LET calls == OfTypes(c.parts, {"function"})
  IN  IF calls # <<>> THEN CallDelta(calls[1])
      ELSE IF Words(c.parts) # <<>> THEN Delta(Words(c.parts)) ELSE NoChunk

OpenAIDelta(c) ==
  LET texts == Words(c.parts)
      calls == OfTypes(c.parts, {"function"})
  IN  CASE texts # <<>>                  -> Delta(texts)
        [] texts = <<>> /\ calls # <<>>  -> CallDelta(calls[1])
        [] OTHER                         -> NoChunk

OpenAIChunkToCanonical(c) ==
  CASE c.kind = "[DONE]" -> Chunk("done", <<>>)
    [] c.kind = "usage"  -> Chunk("usage", <<>>)
    [] c.kind = "delta"  -> OpenAIDelta(c)
    [] OTHER             -> NoChunk

OpenAIChunkFromCanonical(c) ==
  CASE c.kind = "done"           -> Chunk("[DONE]", <<>>)
    [] c.kind = "content_delta"  -> Chunk("delta", c.parts)
    [] c.kind = "tool_use_delta" ->
         Chunk("delta", Each(LAMBDA b : [b EXCEPT !.type = "function"], c.parts))
    [] c.kind = "usage"          -> Chunk("usage", <<>>)
    [] OTHER                     -> NoChunk
=============================================================================
