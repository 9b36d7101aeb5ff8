------------------------- MODULE GeminiTransformer -------------------------
(***************************************************************************)
(* src/src/proxy/transforms/gemini.ts: contents of parts, where a call has *)
(* no identifier and its result goes by the function's name.               *)
(***************************************************************************)
EXTENDS Canonical

GeminiCapabilities ==
  [tools |-> TRUE, vision |-> TRUE, thinking |-> FALSE, system |-> TRUE]

(* The identifier made for the call at a position of its message.          *)
GeminiId(name, index) == <<name, index - 1>>

GeminiPartToBlock(p, index) ==
  CASE p.type = "text"             -> Text(p.text)
    [] p.type = "inlineData"       -> Picture(p.text)
    [] p.type = "functionCall"     -> ToolUse(GeminiId(p.name, index), p.name, p.text)
    [] p.type = "functionResponse" -> ToolResult(p.id, p.text)
    [] OTHER                       -> Text(Quote(p.text))

GeminiReadContent(m) ==
  LET parts == m.content.blocks
  IN  Message(IF m.role = "model" THEN "assistant" ELSE m.role,
              IF Len(parts) = 1 /\ parts[1].type = "text" THEN Str(parts[1].text)
              ELSE Arr([i \in DOMAIN parts |-> GeminiPartToBlock(parts[i], i)]))

GeminiToCanonical(body) ==
  [system   |-> body.system,
   messages |-> Each(GeminiReadContent, body.messages),
   tools    |-> body.tools,
   extras   |-> <<>>]

(* A result that is not JSON is wrapped; the function's name is whatever   *)
(* the result goes by.                                                     *)
GeminiBlockToPart(b) ==
  CASE b.type = "text"        -> b
    [] b.type = "image"       -> [b EXCEPT !.type = "inlineData"]
    [] b.type = "tool_use"    -> Block("functionCall", b.text, NoId, b.name)
    [] b.type = "tool_result" ->
         Block("functionResponse", IF IsJson(b.text) THEN b.text ELSE Quote(b.text), b.id, "")

GeminiWriteContent(m) ==
  LET role  == IF m.role = "assistant" THEN "model" ELSE m.role
      parts == Each(GeminiBlockToPart,
                    OfTypes(m.content.blocks, {"text", "image", "tool_use", "tool_result"}))
  IN  IF m.content.kind = "string" THEN Plain(role, Arr(m.content.blocks))
      ELSE Plain(IF m.role = "tool" THEN "user" ELSE role, Arr(parts))

GeminiFromCanonical(req) ==
  [messages |-> Each(GeminiWriteContent,
                     SelectSeq(req.messages, LAMBDA m : m.role # "system")),
   tools    |-> req.tools,
   system   |-> req.system]

(* Why the model stopped; OTHERS is the reason OTHER, a reserved word here. *)
GeminiStops == [STOP |-> "end", MAX_TOKENS |-> "max_tokens", SAFETY |-> "content_filter",
                RECITATION |-> "content_filter", OTHERS |-> "unknown"]
GeminiStopsBack == [end |-> "STOP", max_tokens |-> "MAX_TOKENS", content_filter |-> "SAFETY",
                    unknown |-> "OTHERS"]

GeminiResponseToCanonical(r) ==
  LET parts == r.message.content.blocks
  IN  [content |-> [i \in DOMAIN parts |->
                      IF parts[i].type \in {"text", "functionCall"}
                      THEN GeminiPartToBlock(parts[i], i) ELSE Text(Quote(parts[i].text))],
       stop    |-> Lookup(GeminiStops, r.stop, "unknown")]

GeminiResponseFromCanonical(res) ==
  [message |-> Plain("model", Arr(Each(LAMBDA b :
                 IF b.type \in {"text", "tool_use"} THEN GeminiBlockToPart(b)
                 ELSE Text(Quote(b.text)), res.content))),
   stop    |-> Lookup(GeminiStopsBack, res.stop, "STOP")]

(* A chunk that says why the model stopped is the end, whatever else it    *)
(* holds; of another one the first text or call counts.                    *)
GeminiChunkToCanonical(c) ==
  LET known == {i \in DOMAIN c.parts : c.parts[i].type \in {"text", "functionCall"}}
      first == CHOOSE i \in known : \A j \in known : i <= j
  IN  CASE c.kind = "usage"  -> Chunk("usage", <<>>)
        [] c.kind = "finish" -> Chunk("done", <<>>)
        [] c.kind = "delta" /\ known # {} ->
             LET b == GeminiPartToBlock(c.parts[first], first)
             IN  IF b.type = "text" THEN Delta(b.text) ELSE CallDelta(b)
        [] OTHER             -> NoChunk

(* JSON.parse of a fragment of the arguments fails, and the stream with    *)
(* it.                                                                     *)
GeminiChunkThrows(c) ==
  c.kind = "tool_use_delta" /\ c.parts[1].text # <<>> /\ ~IsJson(c.parts[1].text)

GeminiChunkFromCanonical(c) ==
  LET part == c.parts[1]
  IN  CASE c.kind = "done"           -> Chunk("finish", <<>>)
        [] c.kind = "content_delta"  -> Chunk("delta", c.parts)
        [] c.kind = "tool_use_delta" ->
             Chunk("delta", <<Block("functionCall",
                                    IF part.text = <<>> THEN Quote(<<>>) ELSE part.text,
                                    NoId, part.name)>>)
        [] c.kind = "usage"          -> Chunk("usage", <<>>)
        [] OTHER                     -> NoChunk
=============================================================================
