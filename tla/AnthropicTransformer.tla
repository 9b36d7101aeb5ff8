------------------------ MODULE AnthropicTransformer ------------------------
(***************************************************************************)
(* src/src/proxy/transforms/anthropic.ts: the system prompt beside the     *)
(* messages, calls and their results as blocks of the content.             *)
(***************************************************************************)
EXTENDS Canonical

AnthropicCapabilities ==
  [tools |-> TRUE, vision |-> TRUE, thinking |-> TRUE, system |-> TRUE]

AnthropicBlockToCanonical(b) ==
  IF b.type \in {"text", "image", "tool_use", "tool_result", "thinking"}
  THEN b ELSE Text(Quote(b.text))

AnthropicToCanonical(body) ==
  [system   |-> body.system,
   messages |-> Each(LAMBDA m : Message(m.role,
                       IF m.content.kind = "string" THEN m.content
                       ELSE Arr(Each(AnthropicBlockToCanonical, m.content.blocks))),
                     SelectSeq(body.messages, LAMBDA m : m.content.kind # "absent")),
   tools    |-> body.tools,
   extras   |-> <<>>]

(* Messages of the system are left out, results come from the user.        *)
AnthropicWriteMessage(m) ==
  Plain(IF m.role = "tool" THEN "user" ELSE m.role, m.content)

(* A `system` among the extras is passed on when there is no system        *)
(* prompt.                                                                 *)
AnthropicFromCanonical(req) ==
  [messages |-> Each(AnthropicWriteMessage,
                     SelectSeq(req.messages, LAMBDA m : m.role # "system")),
   tools    |-> req.tools,
   system   |-> IF req.system # <<>> THEN req.system ELSE req.extras]

AnthropicStops == [end_turn |-> "end", max_tokens |-> "max_tokens", tool_use |-> "tool_use",
                   stop_sequence |-> "stop_sequence"]
AnthropicStopsBack == [end |-> "end_turn", max_tokens |-> "max_tokens", tool_use |-> "tool_use",
                       stop_sequence |-> "stop_sequence"]

AnthropicAnswerBlock(b) ==
  IF b.type \in {"text", "tool_use", "thinking"} THEN b ELSE Text(Quote(b.text))

AnthropicResponseToCanonical(r) ==
  [content |-> Each(AnthropicAnswerBlock, r.message.content.blocks),
   stop    |-> Lookup(AnthropicStops, r.stop, "unknown")]

AnthropicResponseFromCanonical(res) ==
  [message |-> Plain("assistant", Arr(Each(AnthropicAnswerBlock, res.content))),
   stop    |-> Lookup(AnthropicStopsBack, res.stop, "end_turn")]

(* Events of a stream, named by their delta or block where they have one.  *)
AnthropicChunkToCanonical(c) ==
  CASE c.kind \in {"text_delta", "thinking_delta"} -> Delta(c.parts[1].text)
    [] c.kind = "input_json_delta" -> CallDelta(Block("", c.parts[1].text, NoId, ""))
    [] c.kind = "tool_use_start"   -> CallDelta(Block("", <<>>, c.parts[1].id, c.parts[1].name))
    [] c.kind = "message_delta"    -> Chunk("usage", <<>>)
    [] c.kind = "message_stop"     -> Chunk("done", <<>>)
    [] OTHER                       -> NoChunk

(* A delta that names a tool starts its block; arguments it carries as     *)
(* well are left out.                                                      *)
AnthropicChunkFromCanonical(c) ==
  LET part == c.parts[1]
  IN  CASE c.kind = "done"          -> Chunk("message_stop", <<>>)
        [] c.kind = "content_delta" -> Chunk("text_delta", c.parts)
        [] c.kind = "tool_use_delta" /\ part.name # "" ->
             Chunk("tool_use_start", <<ToolUse(part.id, part.name, <<>>)>>)
        [] c.kind = "tool_use_delta" /\ part.name = "" -> Chunk("input_json_delta", c.parts)
        [] OTHER                    -> NoChunk
=============================================================================
