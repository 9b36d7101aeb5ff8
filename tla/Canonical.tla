----------------------------- MODULE Canonical -----------------------------
(***************************************************************************)
(* The provider-agnostic form of a conversation (src/src/core/types.ts)    *)
(* and what the four transformers share.                                   *)
(*                                                                         *)
(* A text is a sequence of fragments, so that joining and streaming are    *)
(* concatenation.  Every block, canonical or on the wire, has one shape;   *)
(* its text is what was said, the data of a picture, the arguments of a    *)
(* call or what a call returned.                                           *)
(***************************************************************************)
EXTENDS Integers, SequencesExt

Block(type, text, id, name) ==
  [type |-> type, text |-> text, id |-> id, name |-> name]

(* Identifiers: what a provider made up (a name and a number), the bare    *)
(* name of a tool, or nothing.                                             *)
NoId == <<>>
Bare(name) == <<name>>

Text(t) == Block("text", t, NoId, "")
Picture(data) == Block("image", data, NoId, "")
ToolUse(id, name, input) == Block("tool_use", input, id, name)
ToolResult(id, t) == Block("tool_result", t, id, "")
Thinking(t) == Block("thinking", t, NoId, "")

(* The content of a message: a string, an array of blocks, or no field.    *)
Str(t) == [kind |-> "string", blocks |-> <<Text(t)>>]
Arr(blocks) == [kind |-> "array", blocks |-> blocks]
Absent == [kind |-> "absent", blocks |-> <<>>]

Message(role, content) == [role |-> role, content |-> content]

(* A message on the wire may also carry calls and the call it answers,     *)
(* where the format keeps those out of the content.                        *)
Wire(role, content, calls, answers) ==
  [role |-> role, content |-> content, calls |-> calls, answers |-> answers]
Plain(role, content) == Wire(role, content, <<>>, NoId)

Each(Op(_), s) == [i \in DOMAIN s |-> Op(s[i])]

FlatMap(Op(_), s) == FlattenSeq(Each(Op, s))

OfTypes(blocks, types) ==
  FlatMap(LAMBDA b : IF b.type \in types THEN <<b>> ELSE <<>>, blocks)

(* The texts of some blocks, joined.                                       *)
Words(blocks) == FlatMap(LAMBDA b : b.text, OfTypes(blocks, {"text"}))

(* JSON.stringify of what has the words t, and whether JSON.parse takes t. *)
Quote(t) == <<"{">> \o t \o <<"}">>
IsJson(t) == Len(t) >= 2 /\ t[1] = "{" /\ t[Len(t)] = "}"

(* Paragraphs joined by a line break.                                      *)
Joined(s, t) == IF s = <<>> THEN t ELSE s \o <<"nl">> \o t

Lookup(table, key, default) == IF key \in DOMAIN table THEN table[key] ELSE default

(* Chunks of a stream; the canonical ones have one part or none.           *)
Chunk(kind, parts) == [kind |-> kind, parts |-> parts]
NoChunk == Chunk("null", <<>>)
Delta(t) == Chunk("content_delta", <<Text(t)>>)
CallDelta(b) == Chunk("tool_use_delta", <<ToolUse(b.id, b.name, b.text)>>)
=============================================================================
