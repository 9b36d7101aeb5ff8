------------------------- MODULE OllamaTransformer -------------------------
(***************************************************************************)
(* src/src/proxy/transforms/ollama.ts: the messages of OpenAI, read and    *)
(* written by a copy of the same code; answers that are done or not.       *)
(***************************************************************************)
EXTENDS OpenAITransformer

OllamaCapabilities ==
  [tools |-> TRUE, vision |-> TRUE, thinking |-> FALSE, system |-> TRUE]

OllamaToCanonical(body) == OpenAIToCanonical(body)

OllamaFromCanonical(req) == OpenAIFromCanonical(req)

OllamaResponseToCanonical(r) ==
  [content |-> OpenAIResponseToCanonical(r).content,
   stop    |-> IF r.stop = "done" THEN "end" ELSE "unknown"]

OllamaResponseFromCanonical(res) ==
  [message |-> ChatAnswer(res), stop |-> IF res.stop = "end" THEN "done" ELSE "undone"]

(* The last chunk counts the tokens, if it says anything of them, and is   *)
(* then not the end of the stream.                                         *)
OllamaChunkToCanonical(c) ==
  CASE c.kind = "counts" -> Chunk("usage", <<>>)
    [] c.kind = "done"   -> Chunk("done", <<>>)
    [] OTHER             -> OpenAIDelta(c)

OllamaChunkFromCanonical(c) ==
  CASE c.kind = "done"           -> Chunk("done", <<>>)
    [] c.kind \in {"content_delta", "tool_use_delta"} -> OpenAIChunkFromCanonical(c)
    [] c.kind = "usage"          -> Chunk("counts", <<>>)
    [] OTHER                     -> NoChunk
=============================================================================
