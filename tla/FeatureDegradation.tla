------------------------- MODULE FeatureDegradation -------------------------
(***************************************************************************)
(* What happens to a request for a provider without some feature: in the   *)
(* middleware (src/src/middleware/transform-format.ts), and in the wrapper *)
(* around every provider's transformer (src/src/proxy/feature-             *)
(* degradation.ts).  A request is the record of system, messages, tools    *)
(* and extras that the transformers read and write.                        *)
(***************************************************************************)
EXTENDS Canonical

Without(messages, type) ==
  Each(LAMBDA m : IF m.content.kind = "string" THEN m
                  ELSE [m EXCEPT !.content.blocks = SelectSeq(@, LAMBDA b : b.type # type)],
       messages)

Thinks(messages) ==
  \E i \in DOMAIN messages : OfTypes(messages[i].content.blocks, {"thinking"}) # <<>>

(* The tools, described in words.                                          *)
Manual == <<"manual">>
ThinkAloud == <<"step by step">>

(* transformFormat: the middleware, for the primary provider's format.     *)
TransformFormat(req, caps) ==
  LET untold   == req.tools /\ ~caps.tools
      seen     == IF caps.vision THEN req.messages ELSE Without(req.messages, "image")
      thought  == IF caps.thinking THEN seen ELSE Without(seen, "thinking")
  IN  [req EXCEPT !.system   = IF untold THEN Joined(@, Manual) ELSE @,
                  !.tools    = @ /\ caps.tools,
                  !.messages = thought]

(* degradeFeatures: a system prompt the provider cannot have is said by    *)
(* the user, as it was before the other steps added to it.                 *)
Degrade(req, caps) ==
  LET tooled  == IF req.tools /\ ~caps.tools
                 THEN [req EXCEPT !.system = Joined(@, Manual), !.tools = FALSE] ELSE req
      seen    == IF caps.vision THEN tooled
                 ELSE [tooled EXCEPT !.messages = Without(@, "image")]
      thought == IF caps.thinking \/ ~Thinks(req.messages) THEN seen
                 ELSE [seen EXCEPT !.system   = Joined(@, ThinkAloud),
                                   !.messages = Without(@, "thinking")]
  IN  IF req.system = <<>> \/ caps.system THEN thought
      ELSE [thought EXCEPT !.messages = <<Message("user", Str(req.system))>> \o @,
                           !.system   = <<>>]
=============================================================================
