--------------------------- MODULE MCConversation ---------------------------
(* Conversation for TLC: every pair of a client's and a provider's format, *)
(* histories with and without an earlier exchange, answers of words, calls *)
(* and thoughts, whole, cut off and broken.                                *)
EXTENDS Conversation

MCClients == {<<"openai", "http">>, <<"anthropic", "http">>, <<"anthropic", "library">>,
              <<"gemini", "library">>, <<"ollama", "library">>}

Args == Quote(<<"x">>)

(* A question, one with a picture, and an exchange already made.           *)
Ask(format) ==
  Plain("user", IF format = "gemini" THEN Arr(<<Text(<<"hi">>)>>) ELSE Str(<<"hi">>))
Show(format) ==
  Plain("user", Arr(<<Text(<<"see">>),
    [Picture(<<"cat">>) EXCEPT !.type = CASE format \in Chat -> "image_url"
                                          [] format = "gemini" -> "inlineData"
                                          [] OTHER -> "image"]>>))
Earlier(format, blocks) ==
  LET m == WriteAnswer(format, blocks)
  IN  <<Ask(format), m>> \o WriteResults(format, CallsOf(m), <<<<"old">>, <<"older">>>>)

Told == Text(<<"let", "me">>)
Old(id) == ToolUse(<<"call", id>>, "f", Args)

MCOpenings ==
  [format \in {"openai", "ollama", "anthropic", "gemini"} |->
     {<<Ask(format)>>, <<Show(format)>>,
      Earlier(format, <<Told, Old(1), Old(2)>>),
      Earlier(format, (IF format = "anthropic" THEN <<Thinking(<<"hm">>)>> ELSE <<Told>>)
                      \o <<Old(1)>>)}]

(* Answers.                                                                *)
Whole(blocks) == [blocks |-> blocks, cut |-> FALSE]
Cut(blocks)   == [blocks |-> blocks, cut |-> TRUE]
Call(name)    == ToolUse(NoId, name, Args)

MCSaidBy(provider) ==
  {Whole(<<Text(<<"yes", "sir">>)>>), Cut(<<Text(<<"yes">>)>>)}
  \cup (IF provider = "plain" THEN {}
        ELSE {Whole(<<Call("f")>>),
              Whole(<<Text(<<"so">>), Call("f"), Call("f")>>)})
  \cup (IF provider = "anthropic"
        THEN {Whole(<<Thinking(<<"hm">>), Text(<<"so">>), Call("g")>>)} ELSE {})
  \cup (IF provider = "openai" THEN {Cut(<<ToolUse(NoId, "f", <<"{", "x">>)>>)} ELSE {})

MCSystems == {<<>>, <<"be", "kind">>}
MCRoutePrompts == {<<>>, <<"route">>}

MCResults == <<<<"r1">>, <<"r2">>, <<"r3">>, <<"r4">>, <<"r5">>, <<"r6">>>>
=============================================================================
