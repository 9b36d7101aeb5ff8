----------------------------- MODULE ToolRouter -----------------------------
(***************************************************************************)
(* The tool rounds of src/src/compose/tool-router.ts: the primary model is *)
(* called, the tools it asks for are run one after the other, and it is    *)
(* called again with the conversation so far, at most MaxRounds times.     *)
(***************************************************************************)
EXTENDS RequestContext

CONSTANTS
  Remote,      \* tools that another provider runs
  Local,       \* tools that a local function runs
  Unknown,     \* tools the model may ask for that nobody configured
  MaxRounds,
  MaxCalls     \* bound of the checks: tools asked for in one answer

Tool == Remote \cup Local \cup Unknown

ASSUME ToolAssumption ==
  /\ MaxRounds \in Nat \ {0}
  /\ MaxCalls \in Nat
  /\ Unknown \cap (Remote \cup Local) = {}
  /\ Remote \cap Local = {}

VARIABLES
  tools,          \* "off", "primary", "running", "answered" or "threw"
  round,
  doomed,         \* the pending call began with its signal aborted
  toolCalls,      \* the tools of the answer at hand
  toolResults,    \* results so far: the call each is for, and how it ended
  conversation    \* the rounds added to the messages

toolVars == <<tools, round, doomed, toolCalls, toolResults, conversation>>

Result == [to : Nat, error : BOOLEAN]
Round  == [calls : Seq(Tool), results : Seq(Result)]

ToolTypeOK ==
  /\ tools \in {"off", "primary", "running", "answered", "threw"}
  /\ round \in 0 .. MaxRounds
  /\ doomed \in BOOLEAN
  /\ toolCalls \in Seq(Tool)
  /\ toolResults \in Seq(Result)
  /\ conversation \in Seq(Round)

ToolInit ==
  /\ tools = "off"
  /\ round = 0
  /\ doomed = FALSE
  /\ toolCalls = <<>>
  /\ toolResults = <<>>
  /\ conversation = <<>>

(* The tool call at hand.                                                  *)
Current == Len(toolResults) + 1

-----------------------------------------------------------------------------
\* Mutant: one round too many.
EnterRoundOffByOne(talk) ==
  /\ IF round <= MaxRounds
       THEN tools' = "primary" /\ round' = round + 1
       ELSE tools' = "threw" /\ UNCHANGED round
  /\ doomed' = ~HasTime
  /\ toolCalls' = <<>>
  /\ toolResults' = <<>>
  /\ conversation' = talk

(* The head of the loop: the primary model is called, or the rounds are    *)
(* used up.  A call that begins with its signal aborted can only fail.     *)
EnterRound(talk) ==
  /\ IF round < MaxRounds
       THEN tools' = "primary" /\ round' = round + 1
       ELSE tools' = "threw" /\ UNCHANGED round
  /\ doomed' = ~HasTime
  /\ toolCalls' = <<>>
  /\ toolResults' = <<>>
  /\ conversation' = talk

(* It answers, or asks for tools.                                          *)
PrimaryAnswers(calls) ==
  /\ ~crashed
  /\ tools = "primary" /\ ~doomed
  /\ tools' = IF calls = <<>> THEN "answered" ELSE "running"
  /\ doomed' = ~HasTime
  /\ toolCalls' = calls
  /\ UNCHANGED <<context, round, toolResults, conversation>>

PrimaryFails ==
  /\ ~crashed
  /\ tools = "primary"
  /\ tools' = "threw"
  /\ UNCHANGED <<context, round, doomed, toolCalls, toolResults, conversation>>

(* A tool call has its result: the next one is looked at, or the round is  *)
(* over and added to the messages.                                         *)
Conclude(error) ==
  LET results == Append(toolResults, [to |-> Current, error |-> error])
  IN  IF Current < Len(toolCalls)
        THEN /\ toolResults' = results
             /\ doomed' = ~HasTime
             /\ UNCHANGED <<tools, round, toolCalls, conversation>>
        ELSE EnterRound(Append(conversation, [calls |-> toolCalls, results |-> results]))

Running(kind) == tools = "running" /\ toolCalls[Current] \in kind

StartTools == tools = "off" /\ EnterRound(<<>>)

\* Mutant: a tool nobody configured is passed over without a result.
PassOver ==
  /\ ~crashed
  /\ Running(Unknown)
  /\ IF Current < Len(toolCalls)
       THEN /\ toolCalls' = SubSeq(toolCalls, 1, Current - 1)
                             \o SubSeq(toolCalls, Current + 1, Len(toolCalls))
            /\ UNCHANGED <<tools, round, doomed, toolResults, conversation>>
       ELSE EnterRound(Append(conversation, [calls |-> toolCalls, results |-> toolResults]))
  /\ UNCHANGED context

NoHandler ==
  /\ ~crashed
  /\ Running(Unknown)
  /\ Conclude(TRUE)
  /\ UNCHANGED context

RemoteEnds(error) ==
  /\ ~crashed
  /\ Running(Remote)
  /\ doomed => error
  /\ Conclude(error)
  /\ UNCHANGED context

(* A local function ends when it likes, or its import fails.               *)
LocalEnds(error) ==
  /\ ~crashed
  /\ Running(Local)
  /\ Conclude(error)
  /\ UNCHANGED context

Asked == UNION {[1 .. n -> Tool] : n \in 0 .. MaxCalls}

ToolStep ==
  \/ \E calls \in Asked : PrimaryAnswers(calls)
  \/ PrimaryFails \/ NoHandler
  \/ \E error \in BOOLEAN : RemoteEnds(error) \/ LocalEnds(error)
=============================================================================
