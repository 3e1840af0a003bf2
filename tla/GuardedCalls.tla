---------------------------- MODULE GuardedCalls ----------------------------
(***************************************************************************)
(* One call through a wrapper of a model, an agent, a retriever, a memory, *)
(* a tool or a sandbox.  The wrapper puts the request before its gates,    *)
(* makes the call, and puts the reply before others.  A request or a reply *)
(* has pieces of several kinds; a gate reaches some kinds, and judges what *)
(* it reaches together or one by one.                                      *)
(*   asked    what the user asks, a command, a tool's arguments            *)
(*   context  what goes with it: other messages, a path, a second field    *)
(*   text, others    the first choice of a reply, and further ones         *)
(*   calls    the function calls of a reply; of Gemini's, which its        *)
(*            connector merges by candidate and name, the merged ones      *)
(*   documents, parts    what is retrieved: documents of their own, and    *)
(*            parts of one document under one id                           *)
(*   unread   what no gate of the wrapper reaches                          *)
(***************************************************************************)
EXTENDS Naturals, Sequences, FiniteSets

CONSTANT MaxPieces       \* bound: how many pieces a request or a reply has

ASSUME GuardedAssumption == MaxPieces \in Nat

(* by: "all" at once or "each" in turn.  no: a refused judgement ends the   *)
(* call, drops what was judged, blanks it and returns, replaces the whole   *)
(* reply and returns, or drops the documents of which no part is accepted.  *)
(* fails: a judgement that throws is a refusal, is thrown, or is passed by. *)
Judging(of, by, no, fails) == [of |-> of, by |-> by, no |-> no, fails |-> fails]

(* validateWithTimeoutSecure: a judgement that throws or is late is a       *)
(* refusal, and an answer that comes after it is dropped.                   *)
Timed(of, by, no) == Judging(of, by, no, "refuses")

Bare(of, by, no) == Judging(of, by, no, "throws")

(* Errors of a validator are reported and the content passes.               *)
Lenient(of, by, no) == Judging(of, by, no, "passes")

Asked == {"asked"}
Whole == {"asked", "context"}
First == {"text"}

(* raw: a reply that was refused, or any, is handed on beside the result.   *)
Wrapper(before, after, raw) == [before |-> before, after |-> after, raw |-> raw]
-----------------------------------------------------------------------------
OpenAIChat ==
  Wrapper(<<Timed(Whole, "all", "ends")>>, <<Timed(First, "all", "blanks")>>, "never")

OllamaChat ==
  Wrapper(<<Timed(Whole, "all", "ends")>>, <<Timed(First, "all", "blanks")>>, "refused")

OllamaGenerate ==
  Wrapper(<<Timed(Asked, "all", "ends")>>, <<Timed(First, "all", "blanks")>>, "never")

AnthropicMessages ==
  Wrapper(<<Timed(Whole, "all", "ends")>>, <<Timed(First, "all", "replaces")>>, "never")

HuggingFace ==
  Wrapper(<<Timed(Whole, "all", "ends")>>, <<Timed(First, "all", "replaces")>>, "always")

MistralReply == Bare({"text", "others", "calls"}, "each", "ends")
MistralChat  == Wrapper(<<Bare(Asked, "each", "ends")>>, <<MistralReply>>, "never")
MistralFim   == Wrapper(<<Bare(Whole, "each", "ends")>>, <<MistralReply>>, "never")

(* Embeddings, and the classifiers with them.                               *)
MistralInputs == Wrapper(<<Bare(Whole, "each", "ends")>>, <<>>, "never")

InferenceChat ==
  Wrapper(<<Bare(Asked, "each", "ends")>>, <<Bare({"text", "others"}, "all", "ends")>>,
          "never")

VercelGenerate ==
  Wrapper(<<Timed(Whole, "all", "ends")>>, <<Timed(First, "all", "ends")>>, "never")

VercelAgent == Wrapper(<<Bare(Asked, "all", "ends")>>, <<Bare(First, "all", "ends")>>, "never")

VercelMCP ==
  Wrapper(<<>>, <<Timed({"documents", "parts"}, "each", "dropsWhole")>>, "never")

BonkMiddleware ==
  Wrapper(<<Timed(Whole, "all", "ends")>>, <<Timed(First, "all", "ends")>>, "never")

GoogleGenerate ==
  Wrapper(<<Timed(Whole, "all", "ends")>>,
          <<Timed({"text", "others"}, "all", "ends"), Timed({"calls"}, "each", "ends")>>,
          "never")

GoogleChat ==
  Wrapper(<<Timed(Whole, "all", "ends")>>, <<Timed({"text", "others"}, "all", "ends")>>,
          "never")

(* A message of a live session on its way to the application, and what the  *)
(* application sends: turns as one text, the responses of tools in turn.    *)
LiveMessage ==
  Wrapper(<<>>, <<Timed({"text", "others"}, "all", "ends"), Timed({"calls"}, "each", "ends")>>,
          "never")

LiveSend(by) == Wrapper(<<Timed(Whole, by, "ends")>>, <<>>, "never")

(* The guardrails of OpenAI Agents around a run, around a tool, whose       *)
(* result a second engine looks at too, and on a handoff.                   *)
AgentsRun ==
  Wrapper(<<Timed(Whole, "all", "ends")>>, <<Timed(First, "all", "ends")>>, "never")

AgentsTool ==
  Wrapper(<<Bare(Asked, "all", "ends")>>,
          <<Timed(First, "all", "ends"), Timed(First, "all", "ends")>>, "never")

AgentsHandoff ==
  Wrapper(<<Timed(Whole, "all", "ends"), Bare(Asked, "all", "ends")>>, <<>>, "never")

LangChain ==
  Wrapper(<<Timed(Whole, "each", "ends")>>, <<Timed({"text", "others"}, "each", "ends")>>,
          "never")

LlamaQuery ==
  Wrapper(<<Timed(Asked, "all", "ends")>>,
          <<Timed({"documents"}, "each", "drops"), Timed(First, "all", "replaces")>>,
          "always")

LlamaRetriever(no) ==
  Wrapper(<<Timed(Asked, "all", "ends")>>, <<Timed({"documents"}, "each", no)>>, "never")

GenkitFlow ==
  Wrapper(<<Timed(Whole, "all", "ends")>>, <<Timed(First, "all", "replaces")>>, "never")

MastraAgent ==
  Wrapper(<<Timed(Whole, "all", "ends")>>, <<Timed(First, "all", "ends")>>, "never")

CopilotAction == Wrapper(<<Timed(Whole, "all", "ends")>>, <<Timed(First, "all", "ends")>>, "never")

(* The views of a tool's result are judged together and then one by one,    *)
(* until the scan's time is up.                                             *)
McpTool ==
  Wrapper(<<Timed(Asked, "all", "ends")>>,
          <<Timed({"text", "others"}, "all", "replaces"),
            Lenient({"text", "others"}, "each", "replaces")>>, "refused")

CloudflareState == Wrapper(<<Lenient(Asked, "all", "ends")>>, <<>>, "never")
CloudflareRows  == Wrapper(<<>>, <<Lenient({"documents"}, "each", "drops")>>, "never")

VoltAgent ==
  Wrapper(<<Lenient(Whole, "all", "ends"), Bare(Whole, "all", "ends")>>,
          <<Bare(First, "all", "ends")>>, "never")

Memory ==
  Wrapper(<<Bare(Whole, "all", "ends")>>, <<Bare({"documents"}, "all", "ends")>>, "never")

(* E2B and Daytona: a path, then a command or a content; what becomes of    *)
(* errors and late answers is an option.                                    *)
Sandbox(fails) == Wrapper(<<Judging(Whole, "each", "ends", fails)>>, <<>>, "never")

(* Stagehand's acts, tasks and extracts, Eko's tasks, and Eko's MCP tools.  *)
BrowserTask    == Wrapper(<<Bare(Asked, "all", "ends")>>, <<>>, "never")
BrowserExtract == Wrapper(<<>>, <<Bare(First, "all", "ends")>>, "never")
BrowserTool == Wrapper(<<Bare(Asked, "all", "ends")>>, <<Bare(First, "all", "ends")>>, "never")

(* elizaOS: the arguments, then the recipient against the memories.         *)
SigningAction ==
  Wrapper(<<Bare(Asked, "all", "ends"), Bare({"context"}, "all", "ends")>>, <<>>, "never")

(* A document that was extracted, and a webhook of the HTTP server: the     *)
(* engine's verdict on the whole is the answer.                             *)
ExtractedText == Wrapper(<<>>, <<Bare(First, "all", "ends")>>, "never")
WebhookRoute  == Wrapper(<<Bare(Whole, "all", "ends")>>, <<>>, "never")

Wrappers ==
  {OpenAIChat, OllamaChat, OllamaGenerate, AnthropicMessages, HuggingFace, MistralChat,
   MistralFim, MistralInputs, InferenceChat, VercelGenerate, VercelAgent, VercelMCP,
   BonkMiddleware, GoogleGenerate, GoogleChat, LiveMessage, LiveSend("all"),
   LiveSend("each"), AgentsRun, AgentsTool, AgentsHandoff, LangChain,
   LlamaQuery, LlamaRetriever("drops"), LlamaRetriever("ends"), GenkitFlow, MastraAgent,
   CopilotAction, McpTool, CloudflareState, CloudflareRows, VoltAgent, Memory,
   Sandbox("refuses"), Sandbox("passes"), BrowserTask, BrowserExtract, BrowserTool,
   SigningAction, ExtractedText, WebhookRoute}

VARIABLES
  wrapper,       \* which of them; never changes
  leg,           \* "asking", "calling", "answering", "returned" or "thrown"
  pieces,        \* the request, and once it is there the reply
  gate,          \* the gate they are before
  upto,          \* the last piece the gate has judged
  cleared,       \* <<gate, piece>>: what it accepted
  excused,       \* <<gate, piece>>: what it could not judge and passed
  banned,        \* the pieces some gate refused
  onward         \* the pieces that go on to the call, or to the application

guardedVars == <<wrapper, leg, pieces, gate, upto, cleared, excused, banned, onward>>

Gates == IF leg \in {"asking", "calling"} THEN wrapper.before ELSE wrapper.after

Kinds(gates) == {"unread"} \cup UNION {gates[g].of : g \in DOMAIN gates}

Pieces(gates) == UNION {[1..n -> Kinds(gates)] : n \in 0..MaxPieces}

(* Pieces that come before their first gate.                                *)
Faces(ps) ==
  /\ pieces' = ps /\ onward' = DOMAIN ps /\ gate' = 1 /\ upto' = 0
  /\ cleared' = {} /\ excused' = {} /\ banned' = {}

GuardedInit ==
  /\ wrapper \in Wrappers /\ leg = "asking"
  /\ pieces \in Pieces(wrapper.before) /\ onward = DOMAIN pieces /\ gate = 1 /\ upto = 0
  /\ cleared = {} /\ excused = {} /\ banned = {}

AtGate == leg \in {"asking", "answering"} /\ gate \in DOMAIN Gates

(* What the gate has still to judge, and what it judges next.               *)
Left == {p \in onward : p > upto /\ pieces[p] \in Gates[gate].of}
Foremost == CHOOSE p \in Left : \A q \in Left : p <= q
Judged == IF Gates[gate].by = "all" THEN Left ELSE {Foremost}

Beyond(ps) == CHOOSE p \in ps : \A q \in ps : q <= p
-----------------------------------------------------------------------------
(* Mutant: the verdict on one piece is taken for the others.                *)
AcceptsForAll ==
  /\ cleared' = cleared \cup ({gate} \X Judged)
  /\ upto' = Beyond(Left)
  /\ UNCHANGED <<wrapper, leg, pieces, gate, excused, banned, onward>>

Accepts ==
  /\ cleared' = cleared \cup ({gate} \X Judged)
  /\ upto' = Beyond(Judged)
  /\ UNCHANGED <<wrapper, leg, pieces, gate, excused, banned, onward>>

(* A judgement that failed and is passed by.                                *)
Excuses ==
  /\ excused' = excused \cup ({gate} \X Judged)
  /\ upto' = Beyond(Judged)
  /\ UNCHANGED <<wrapper, leg, pieces, gate, cleared, banned, onward>>

Throws ==
  /\ leg' = "thrown" /\ onward' = {}
  /\ UNCHANGED <<wrapper, pieces, gate, upto, cleared, excused, banned>>

TurnsDown ==
  /\ banned' = banned \cup Judged
  /\ UNCHANGED <<wrapper, pieces, gate, cleared, excused>>
  /\ CASE Gates[gate].no = "ends"        -> leg' = "thrown" /\ onward' = {} /\ UNCHANGED upto
       [] Gates[gate].no = "drops"       -> onward' = onward \ Judged
                                            /\ upto' = Beyond(Judged) /\ UNCHANGED leg
       [] Gates[gate].no = "dropsWhole" -> upto' = Beyond(Judged) /\ UNCHANGED <<leg, onward>>
       [] Gates[gate].no = "blanks"      -> leg' = "returned" /\ onward' = onward \ Judged
                                            /\ UNCHANGED upto
       [] Gates[gate].no = "replaces"    -> leg' = "returned" /\ onward' = {} /\ UNCHANGED upto

Judgement ==
  /\ AtGate /\ Left # {}
  /\ \/ Accepts
     \/ TurnsDown
     \/ Gates[gate].fails = "throws" /\ Throws
     \/ Gates[gate].fails = "passes" /\ Excuses

(* Behind a gate that drops documents, those stay that have an accepted     *)
(* part: the client keeps what bears the id of a survivor.                  *)
Survivors ==
  {p \in onward : p \in banned /\ Gates[gate].no = "dropsWhole" =>
     pieces[p] = "parts" /\ \E q \in DOMAIN pieces : pieces[q] = "parts" /\ q \notin banned}

PassesGate ==
  /\ AtGate /\ Left = {}
  /\ gate' = gate + 1 /\ upto' = 0 /\ onward' = Survivors
  /\ UNCHANGED <<wrapper, leg, pieces, cleared, excused, banned>>

(* The request is through, and the call is made.                            *)
CallsOut ==
  /\ leg = "asking" /\ gate \notin DOMAIN Gates
  /\ leg' = "calling"
  /\ UNCHANGED <<wrapper, pieces, gate, upto, cleared, excused, banned, onward>>

(* The call fails, or its reply comes before the gates.                     *)
ReplyComes ==
  /\ leg = "calling"
  /\ \/ Throws
     \/ /\ leg' = "answering" /\ UNCHANGED wrapper
        /\ \E ps \in Pieces(wrapper.after) : Faces(ps)

HandsOver ==
  /\ leg = "answering" /\ gate \notin DOMAIN Gates
  /\ leg' = "returned"
  /\ UNCHANGED <<wrapper, pieces, gate, upto, cleared, excused, banned, onward>>

GuardedNext == Judgement \/ PassesGate \/ CallsOut \/ ReplyComes \/ HandsOver

GuardedSpec == GuardedInit /\ [][GuardedNext]_guardedVars
-----------------------------------------------------------------------------
(* What the application sees, with the raw reply some wrappers add.         *)
Seen ==
  IF leg # "returned" THEN {}
  ELSE IF wrapper.raw = "always" \/ (wrapper.raw = "refused" /\ banned # {})
       THEN DOMAIN pieces ELSE onward

(* The call is made with a request, and the application sees a reply, of    *)
(* which every piece that is in reach of a gate was accepted by that gate,  *)
(* also behind a piece that was dropped, a second choice, a call among      *)
(* several, and a gate that has refused nothing.  Excepted is what a        *)
(* lenient gate could not judge, the raw reply, and a refused part of a     *)
(* document that has an accepted one.                                       *)
OnlyAcceptedGoesOn ==
  \A p \in (IF leg = "calling" THEN onward ELSE Seen), g \in DOMAIN Gates :
    pieces[p] \in Gates[g].of =>
      \/ <<g, p>> \in cleared \cup excused
      \/ p \notin onward /\ wrapper.raw # "never"
      \/ /\ Gates[g].no = "dropsWhole" /\ pieces[p] = "parts"
         /\ \E q \in onward : pieces[q] = "parts" /\ <<g, q>> \in cleared
=============================================================================
