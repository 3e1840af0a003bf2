--------------------------- MODULE ProviderStreams ---------------------------
(***************************************************************************)
(* The loops with which the connectors hand a provider's stream on to the  *)
(* application and have its text judged on the way.  Each is a generator,  *)
(* or a callback called once per chunk, that takes one chunk at a time: it *)
(* accumulates the text, asks the engine about all of it on some occasions *)
(* and passes the chunk on, or holds everything until the end.             *)
(*                                                                         *)
(* What tells the loops apart is a record, one per function of the source; *)
(* the actions below are their common shape.  A chunk is the length of its *)
(* text.  Timeouts and errors of the engine are refusals                   *)
(* (validateWithTimeoutSecure), or end the stream with an error as well.   *)
(***************************************************************************)
EXTENDS Naturals, Sequences, SequencesExt

CONSTANTS
  ChunkInterval,   \* VALIDATION_INTERVAL, in chunks
  CharInterval,    \* STREAM_VALIDATE_INTERVAL_CHARS
  MaxText,         \* maxStreamBufferSize, for text and for held events
  Sizes,           \* the chunks, by the length of their text
  MaxStream        \* bound: chunks of a stream

ASSUME StreamsAssumption ==
  /\ {ChunkInterval, CharInterval} \subseteq Nat \ {0}
  /\ MaxText \in Nat /\ Sizes \subseteq Nat /\ MaxStream \in Nat

-----------------------------------------------------------------------------
(* asks      when the text so far is judged before the end: on the count of *)
(*           chunks, on the length of the text, or never                    *)
(* empties   an event without text (size 0) counts like any other, or is    *)
(*           passed on unseen                                               *)
(* holds     "nothing": a chunk is passed on once it is taken and judged;   *)
(*           "all": everything until the end; "late": a chunk is passed on  *)
(*           before it is looked at                                         *)
(* limit     what maxStreamBufferSize bounds: the text, the events as well, *)
(*           or nothing                                                     *)
(* tail      the judgement at the end: of the whole text if there is any,   *)
(*           of the whole text only if it has grown since the last one, or  *)
(*           none                                                           *)
(* refused, late, full                                                      *)
(*           how the stream ends for the application after a refusal in its *)
(*           course, after one at its end, and on an overflow               *)
OpenAIIncremental ==
  [asks |-> "chunks", empties |-> FALSE, holds |-> "nothing", limit |-> "text",
   tail |-> "whole", refused |-> "silence", late |-> "silence", full |-> "silence"]

OpenAIBuffered ==
  [asks |-> "never", empties |-> TRUE, holds |-> "all", limit |-> "events",
   tail |-> "whole", refused |-> "none", late |-> "notice", full |-> "silence"]

AnthropicIncremental ==
  [OpenAIIncremental EXCEPT !.refused = "notice", !.late = "notice", !.full = "notice"]

AnthropicBuffered == [OpenAIBuffered EXCEPT !.full = "notice"]

OllamaChatIncremental ==
  [asks |-> "chunks", empties |-> TRUE, holds |-> "nothing", limit |-> "text",
   tail |-> "whole", refused |-> "notice", late |-> "notice", full |-> "error"]

OllamaGenerateIncremental ==
  [asks |-> "chunks", empties |-> TRUE, holds |-> "nothing", limit |-> "text",
   tail |-> "whole", refused |-> "notice", late |-> "notice", full |-> "error"]

OllamaChatBuffered ==
  [asks |-> "never", empties |-> TRUE, holds |-> "all", limit |-> "events",
   tail |-> "whole", refused |-> "none", late |-> "notice", full |-> "error"]

OllamaGenerateBuffered ==
  [asks |-> "never", empties |-> TRUE, holds |-> "all", limit |-> "events",
   tail |-> "whole", refused |-> "none", late |-> "notice", full |-> "error"]

(* The end is judged even when there is no text.                            *)
VercelIncremental ==
  [asks |-> "chunks", empties |-> TRUE, holds |-> "nothing", limit |-> "text",
   tail |-> "always", refused |-> "error", late |-> "notice", full |-> "error"]

VercelBuffered ==
  [asks |-> "never", empties |-> TRUE, holds |-> "all", limit |-> "text",
   tail |-> "whole", refused |-> "none", late |-> "notice", full |-> "error"]

BonkTrailing ==
  [asks |-> "never", empties |-> TRUE, holds |-> "nothing", limit |-> "none",
   tail |-> "whole", refused |-> "none", late |-> "error", full |-> "none"]

(* Groq, Together and the like; when the provider fails, the rest is judged *)
(* before its error is passed on.                                           *)
InferenceStream ==
  [asks |-> "text", empties |-> FALSE, holds |-> "late", limit |-> "none",
   tail |-> "rest", refused |-> "error", late |-> "error", full |-> "none"]

(* createStreamValidator and _finalizeStream, called by the application,    *)
(* which is taken to stop at the first error.                               *)
MastraIncremental ==
  [asks |-> "chunks", empties |-> TRUE, holds |-> "nothing", limit |-> "text",
   tail |-> "none", refused |-> "error", late |-> "none", full |-> "error"]

GenkitIncremental ==
  [asks |-> "chunks", empties |-> TRUE, holds |-> "nothing", limit |-> "text",
   tail |-> "none", refused |-> "error", late |-> "none", full |-> "error"]

CopilotKitIncremental ==
  [asks |-> "chunks", empties |-> TRUE, holds |-> "nothing", limit |-> "text",
   tail |-> "none", refused |-> "error", late |-> "none", full |-> "error"]

(* Without validateStreaming, and in buffer mode, the chunks have gone by   *)
(* when the end is judged.                                                  *)
CallbackTrailing ==
  [asks |-> "never", empties |-> TRUE, holds |-> "nothing", limit |-> "text",
   tail |-> "always", refused |-> "none", late |-> "error", full |-> "error"]

(* LangChain streams by itself and the handler looks on: handleLLMNewToken  *)
(* and handleLLMEnd.                                                        *)
LangChainTokens ==
  [asks |-> "never", empties |-> TRUE, holds |-> "nothing", limit |-> "text",
   tail |-> "whole", refused |-> "none", late |-> "error", full |-> "error"]

Loops ==
  {OpenAIIncremental, OpenAIBuffered, AnthropicIncremental, AnthropicBuffered,
   OllamaChatIncremental, OllamaGenerateIncremental, OllamaChatBuffered,
   OllamaGenerateBuffered, VercelIncremental, VercelBuffered, BonkTrailing,
   InferenceStream, MastraIncremental, GenkitIncremental, CopilotKitIncremental,
   CallbackTrailing, LangChainTokens}

VARIABLES
  loop,            \* which of them; never changes
  taken,           \* the chunks the loop has taken, accumulated or passed by
  counted,         \* validationCounter: those that count
  lastLength,      \* lastValidatedAt: the length of the text at the last judgement
  passed,          \* how many chunks the application has
  ending,          \* "open", or how the application sees the stream end
  allowed,         \* history: how many of the chunks an allowing verdict covers
  refusedOnce      \* history

providerVars == <<loop, taken, counted, lastLength, passed, ending, allowed, refusedOnce>>

ProviderInit ==
  /\ loop \in Loops
  /\ taken = <<>> /\ counted = 0 /\ lastLength = 0 /\ passed = 0
  /\ ending = "open" /\ allowed = 0 /\ refusedOnce = FALSE

Text(s) == FoldLeft(LAMBDA sum, size : sum + size, 0, s)

Full(size) ==
  \/ loop.limit \in {"text", "events"} /\ Text(taken) + size > MaxText
  \/ loop.limit = "events" /\ Len(taken) >= MaxText

End(how) == ending' = how

(* The engine allows all the text taken so far, or refuses it.              *)
Allow == allowed' = Len(taken') /\ lastLength' = Text(taken') /\ UNCHANGED refusedOnce
Refuse == refusedOnce' = TRUE /\ lastLength' = Text(taken') /\ UNCHANGED allowed
Unasked == UNCHANGED <<allowed, lastLength, refusedOnce>>

PassOn == passed' = IF loop.holds = "all" THEN passed ELSE Len(taken')
-----------------------------------------------------------------------------
(* Mutant: a check is due when the count has just passed the interval.      *)
DueLate ==
  \/ loop.asks = "chunks" /\ counted' % ChunkInterval = 1 /\ counted' > ChunkInterval
  \/ loop.asks = "text" /\ Text(taken') - lastLength >= CharInterval

(* The text is to be judged now that this chunk is taken.                   *)
Due ==
  \/ loop.asks = "chunks" /\ counted' % ChunkInterval = 0
  \/ loop.asks = "text" /\ Text(taken') - lastLength >= CharInterval

(* A chunk that the loop does not look at.                                  *)
PassesBy(size) ==
  /\ size = 0 /\ ~loop.empties
  /\ taken' = Append(taken, size)
  /\ passed' = Len(taken')
  /\ Unasked
  /\ UNCHANGED <<counted, ending>>

(* An overflow ends the stream; a loop that yields first has no limit.      *)
TooMuch(size) ==
  /\ Full(size)
  /\ End(loop.full)
  /\ Unasked
  /\ UNCHANGED <<taken, counted, passed>>

(* Mutant: the chunk goes out with the refusal.                             *)
TakesPassing(size) ==
  /\ ~Full(size)
  /\ taken' = Append(taken, size)
  /\ counted' = counted + 1
  /\ IF Due THEN \/ Allow /\ PassOn /\ UNCHANGED ending
                 \/ Refuse /\ PassOn /\ UNCHANGED ending
     ELSE Unasked /\ PassOn /\ UNCHANGED ending

(* A chunk is accumulated and, when a judgement is due, passed on only if   *)
(* it allows; in the loop that yields first it is out already.              *)
Takes(size) ==
  /\ ~Full(size)
  /\ taken' = Append(taken, size)
  /\ counted' = counted + 1
  /\ IF Due THEN \/ Allow /\ PassOn /\ UNCHANGED ending
                 \/ /\ Refuse /\ End(loop.refused)
                    /\ IF loop.holds = "late" THEN PassOn ELSE UNCHANGED passed
     ELSE Unasked /\ PassOn /\ UNCHANGED ending

ChunkArrives(size) ==
  /\ ending = "open" /\ Len(taken) < MaxStream
  /\ IF size = 0 /\ ~loop.empties THEN PassesBy(size)
     ELSE TooMuch(size) \/ Takes(size)
  /\ UNCHANGED loop

(* Mutant: the count of chunks decides whether a tail is left.              *)
TailOwedOffInterval ==
  \/ loop.tail \in {"always", "whole"} /\ Len(taken) % ChunkInterval # 0
  \/ loop.tail = "rest" /\ Text(taken) > lastLength

TailOwed ==
  \/ loop.tail = "always"
  \/ loop.tail = "whole" /\ Text(taken) > 0
  \/ loop.tail = "rest" /\ Text(taken) > lastLength

ReleaseAll == passed' = Len(taken)

(* The provider's stream ends: the tail is judged, and what is held goes    *)
(* out, all of it or nothing.                                               *)
UpstreamEnds ==
  /\ ending = "open"
  /\ UNCHANGED <<loop, taken, counted>>
  /\ IF TailOwed
     THEN \/ Allow /\ End("clean") /\ ReleaseAll
          \/ Refuse /\ End(loop.late) /\ UNCHANGED passed
     ELSE Unasked /\ End("clean") /\ ReleaseAll

(* The provider fails in mid-stream: the error is the application's.        *)
UpstreamFails ==
  /\ ending = "open"
  /\ End("error")
  /\ UNCHANGED <<loop, taken, counted, passed>>
  /\ IF loop.tail = "rest" /\ TailOwed THEN Allow \/ Refuse ELSE Unasked

(* The application stops reading, and the generator with it.                *)
ReaderLeaves ==
  /\ ending = "open" /\ End("left")
  /\ UNCHANGED <<loop, taken, counted, lastLength, passed, allowed, refusedOnce>>

ProviderNext ==
  \/ \E size \in Sizes : ChunkArrives(size)
  \/ UpstreamEnds \/ UpstreamFails \/ ReaderLeaves

ProviderSpec == ProviderInit /\ [][ProviderNext]_providerVars
-----------------------------------------------------------------------------
(* The text the application has and no allowing verdict covers.             *)
Unjudged == {i \in allowed + 1 .. passed : taken[i] > 0}

(* How much reaches the application before it is judged: in the course of a *)
(* stream less than an interval of chunks, or of characters and one chunk,  *)
(* and nothing from a loop that holds the stream back                       *)
(* (docs/user/known-limitations.md:102-106).                          *)
LeakIsBounded ==
  /\ loop.holds = "all" => Unjudged = {}
  /\ loop.asks = "chunks" => Cardinality(Unjudged) < ChunkInterval
  /\ loop.asks = "text" => Text(SubSeq(taken, allowed + 1, passed - 1)) < CharInterval

(* Once the engine has refused, nothing more reaches the application.       *)
RefusalIsFinal == [][refusedOnce => passed' = passed]_providerVars

(* A loop that judges the tail at all judges every stream that ends as      *)
(* streams do to its last character, and has passed it on whole.            *)
EndIsJudged ==
  ending = "clean" /\ loop.tail # "none" => passed = Len(taken) /\ Unjudged = {}

(* stream-validator.ts:212-214: connectors must judge the tail when the     *)
(* stream ends, otherwise "the tail of the stream ... may bypass            *)
(* detection".                                                              *)
EveryEndIsJudged == ending = "clean" => Unjudged = {}
=============================================================================
