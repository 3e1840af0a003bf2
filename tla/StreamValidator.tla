-------------------------- MODULE StreamValidator --------------------------
(***************************************************************************)
(* One StreamValidator (packages/core/src/connector-utils/                 *)
(* stream-validator.ts) with its BufferedReleaseGate (buffered-release-    *)
(* gate.ts): an accumulator that the engine judges as a whole, and, in the *)
(* gated lifecycle, a buffer that is handed out once a verdict allows it.  *)
(* Callers serialise their calls, as the class requires, but may make them *)
(* in any order, go on after an error and dispose at any time.  A call     *)
(* takes two steps when it awaits the engine, one otherwise.               *)
(***************************************************************************)
EXTENDS Integers, Sequences, SequencesExt

CONSTANTS
  Chunks,          \* what a chunk of the stream may look like
  MaxChunks,       \* bound: chunks fed to one stream
  MaxBufferSize,   \* options.maxBufferSize
  Interval,        \* options.validationInterval
  MinChars,        \* minCharsBeforeRelease, or Infinity
  DetectSentence,  \* detectSentenceBoundary
  MinSentence,     \* minSentenceLength
  OnBlockedThrows  \* TRUE: the caller's onBlocked callback throws

Infinity == -1

(* A chunk counts its characters by the bytes each takes in UTF-8; an       *)
(* astral character is two UTF-16 code units.  It ends in a sentence        *)
(* terminator, is nothing but closing quotes and blanks, or ends in a word. *)
ChunkType == [one : Nat, two : Nat, three : Nat, astral : Nat,
              ends : {"stop", "pad", "word"}]

ASSUME StreamAssumption ==
  /\ Chunks \subseteq ChunkType
  /\ MaxChunks \in Nat
  /\ MaxBufferSize \in Nat
  /\ Interval \in Nat \ {0}
  /\ MinChars \in Nat \cup {Infinity}
  /\ MinSentence \in Nat
  /\ {DetectSentence, OnBlockedThrows} \subseteq BOOLEAN

VARIABLES
  mode,          \* null, 'legacy' or 'gated'
  accumulated,   \* state.accumulated, as the chunks it consists of
  byteSize,      \* state.byteSize
  chunkCount,    \* state.chunkCount
  blocked,       \* state.blocked
  finalised,
  finalisedForClient,
  pending,       \* releaseGate.buffer, as the chunks it consists of
  op,            \* the call that awaits the engine, or "idle"
  fed,           \* history: chunks fed so far; a chunk is told by its number
  released,      \* history: everything takePending has handed out
  covered,       \* history: the content of the newest allowing verdict
  refused        \* history: the engine has blocked or thrown

state == <<accumulated, byteSize, chunkCount, blocked>>
lifecycle == <<mode, finalised, finalisedForClient, op>>
streamVars == <<state, lifecycle, pending, fed, released, covered, refused>>

Numbered == [n : 1..MaxChunks, is : Chunks]

(* getByteSize: charCodeAt never exceeds 0xffff, so each half of a          *)
(* surrogate pair is counted as a three-byte character.                     *)
ByteSize(c) == c.one + 2 * c.two + 3 * c.three + 6 * c.astral
Utf8Size(c) == c.one + 2 * c.two + 3 * c.three + 4 * c.astral
Units(c) == c.one + c.two + c.three + 2 * c.astral

Total(Size(_), s) == FoldLeft(LAMBDA sum, e : sum + Size(e.is), 0, s)

StreamTypeOK ==
  /\ mode \in {"none", "legacy", "gated"}
  /\ {accumulated, pending, released, covered} \subseteq Seq(Numbered)
  /\ byteSize \in Nat
  /\ chunkCount = Len(accumulated)
  /\ fed \in 0..MaxChunks
  /\ {blocked, finalised, finalisedForClient, refused} \subseteq BOOLEAN
  /\ op \in {"idle", "process", "finalize", "disposing", "processForClient",
             "finalizeForClient"}

StreamInit ==
  /\ mode = "none"
  /\ accumulated = <<>> /\ byteSize = 0 /\ chunkCount = 0 /\ blocked = FALSE
  /\ finalised = FALSE /\ finalisedForClient = FALSE
  /\ pending = <<>>
  /\ op = "idle"
  /\ fed = 0
  /\ released = <<>> /\ covered = <<>> /\ refused = FALSE
-----------------------------------------------------------------------------
(* The buffer ends like its last chunk that is more than padding.           *)
EndsSentence(s) ==
  \E i \in DOMAIN s : /\ s[i].is.ends = "stop"
                      /\ \A j \in DOMAIN s : j > i => s[j].is.ends = "pad"

(* shouldRelease, of the buffer s.                                          *)
ShouldRelease(s) ==
  \/ MinChars = 0
  \/ /\ MinChars # Infinity
     /\ \/ Total(Units, s) >= MinChars
        \/ DetectSentence /\ Total(Units, s) >= MinSentence /\ EndsSentence(s)

(* shouldValidateStream and hasUnvalidatedTail share this schedule.         *)
OnSchedule(count) == count % Interval = 0

(* Mutant: a stream of one chunk has no tail.                               *)
TailOfTwo == ~blocked /\ chunkCount > 1 /\ ~OnSchedule(chunkCount)

HasUnvalidatedTail == ~blocked /\ chunkCount > 0 /\ ~OnSchedule(chunkCount)

Overflows(c) == byteSize + ByteSize(c) > MaxBufferSize

(* processStreamChunk, when it does not throw.                              *)
Accumulate(c) ==
  /\ ~Overflows(c)
  /\ accumulated' = Append(accumulated, [n |-> fed', is |-> c])
  /\ byteSize' = byteSize + ByteSize(c)
  /\ chunkCount' = chunkCount + 1
  /\ UNCHANGED blocked

Feed == fed < MaxChunks /\ fed' = fed + 1

(* process(chunk): refused in the other lifecycle, a no-op on a blocked     *)
(* stream, a throw on overflow; otherwise the schedule decides whether the  *)
(* accumulator is judged now.                                               *)
Process(c) ==
  /\ op = "idle" /\ mode # "gated"
  /\ mode' = "legacy"
  /\ Feed
  /\ \/ /\ ~blocked
        /\ Accumulate(c)
        /\ op' = IF OnSchedule(chunkCount') THEN "process" ELSE "idle"
     \/ /\ blocked \/ Overflows(c)
        /\ UNCHANGED <<state, op>>
  /\ UNCHANGED <<finalised, finalisedForClient, pending, released, covered,
                 refused>>

(* Mutants: the gate takes the chunk before the size check can throw; the   *)
(* gate hands out and then has the content judged.                          *)
ReleaseFirst(c) ==
  /\ op = "idle" /\ mode # "legacy" /\ ~blocked
  /\ mode' = "gated"
  /\ Feed
  /\ Accumulate(c)
  /\ LET held == Append(pending, [n |-> fed', is |-> c]) IN
     IF ShouldRelease(held)
     THEN pending' = <<>> /\ released' = released \o held /\ op' = "processForClient"
     ELSE pending' = held /\ op' = "idle" /\ UNCHANGED released
  /\ UNCHANGED <<finalised, finalisedForClient, covered, refused>>

(* processForClient(chunk) up to its await: the same, and the release gate  *)
(* decides when to judge.                                                   *)
ProcessForClient(c) ==
  /\ op = "idle" /\ mode # "legacy"
  /\ mode' = "gated"
  /\ Feed
  /\ \/ /\ ~blocked
        /\ Accumulate(c)
        /\ pending' = Append(pending, [n |-> fed', is |-> c])
        /\ op' = IF ShouldRelease(pending') THEN "processForClient" ELSE "idle"
     \/ /\ blocked \/ Overflows(c)
        /\ UNCHANGED <<state, pending, op>>
  /\ UNCHANGED <<finalised, finalisedForClient, released, covered, refused>>

(* finalize() up to its await; next is what it awaits as.                   *)
StartFinalize(next) ==
  /\ finalised' = TRUE
  /\ op' = IF mode # "gated" /\ ~finalised /\ HasUnvalidatedTail THEN next ELSE "idle"

Finalize ==
  /\ op = "idle"
  /\ StartFinalize("finalize")
  /\ UNCHANGED <<state, mode, finalisedForClient, pending, fed, released,
                 covered, refused>>

(* pendingSize # 0                                                          *)
HasText(s) == \E i \in DOMAIN s : Units(s[i].is) # 0

(* finalizeForClient() up to its await.                                     *)
StartFlush ==
  /\ finalisedForClient' = TRUE
  /\ op' = IF ~finalisedForClient /\ ~blocked /\ HasText(pending)
           THEN "finalizeForClient" ELSE "idle"

FinalizeForClient ==
  /\ op = "idle"
  /\ StartFlush
  /\ UNCHANGED <<state, mode, finalised, pending, fed, released, covered, refused>>

(* Symbol.asyncDispose: finalize, then finalizeForClient unless it has run; *)
(* what the latter releases is dropped.                                     *)
Dispose ==
  /\ op = "idle"
  /\ finalised' = TRUE
  /\ \/ /\ mode # "gated" /\ ~finalised /\ HasUnvalidatedTail
        /\ op' = "disposing"
        /\ UNCHANGED finalisedForClient
     \/ /\ ~(mode # "gated" /\ ~finalised /\ HasUnvalidatedTail)
        /\ StartFlush
  /\ UNCHANGED <<state, mode, pending, fed, released, covered, refused>>
-----------------------------------------------------------------------------
Verdict == {"allow", "block", "throw"}

Gated == op \in {"processForClient", "finalizeForClient"}

(* markStreamBlocked                                                        *)
MarkBlocked ==
  /\ blocked' = TRUE
  /\ accumulated' = <<>> /\ byteSize' = 0 /\ chunkCount' = 0

(* runValidation resumes with an allowing verdict; the gated calls drain    *)
(* the gate.                                                                *)
Allowed ==
  /\ covered' = accumulated
  /\ IF Gated
     THEN released' = released \o pending /\ pending' = <<>>
     ELSE UNCHANGED <<released, pending>>
  /\ UNCHANGED <<state, refused>>

(* runValidation resumes with a block or with a throw: onBlocked, then      *)
(* markStreamBlocked; the gated calls drop the gate.  An onBlocked that     *)
(* throws is called again by the catch block and throws again, so that      *)
(* markStreamBlocked is never reached.                                      *)
Refused(verdict) ==
  /\ refused' = TRUE
  /\ IF OnBlockedThrows THEN UNCHANGED state ELSE MarkBlocked
  /\ pending' = IF Gated THEN <<>> ELSE pending
  /\ UNCHANGED <<released, covered>>

(* A call returns, or rejects.  The second half of asyncDispose runs when   *)
(* its finalize did not reject; in the legacy lifecycle its gate is empty.  *)
EngineAnswers(verdict) ==
  /\ op # "idle"
  /\ op' = "idle"
  /\ \/ verdict = "allow" /\ Allowed
     \/ verdict # "allow" /\ Refused(verdict)
  /\ finalisedForClient' = (finalisedForClient \/
       (op = "disposing" /\ verdict # "throw" /\ ~(verdict = "block" /\ OnBlockedThrows)))
  /\ UNCHANGED <<mode, finalised, fed>>

StreamNext ==
  \/ \E c \in Chunks : Process(c) \/ ProcessForClient(c)
  \/ Finalize
  \/ FinalizeForClient
  \/ Dispose
  \/ \E verdict \in Verdict : EngineAnswers(verdict)

StreamSpec == StreamInit /\ [][StreamNext]_streamVars
-----------------------------------------------------------------------------
(* Validate before release: everything handed out is the beginning of a     *)
(* content the engine has allowed as a whole (stream-validator.ts:580-584). *)
ReleasedWasAllowed == IsPrefix(released, covered)

(* A refused stream stays blocked and keeps no content; nothing of it is    *)
(* handed out any more, by whatever call (stream-validator.ts:564-567).     *)
RefusedIsBlocked ==
  refused => blocked /\ accumulated = <<>> /\ pending = <<>>

(* The schedule of the legacy lifecycle has no hole: when the count is on   *)
(* the interval, finalize() has nothing left to judge (stream-validator.ts: *)
(* 208-215, 526).                                                           *)
ScheduleCovers ==
  mode = "legacy" /\ op = "idle" /\ ~blocked /\ ~HasUnvalidatedTail
    => covered = accumulated

(* The byte count follows the accumulator and never lets its UTF-8 size     *)
(* pass the limit (stream-validator.ts:112-116).                            *)
SizeBounded ==
  /\ byteSize = Total(ByteSize, accumulated)
  /\ Total(Utf8Size, accumulated) <= MaxBufferSize

(* stream-validator.ts:290-291 "For accurate byte size in UTF-8, we need to *)
(* count properly": the count is the UTF-8 size.  It is not when the stream *)
(* has an astral character.                                                 *)
ByteSizeIsUtf8 == byteSize = Total(Utf8Size, accumulated)
=============================================================================
