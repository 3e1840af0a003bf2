------------------------- MODULE Integrations_proofs -------------------------
(***************************************************************************)
(* Proofs about what stands between the core and an application: the pull  *)
(* handlers, the streaming loops, the single calls, the vector stores and  *)
(* the commands that rewrite the .env file; about the composite validators *)
(* and the verdicts of the pattern validators.  Each component has a       *)
(* section and an invariant of its own.                                    *)
(***************************************************************************)
EXTENDS ProviderStreams, PullStream, GuardedCalls, VectorStores, EnvFile, Composites,
        Verdicts, FoldLemmas

-----------------------------------------------------------------------------
(* The pull handlers.                                                       *)

(* The types, and: who waits finds nothing in the queue of an open stream.  *)
PullInv ==
  /\ handler \in {"incremental", "gated", "buffer"}
  /\ upstream \in Nat /\ keeps \in Nat /\ enqueued \in Nat
  /\ reading => ~closed /\ enqueued = 0
  /\ closed => ~pulling
  /\ ReaderIsServed

(* The stream starts pulling, with no read pending.                         *)
LEMMA PullInvInit == ASSUME PullInit PROVE PullInv
BY PullAssumption DEF PullInit, PullInv, ReaderIsServed

(* A read of an open stream whose queue it empties calls the handler.       *)
LEMMA ReadStep == ASSUME PullInv, Read PROVE PullInv'
<1>1. CASE enqueued > 0
  BY <1>1 DEF PullInv, Read, CallPull, ReaderIsServed
<1>2. CASE ~(enqueued > 0)
  BY <1>2 DEF PullInv, Read, CallPull, ReaderIsServed
<1> QED BY <1>1, <1>2

(* A pull that enqueues serves the waiting read, one that closes ends it.   *)
LEMMA PullStep == ASSUME PullInv, Pull PROVE PullInv'
<1> USE DEF PullInv, ReaderIsServed
<1>1. CASE PullIncremental
  BY <1>1 DEF Pull, PullIncremental, FulfilWith, CloseWith, Settles, Rejects
<1>2. CASE PullGated
  <2>1. pulling /\ handler' = handler /\ ~closed
    BY DEF Pull
  <2>2. upstream' \in Nat
    BY <1>2 DEF PullGated
  <2>3. CASE FulfilWith(keeps + 1) /\ keeps' = 0
    BY <2>1, <2>2, <2>3 DEF FulfilWith
  <2>4. CASE Settles /\ enqueued' \in Nat /\ keeps' = 0
    BY <2>1, <2>2, <2>4 DEF Settles
  <2>5. CASE UNCHANGED <<enqueued, reading, pulling, pullAgain, closed>> /\ keeps' = keeps + 1
    BY <2>1, <2>2, <2>5
  <2> QED BY <1>2, <2>3, <2>4, <2>5 DEF PullGated, CloseWith, Rejects
<1>3. CASE PullBuffer
  BY <1>3 DEF Pull, PullBuffer, FulfilEmpty, CloseWith, Settles, Rejects
<1> QED BY <1>1, <1>2, <1>3 DEF Pull

(* Reads, pulls, chunks, refusals and the end keep the invariant.           *)
LEMMA PullInvariant == PullSpec => []PullInv
<1>1. PullInit => PullInv
  BY PullInvInit
<1>2. PullInv /\ [PullNext]_pullVars => PullInv'
  <2> SUFFICES ASSUME PullInv, [PullNext]_pullVars PROVE PullInv'
    OBVIOUS
  <2>1. CASE UNCHANGED pullVars
    BY <2>1 DEF PullInv, ReaderIsServed, pullVars
  <2> QED BY <2>1, ReadStep, PullStep DEF PullNext
<1> QED BY <1>1, <1>2, PTL DEF PullSpec

(* While a read waits, a pull is on its way: the incremental and the gated  *)
(* handler enqueue or close with every pull that fulfils, for a provider's  *)
(* stream of any length (guarded-ai.ts:324-328).                            *)
THEOREM PullServesReaders == PullSpec => []ReaderIsServed
BY PullInvariant, PTL DEF PullInv

-----------------------------------------------------------------------------
(* The streaming loops.                                                     *)

(* The text of a sequence of chunks is the sum over all of it.              *)
LEMMA TextIsSum == ASSUME NEW s \in Seq(Nat) PROVE Text(s) = SumUpto(s, Len(s))
<1>1. DOMAIN s = 1 .. Len(s)
  BY LenProperties
<1>2. Text(s) = Sums(s)[DOMAIN s]
  BY Zenon DEF Text, FoldLeft, MapThenFoldSet, Sums
<1> QED BY <1>1, <1>2 DEF SumUpto

(* Another chunk adds its length.                                           *)
LEMMA TextGrows ==
  ASSUME NEW s \in Seq(Nat), NEW x \in Nat
  PROVE  /\ Append(s, x) \in Seq(Nat) /\ Len(Append(s, x)) = Len(s) + 1
         /\ \A k \in 0 .. Len(s) : SumUpto(Append(s, x), k) = SumUpto(s, k)
         /\ Text(Append(s, x)) = Text(s) + x
<1> DEFINE t == Append(s, x)
<1>1. /\ t \in Seq(Nat) /\ Len(t) = Len(s) + 1 /\ Len(s) \in Nat
      /\ \A k \in 1 .. Len(s) : t[k] = s[k]
      /\ t[Len(s) + 1] = x /\ DOMAIN t = 1 .. Len(s) + 1
  BY AppendProperties, LenProperties
<1> HIDE DEF t
<1>2. ASSUME NEW k \in 0 .. Len(s) PROVE SumUpto(t, k) = SumUpto(s, k)
  <2>0. /\ k \in Nat /\ 0 + k = k /\ k <= Len(t) /\ k <= Len(s)
        /\ \A i \in 1 .. k : t[0 + i] = s[i]
    BY <1>1
  <2>1. SumUpto(t, 0 + k) = SumUpto(t, 0) + SumUpto(s, k)
    BY <1>1, <2>0, SumUptoStretch
  <2>2. SumUpto(t, 0) = 0 /\ SumUpto(s, k) \in Nat
    BY <1>1, SumUptoNext, SumUptoType
  <2> QED BY <2>1, <2>2
<1>3. SumUpto(t, Len(s) + 1) = SumUpto(t, Len(s)) + t[Len(s) + 1]
  BY <1>1, SumUptoNext
<1>4. Text(t) = Text(s) + x
  BY <1>1, <1>2, <1>3, TextIsSum
<1> QED BY <1>1, <1>2, <1>4 DEF t

(* The text of a stretch of s.                                              *)
LEMMA TextOfStretch ==
  ASSUME NEW s \in Seq(Nat), NEW a \in Nat, NEW b \in Nat, a <= b, b <= Len(s)
  PROVE  SumUpto(s, b) = SumUpto(s, a) + Text(SubSeq(s, a + 1, b))
<1> DEFINE t == SubSeq(s, a + 1, b)
<1>1. \A k \in 1 .. Len(s) : s[k] \in Nat
  BY LenProperties
<1>2. /\ t \in Seq(Nat) /\ Len(t) = b - a /\ \A k \in 1 .. b - a : t[k] = s[a + k]
  <2>1. \A k \in a + 1 .. b : s[k] \in Nat
    BY <1>1
  <2>2. /\ t \in Seq(Nat) /\ Len(t) = IF a + 1 <= b THEN b - (a + 1) + 1 ELSE 0
        /\ \A k \in 1 .. b - (a + 1) + 1 : t[k] = s[(a + 1) + k - 1]
    <3> DEFINE c == a + 1
    <3>1. c \in Int /\ b \in Int /\ \A k \in c .. b : s[k] \in Nat
      BY <2>1
    <3> HIDE DEF c
    <3>2. /\ SubSeq(s, c, b) \in Seq(Nat)
          /\ Len(SubSeq(s, c, b)) = IF c <= b THEN b - c + 1 ELSE 0
          /\ \A k \in 1 .. b - c + 1 : SubSeq(s, c, b)[k] = s[c + k - 1]
      BY <3>1, SubSeqProperties
    <3> QED BY <3>2 DEF c
  <2> HIDE DEF t
  <2>3. Len(t) = b - a
    BY <2>2
  <2>4. \A k \in 1 .. b - a : (a + 1) + k - 1 = a + k /\ k \in 1 .. b - (a + 1) + 1
    OBVIOUS
  <2>5. \A k \in 1 .. b - a : t[k] = s[a + k]
    BY <2>2, <2>4
  <2> QED BY <2>2, <2>3, <2>5
<1> HIDE DEF t
<1>3. SumUpto(s, a + (b - a)) = SumUpto(s, a) + SumUpto(t, b - a)
  <2>1. /\ b - a \in Nat /\ a + (b - a) <= Len(s) /\ b - a <= Len(t)
        /\ \A k \in 1 .. b - a : s[a + k] = t[k]
    BY <1>2, LenProperties
  <2> QED BY <1>2, <2>1, SumUptoStretch
<1>4. Text(t) = SumUpto(t, b - a)
  BY <1>2, TextIsSum
<1> QED BY <1>3, <1>4 DEF t
(* What the seventeen loops have in common.                                 *)
LEMMA LoopShapes ==
  ASSUME NEW l \in Loops
  PROVE  /\ l.refused \notin {"open", "clean"} /\ l.late \notin {"open", "clean"}
         /\ l.full \notin {"open", "clean"}
         /\ l.asks \in {"chunks", "text", "never"}
         /\ l.holds = "all" => l.empties /\ l.asks = "never" /\ l.tail = "whole"
         /\ l.holds = "late" <=> l.asks = "text"
         /\ l.tail \in {"always", "whole", "rest", "none"}
         /\ l.tail = "rest" => l.asks = "text"
<1> DEFINE Fine(f) ==
             /\ f.refused \notin {"open", "clean"} /\ f.late \notin {"open", "clean"}
             /\ f.full \notin {"open", "clean"}
             /\ f.asks \in {"chunks", "text", "never"}
             /\ f.holds = "all" => f.empties /\ f.asks = "never" /\ f.tail = "whole"
             /\ f.holds = "late" <=> f.asks = "text"
             /\ f.tail \in {"always", "whole", "rest", "none"}
             /\ f.tail = "rest" => f.asks = "text"
<1>1. Fine(OpenAIIncremental) /\ Fine(OpenAIBuffered)
  BY DEF OpenAIIncremental, OpenAIBuffered
<1>2. Fine(AnthropicIncremental) /\ Fine(AnthropicBuffered)
  BY DEF AnthropicIncremental, AnthropicBuffered, OpenAIIncremental, OpenAIBuffered
<1>3. Fine(OllamaChatIncremental) /\ Fine(OllamaGenerateIncremental)
      /\ Fine(OllamaChatBuffered) /\ Fine(OllamaGenerateBuffered)
  BY DEF OllamaChatIncremental, OllamaGenerateIncremental, OllamaChatBuffered,
     OllamaGenerateBuffered
<1>4. Fine(VercelIncremental) /\ Fine(VercelBuffered) /\ Fine(BonkTrailing)
      /\ Fine(InferenceStream)
  BY DEF VercelIncremental, VercelBuffered, BonkTrailing, InferenceStream
<1>5. Fine(MastraIncremental) /\ Fine(GenkitIncremental) /\ Fine(CopilotKitIncremental)
      /\ Fine(CallbackTrailing) /\ Fine(LangChainTokens)
  BY DEF MastraIncremental, GenkitIncremental, CopilotKitIncremental,
     CallbackTrailing, LangChainTokens
<1> HIDE DEF Fine
<1>6. Fine(l)
  BY <1>1, <1>2, <1>3, <1>4, <1>5 DEF Loops
<1> QED BY <1>6 DEF Fine

(* The chunks with text from a on.                                          *)
WithText(s, a) == {i \in a + 1 .. Len(s) : s[i] > 0}

(* The type invariant.                                                      *)
StreamsTypes ==
  /\ loop \in Loops /\ taken \in Seq(Nat) /\ counted \in Nat
  /\ passed \in 0 .. Len(taken) /\ allowed \in 0 .. Len(taken)

(* While the stream is open: what it has passed on, and what is still to be *)
(* judged of what it has taken.                                             *)
OpenIsDue ==
  /\ passed = IF loop.holds = "all" THEN 0 ELSE Len(taken)
  /\ loop.asks = "chunks" =>
       Cardinality(WithText(taken, allowed)) <= counted % ChunkInterval
  /\ loop.asks = "text" => /\ lastLength = SumUpto(taken, allowed)
                           /\ Text(taken) < SumUpto(taken, allowed) + CharInterval

(* At any time: how much has been passed on unjudged.                       *)
PassedIsJudged ==
  /\ loop.holds = "all" => Unjudged = {}
  /\ loop.asks = "chunks" => Cardinality(Unjudged) < ChunkInterval
  /\ loop.asks = "text" =>
       \A b \in 0 .. passed - 1 : SumUpto(taken, b) < SumUpto(taken, allowed) + CharInterval
  /\ EndIsJudged

(* The inductive invariant: while the stream is open, what is still due;    *)
(* and that nothing unjudged was passed on but what the loop leaks.         *)
StreamsInv ==
  /\ StreamsTypes
  /\ ending = "open" => OpenIsDue
  /\ PassedIsJudged

(* The chunks with text are finitely many, ...                              *)
LEMMA WithTextIsFinite ==
  ASSUME NEW s \in Seq(Nat), NEW a \in Nat
  PROVE  IsFiniteSet(WithText(s, a))
<1>1. Len(s) \in Nat /\ WithText(s, a) \subseteq a + 1 .. Len(s)
  BY LenProperties DEF WithText
<1>2. IsFiniteSet(a + 1 .. Len(s))
  BY <1>1, FS_Interval
<1> QED BY <1>1, <1>2, FS_Subset

(* A chunk more is at most one chunk with text more.                        *)
LEMMA WithTextGrows ==
  ASSUME NEW s \in Seq(Nat), NEW x \in Nat, NEW a \in 0 .. Len(s)
  PROVE  /\ Cardinality(WithText(Append(s, x), a)) <= Cardinality(WithText(s, a)) + 1
         /\ x = 0 => WithText(Append(s, x), a) = WithText(s, a)
         /\ Cardinality(WithText(s, a)) \in Nat
<1> DEFINE t == Append(s, x)
<1>1. /\ Len(t) = Len(s) + 1 /\ Len(s) \in Nat
      /\ \A k \in 1 .. Len(s) : t[k] = s[k]
      /\ t[Len(s) + 1] = x
  BY AppendProperties, LenProperties
<1> HIDE DEF t
<1>2. \A i : i \in WithText(t, a) <=> i \in WithText(s, a) \/ (i = Len(s) + 1 /\ x > 0)
  <2>1. \A i \in a + 1 .. Len(s) + 1 : i \in a + 1 .. Len(s) \/ i = Len(s) + 1
    BY <1>1
  <2>2. \A i \in a + 1 .. Len(s) : i \in 1 .. Len(s) /\ i \in a + 1 .. Len(s) + 1
    BY <1>1
  <2>3. Len(s) + 1 \in a + 1 .. Len(s) + 1
    BY <1>1
  <2> QED BY <1>1, <2>1, <2>2, <2>3 DEF WithText
<1>3. IsFiniteSet(WithText(s, a)) /\ Cardinality(WithText(s, a)) \in Nat
  BY WithTextIsFinite, FS_CardinalityType
<1>4. CASE x = 0
  <2>0. \A i : i \in WithText(t, a) <=> i \in WithText(s, a)
    BY <1>2, <1>4
  <2>1. WithText(t, a) = WithText(s, a)
    BY <2>0, Zenon
  <2> QED BY <1>3, <2>1 DEF t
<1>5. CASE x > 0
  <2>0. \A i : i \in WithText(t, a) <=> i \in WithText(s, a) \cup {Len(s) + 1}
    BY <1>2, <1>5
  <2>1. WithText(t, a) = WithText(s, a) \cup {Len(s) + 1}
    BY <2>0, Zenon
  <2> DEFINE W == WithText(s, a)
  <2>2. Cardinality(W \cup {Len(s) + 1}) = IF Len(s) + 1 \in W THEN Cardinality(W)
                                          ELSE Cardinality(W) + 1
    BY <1>3, FS_AddElement
  <2>3. Cardinality(WithText(t, a)) <= Cardinality(W) + 1
    BY <1>3, <2>1, <2>2
  <2> QED BY <1>3, <1>5, <2>3 DEF t
<1> QED BY <1>4, <1>5

(* ... none are left behind the last, ...                                   *)
LEMMA NothingWithText ==
  ASSUME NEW s \in Seq(Nat)
  PROVE  WithText(s, Len(s)) = {} /\ Cardinality(WithText(s, Len(s))) = 0
<1>1. WithText(s, Len(s)) = {}
  BY LenProperties DEF WithText
<1> QED BY <1>1, FS_EmptySet

(* ... and those unjudged are among those not yet allowed.                  *)
LEMMA UnjudgedIsWithText ==
  ASSUME StreamsTypes
  PROVE  /\ Unjudged \subseteq WithText(taken, allowed)
         /\ passed = Len(taken) => Unjudged = WithText(taken, allowed)
         /\ Cardinality(Unjudged) <= Cardinality(WithText(taken, allowed))
         /\ Cardinality(Unjudged) \in Nat
         /\ passed = 0 => Unjudged = {}
<1>1. Unjudged \subseteq WithText(taken, allowed)
  BY DEF StreamsTypes, Unjudged, WithText
<1>2. IsFiniteSet(WithText(taken, allowed))
  BY WithTextIsFinite DEF StreamsTypes
<1>3. /\ Cardinality(Unjudged) <= Cardinality(WithText(taken, allowed))
      /\ Cardinality(Unjudged) \in Nat
  BY <1>1, <1>2, FS_Subset, FS_CardinalityType
<1>4. passed = 0 => Unjudged = {}
  BY DEF StreamsTypes, Unjudged
<1> QED BY <1>1, <1>3, <1>4 DEF Unjudged, WithText
(* An open stream whose judgements are made when due has not leaked.        *)
LEMMA OpenHasNotLeaked == StreamsTypes /\ OpenIsDue /\ ending = "open" => PassedIsJudged
<1> SUFFICES ASSUME StreamsTypes, OpenIsDue, ending = "open" PROVE PassedIsJudged
  OBVIOUS
<1>1. loop.holds = "late" <=> loop.asks = "text"
  BY LoopShapes DEF StreamsTypes
<1>2. loop.holds = "all" => Unjudged = {}
  BY UnjudgedIsWithText DEF OpenIsDue
<1>3. ASSUME loop.asks = "chunks" PROVE Cardinality(Unjudged) < ChunkInterval
  <2>1. /\ Cardinality(Unjudged) <= Cardinality(WithText(taken, allowed))
        /\ Cardinality(Unjudged) \in Nat
    BY UnjudgedIsWithText
  <2>2. Cardinality(WithText(taken, allowed)) \in Nat
    BY WithTextIsFinite, FS_CardinalityType DEF StreamsTypes
  <2>3. counted % ChunkInterval \in 0 .. ChunkInterval - 1 /\ ChunkInterval \in Nat
    BY CountGoesOn, StreamsAssumption DEF StreamsTypes
  <2>4. Cardinality(WithText(taken, allowed)) <= counted % ChunkInterval
    BY <1>3 DEF OpenIsDue
  <2> QED BY <2>1, <2>2, <2>3, <2>4
<1>4. ASSUME loop.asks = "text", NEW b \in 0 .. passed - 1
      PROVE  SumUpto(taken, b) < SumUpto(taken, allowed) + CharInterval
  <2>1. b \in 0 .. Len(taken) /\ Len(taken) \in b .. Len(taken)
    BY <1>4, LenProperties DEF StreamsTypes
  <2>2. SumUpto(taken, b) <= SumUpto(taken, Len(taken))
    BY <2>1, SumUptoGrows DEF StreamsTypes
  <2>3. Text(taken) < SumUpto(taken, allowed) + CharInterval
    BY <1>4 DEF OpenIsDue
  <2>4. /\ SumUpto(taken, b) \in Nat /\ SumUpto(taken, Len(taken)) \in Nat
        /\ SumUpto(taken, allowed) \in Nat /\ Text(taken) = SumUpto(taken, Len(taken))
    BY <2>1, SumUptoType, TextIsSum, LenProperties DEF StreamsTypes
  <2> QED BY <2>2, <2>3, <2>4, StreamsAssumption
<1>5. EndIsJudged
  BY DEF EndIsJudged
<1> QED BY <1>2, <1>3, <1>4, <1>5 DEF PassedIsJudged

(* The same of the next state.                                              *)
LEMMA OpenHasNotLeakedThen == (StreamsTypes /\ OpenIsDue /\ ending = "open" => PassedIsJudged)'
BY OpenHasNotLeaked, PTL

(* A loop starts with no chunk taken.                                       *)
LEMMA StreamsInvInit == ASSUME ProviderInit PROVE StreamsInv
<1>1. taken = <<>> /\ Len(taken) = 0 /\ counted = 0 /\ passed = 0 /\ allowed = 0
      /\ lastLength = 0 /\ ending = "open" /\ loop \in Loops /\ taken \in Seq(Nat)
  BY EmptySeq DEF ProviderInit
<1>2. StreamsTypes
  BY <1>1 DEF StreamsTypes
<1>3. WithText(taken, 0) = {}
  BY <1>1 DEF WithText
<1>4. Cardinality(WithText(taken, allowed)) = 0
  BY <1>1, <1>3, FS_EmptySet
<1>5. counted % ChunkInterval \in 0 .. ChunkInterval - 1
  BY <1>1, CountGoesOn, StreamsAssumption
<1>6. SumUpto(taken, 0) = 0
  BY <1>1, LenProperties, SumUptoNext
<1>7. Text(taken) = 0
  BY <1>1, <1>6, TextIsSum
<1>8. OpenIsDue
  BY <1>1, <1>4, <1>5, <1>6, <1>7, StreamsAssumption DEF OpenIsDue
<1> QED BY <1>1, <1>2, <1>8, OpenHasNotLeaked DEF StreamsInv
(* A chunk that is taken adds to what is due.                               *)
LEMMA AnotherChunk ==
  ASSUME StreamsInv, NEW size \in Nat, taken' = Append(taken, size), UNCHANGED allowed
  PROVE  /\ taken' \in Seq(Nat) /\ Len(taken') = Len(taken) + 1 /\ Len(taken) \in Nat
         /\ Cardinality(WithText(taken', allowed)) <= Cardinality(WithText(taken, allowed)) + 1
         /\ Cardinality(WithText(taken', allowed)) \in Nat
         /\ Cardinality(WithText(taken, allowed)) \in Nat
         /\ size = 0 => Cardinality(WithText(taken', allowed))
                          = Cardinality(WithText(taken, allowed))
         /\ \A k \in 0 .. Len(taken) : SumUpto(taken', k) = SumUpto(taken, k)
         /\ SumUpto(taken', allowed) = SumUpto(taken, allowed)
         /\ SumUpto(taken, allowed) \in Nat
         /\ Text(taken') = Text(taken) + size /\ Text(taken) \in Nat
<1>1. taken \in Seq(Nat) /\ Len(taken) \in Nat /\ allowed \in 0 .. Len(taken)
  BY LenProperties DEF StreamsInv, StreamsTypes
<1>2. /\ taken' \in Seq(Nat) /\ Len(taken') = Len(taken) + 1
      /\ \A k \in 0 .. Len(taken) : SumUpto(taken', k) = SumUpto(taken, k)
      /\ Text(taken') = Text(taken) + size
  BY <1>1, TextGrows
<1>3. Text(taken) \in Nat /\ SumUpto(taken, allowed) \in Nat
  BY <1>1, TextIsSum, SumUptoType
<1>4. /\ Cardinality(WithText(taken', allowed)) <= Cardinality(WithText(taken, allowed)) + 1
      /\ size = 0 => WithText(taken', allowed) = WithText(taken, allowed)
      /\ Cardinality(WithText(taken, allowed)) \in Nat
  BY <1>1, WithTextGrows
<1>5. Cardinality(WithText(taken', allowed)) \in Nat
  <2>1. taken' \in Seq(Nat) /\ allowed \in Nat
    BY <1>1, <1>2
  <2>2. IsFiniteSet(WithText(taken', allowed))
    BY <2>1, WithTextIsFinite
  <2> QED BY <2>2, FS_CardinalityType
<1> QED BY <1>1, <1>2, <1>3, <1>4, <1>5

(* An allowing verdict leaves nothing due.                                  *)
LEMMA AllowedIsCovered ==
  ASSUME StreamsInv, loop' = loop, taken' \in Seq(Nat), counted' \in Nat, Allow
  PROVE  /\ allowed' \in 0 .. Len(taken')
         /\ loop.asks = "chunks" =>
              Cardinality(WithText(taken', allowed')) <= counted' % ChunkInterval
         /\ loop.asks = "text" => /\ lastLength' = SumUpto(taken', allowed')
                                  /\ Text(taken') < SumUpto(taken', allowed') + CharInterval
<1>1. allowed' = Len(taken') /\ lastLength' = Text(taken') /\ Len(taken') \in Nat
  BY LenProperties DEF Allow
<1>2. Cardinality(WithText(taken', allowed')) = 0
  BY <1>1, NothingWithText
<1>3. counted' % ChunkInterval \in 0 .. ChunkInterval - 1
  BY CountGoesOn, StreamsAssumption
<1>4. Text(taken') = SumUpto(taken', allowed') /\ SumUpto(taken', allowed') \in Nat
  BY <1>1, TextIsSum, SumUptoType
<1> QED BY <1>1, <1>2, <1>3, <1>4, StreamsAssumption

(* A chunk without text goes by, and is not judged.                         *)
LEMMA PassesByStep ==
  ASSUME StreamsInv, ending = "open", PassesBy(0), ~loop.empties, loop' = loop
  PROVE  StreamsInv'
<1>1. /\ taken' = Append(taken, 0) /\ passed' = Len(taken')
      /\ UNCHANGED <<counted, ending, allowed, lastLength>>
  BY DEF PassesBy, Unasked
<1>2. loop.holds # "all"
  BY LoopShapes DEF StreamsInv, StreamsTypes
<1>3. /\ taken' \in Seq(Nat) /\ Len(taken') = Len(taken) + 1 /\ Len(taken) \in Nat
      /\ Cardinality(WithText(taken', allowed)) = Cardinality(WithText(taken, allowed))
      /\ SumUpto(taken', allowed) = SumUpto(taken, allowed)
      /\ Text(taken') = Text(taken) + 0 /\ Text(taken) \in Nat
  BY <1>1, AnotherChunk
<1>4. StreamsTypes'
  BY <1>1, <1>3 DEF StreamsInv, StreamsTypes
<1>5. OpenIsDue'
  BY <1>1, <1>2, <1>3 DEF StreamsInv, OpenIsDue
<1> QED BY <1>1, <1>4, <1>5, OpenHasNotLeakedThen DEF StreamsInv

(* The stream ends, and nothing more is passed on.                          *)
LEMMA EndsAsItIs ==
  ASSUME StreamsInv, ending' \notin {"open", "clean"},
         UNCHANGED <<loop, taken, passed>>, counted' \in Nat,
         allowed' \in {allowed, Len(taken)}
  PROVE  StreamsInv'
<1>1. /\ taken \in Seq(Nat) /\ Len(taken) \in Nat /\ passed \in 0 .. Len(taken)
      /\ allowed \in 0 .. Len(taken) /\ allowed' \in allowed .. Len(taken)
  BY LenProperties DEF StreamsInv, StreamsTypes
<1>2. StreamsTypes'
  BY <1>1 DEF StreamsInv, StreamsTypes
<1>3. Unjudged' \subseteq Unjudged
  BY <1>1 DEF Unjudged
<1>4. IsFiniteSet(Unjudged)
  <2>1. IsFiniteSet(WithText(taken, allowed)) /\ Unjudged \subseteq WithText(taken, allowed)
    BY <1>1, WithTextIsFinite, UnjudgedIsWithText DEF StreamsInv
  <2> QED BY <2>1, FS_Subset
<1>5. Cardinality(Unjudged') <= Cardinality(Unjudged) /\ Cardinality(Unjudged') \in Nat
      /\ Cardinality(Unjudged) \in Nat
  BY <1>3, <1>4, FS_Subset, FS_CardinalityType
<1>6. /\ SumUpto(taken, allowed) <= SumUpto(taken, allowed')
      /\ SumUpto(taken, allowed) \in Nat /\ SumUpto(taken, allowed') \in Nat
      /\ \A b \in 0 .. passed - 1 : SumUpto(taken, b) \in Nat
  BY <1>1, SumUptoGrows, SumUptoType
<1>7. PassedIsJudged'
  <2>1. PassedIsJudged
    BY DEF StreamsInv
  <2>2. loop'.holds = "all" => Unjudged' = {}
    BY <1>3, <2>1 DEF PassedIsJudged
  <2>3. loop'.asks = "chunks" => Cardinality(Unjudged') < ChunkInterval
    BY <1>5, <2>1, StreamsAssumption DEF PassedIsJudged
  <2>4. loop'.asks = "text" => \A b \in 0 .. passed' - 1 :
                                 SumUpto(taken', b) < SumUpto(taken', allowed') + CharInterval
    BY <1>6, <2>1, StreamsAssumption DEF PassedIsJudged
  <2>5. EndIsJudged'
    BY DEF EndIsJudged
  <2> QED BY <2>2, <2>3, <2>4, <2>5 DEF PassedIsJudged
<1> QED BY <1>2, <1>7 DEF StreamsInv

(* A chunk is taken while no judgement is due, or with an allowing one.     *)
LEMMA TakesOn ==
  ASSUME StreamsInv, ending = "open", NEW size \in Nat, taken' = Append(taken, size),
         counted' = counted + 1, loop' = loop, PassOn, ending' = ending,
         Allow \/ (~Due /\ Unasked)
  PROVE  StreamsInv'
<1>1. taken' \in Seq(Nat) /\ Len(taken') = Len(taken) + 1 /\ Len(taken) \in Nat
  BY TextGrows, LenProperties DEF StreamsInv, StreamsTypes
<1>2. passed' = IF loop.holds = "all" THEN 0 ELSE Len(taken')
  BY DEF PassOn, StreamsInv, OpenIsDue
<1>3. counted \in Nat /\ counted' \in Nat
  BY DEF StreamsInv, StreamsTypes
<1>4. /\ allowed' \in 0 .. Len(taken')
      /\ loop.asks = "chunks" =>
           Cardinality(WithText(taken', allowed')) <= counted' % ChunkInterval
      /\ loop.asks = "text" => /\ lastLength' = SumUpto(taken', allowed')
                               /\ Text(taken') < SumUpto(taken', allowed') + CharInterval
  <2>1. CASE Allow
    BY <1>1, <1>3, <2>1, AllowedIsCovered
  <2>2. CASE ~Due /\ Unasked
    <3>1. UNCHANGED <<allowed, lastLength>>
      BY <2>2 DEF Unasked
    <3>2. /\ Cardinality(WithText(taken', allowed)) <= Cardinality(WithText(taken, allowed)) + 1
          /\ Cardinality(WithText(taken', allowed)) \in Nat
          /\ Cardinality(WithText(taken, allowed)) \in Nat
          /\ SumUpto(taken', allowed) = SumUpto(taken, allowed)
          /\ Text(taken') = Text(taken) + size /\ Text(taken) \in Nat
          /\ SumUpto(taken, allowed) \in Nat
      BY <3>1, AnotherChunk
    <3>3. allowed' \in 0 .. Len(taken')
      BY <1>1, <3>1 DEF StreamsInv, StreamsTypes
    <3>4. ASSUME loop.asks = "chunks"
          PROVE  Cardinality(WithText(taken', allowed')) <= counted' % ChunkInterval
      <4>1. counted' % ChunkInterval # 0
        BY <2>2, <3>4 DEF Due
      <4>2. counted' % ChunkInterval = (counted % ChunkInterval) + 1
            /\ counted % ChunkInterval \in 0 .. ChunkInterval - 1
        BY <1>3, <4>1, CountGoesOn, StreamsAssumption
      <4>3. Cardinality(WithText(taken, allowed)) <= counted % ChunkInterval
        BY <3>4 DEF StreamsInv, OpenIsDue
      <4> QED BY <3>1, <3>2, <4>2, <4>3
    <3>5. ASSUME loop.asks = "text"
          PROVE  /\ lastLength' = SumUpto(taken', allowed')
                 /\ Text(taken') < SumUpto(taken', allowed') + CharInterval
      <4>1. ~ (Text(taken') - lastLength >= CharInterval)
        BY <2>2, <3>5 DEF Due
      <4>2. lastLength = SumUpto(taken, allowed)
        BY <3>5 DEF StreamsInv, OpenIsDue
      <4>3. Text(taken') \in Nat
        BY <3>2
      <4> QED BY <3>1, <3>2, <4>1, <4>2, <4>3, StreamsAssumption
    <3> QED BY <3>3, <3>4, <3>5
  <2> QED BY <2>1, <2>2
<1>5. StreamsTypes'
  BY <1>1, <1>2, <1>3, <1>4 DEF StreamsInv, StreamsTypes
<1>6. OpenIsDue'
  BY <1>2, <1>4 DEF OpenIsDue
<1> QED BY <1>5, <1>6, OpenHasNotLeakedThen DEF StreamsInv

(* A chunk is taken with a refusal: one that yields first has passed it on. *)
LEMMA TakesRefused ==
  ASSUME StreamsInv, ending = "open", NEW size \in Nat, taken' = Append(taken, size),
         counted' = counted + 1, loop' = loop, Due, Refuse,
         ending' = loop.refused,
         IF loop.holds = "late" THEN PassOn ELSE UNCHANGED passed
  PROVE  StreamsInv'
<1>1. /\ ending' \notin {"open", "clean"}
      /\ loop.holds = "late" <=> loop.asks = "text"
      /\ loop.holds = "all" => loop.asks = "never"
      /\ loop.asks \in {"chunks", "text"}
  <2>1. loop \in Loops
    BY DEF StreamsInv, StreamsTypes
  <2>2. loop.asks \in {"chunks", "text"}
    BY DEF Due
  <2> QED BY <2>1, <2>2, LoopShapes
<1>2. UNCHANGED allowed /\ loop.holds # "all"
  BY <1>1 DEF Refuse
<1>3. /\ taken' \in Seq(Nat) /\ Len(taken') = Len(taken) + 1 /\ Len(taken) \in Nat
      /\ \A k \in 0 .. Len(taken) : SumUpto(taken', k) = SumUpto(taken, k)
      /\ SumUpto(taken', allowed) = SumUpto(taken, allowed)
      /\ SumUpto(taken, allowed) \in Nat /\ Text(taken) \in Nat
  BY <1>2, AnotherChunk
<1>4. StreamsTypes'
  BY <1>2, <1>3 DEF StreamsInv, StreamsTypes, PassOn
<1>5. ASSUME loop.asks = "chunks" PROVE Cardinality(Unjudged') < ChunkInterval
  <2>1. passed' = passed /\ passed \in 0 .. Len(taken)
    BY <1>1, <1>5 DEF StreamsInv, StreamsTypes
  <2>2. \A i \in 1 .. Len(taken) : taken'[i] = taken[i]
    BY AppendProperties DEF StreamsInv, StreamsTypes
  <2>3. Unjudged' = Unjudged
    <3>1. \A i \in allowed + 1 .. passed : taken'[i] = taken[i]
      BY <2>1, <2>2 DEF StreamsInv, StreamsTypes
    <3> QED BY <1>2, <2>1, <3>1 DEF Unjudged
  <2> QED BY <1>5, <2>3 DEF StreamsInv, PassedIsJudged
<1>6. ASSUME loop.asks = "text", NEW b \in 0 .. passed' - 1
      PROVE  SumUpto(taken', b) < SumUpto(taken', allowed') + CharInterval
  <2>1. passed' = Len(taken')
    BY <1>1, <1>6 DEF PassOn
  <2>2. b \in 0 .. Len(taken) /\ Len(taken) \in b .. Len(taken)
    BY <1>3, <1>6, <2>1
  <2>3. SumUpto(taken, b) <= SumUpto(taken, Len(taken)) /\ SumUpto(taken, b) \in Nat
        /\ Text(taken) = SumUpto(taken, Len(taken))
    BY <2>2, SumUptoGrows, SumUptoType, TextIsSum DEF StreamsInv, StreamsTypes
  <2>4. Text(taken) < SumUpto(taken, allowed) + CharInterval
    BY <1>6 DEF StreamsInv, OpenIsDue
  <2>5. SumUpto(taken', b) = SumUpto(taken, b)
    BY <1>3, <2>2
  <2> QED BY <1>2, <1>3, <2>3, <2>4, <2>5, StreamsAssumption
<1>7. EndIsJudged'
  BY <1>1 DEF EndIsJudged
<1> QED BY <1>1, <1>2, <1>4, <1>5, <1>6, <1>7 DEF StreamsInv, PassedIsJudged

(* The provider's stream ends and all goes out, judged or without text.     *)
LEMMA EndsClean ==
  ASSUME StreamsInv, ending = "open", UNCHANGED <<loop, taken, counted>>, ReleaseAll,
         ending' = "clean", Allow \/ (~TailOwed /\ Unasked)
  PROVE  StreamsInv'
<1>1. /\ taken \in Seq(Nat) /\ Len(taken) \in Nat /\ passed' = Len(taken)
      /\ allowed \in 0 .. Len(taken) /\ loop \in Loops
  BY LenProperties DEF StreamsInv, StreamsTypes, ReleaseAll
<1>2. allowed' \in {allowed, Len(taken)}
  BY DEF Allow, Unasked
<1>3. StreamsTypes'
  BY <1>1, <1>2 DEF StreamsInv, StreamsTypes
<1>4. Unjudged' = WithText(taken, allowed')
  BY <1>1 DEF Unjudged, WithText
<1>5. /\ allowed' # Len(taken) => ~TailOwed /\ allowed' = allowed
      /\ loop.holds = "all" => loop.tail = "whole"
      /\ loop.tail \in {"always", "whole", "rest", "none"}
      /\ loop.tail = "rest" => loop.asks = "text"
  BY <1>1, LoopShapes DEF Allow, Unasked
<1>6. ASSUME loop.tail # "none" PROVE WithText(taken, allowed') = {}
  <2>1. CASE allowed' = Len(taken)
    BY <1>1, <2>1, NothingWithText
  <2>2. CASE allowed' # Len(taken)
    <3>1. ~TailOwed /\ allowed' = allowed
      BY <1>5, <2>2
    <3>2. Len(taken) \in allowed .. Len(taken) /\ 0 \in 0 .. Len(taken)
          /\ allowed \in 0 .. Len(taken) /\ Len(taken) \in 0 .. Len(taken)
      BY <1>1
    <3>3. /\ Text(taken) = SumUpto(taken, Len(taken)) /\ SumUpto(taken, Len(taken)) \in Nat
          /\ SumUpto(taken, allowed) \in Nat
          /\ SumUpto(taken, allowed) <= SumUpto(taken, Len(taken))
          /\ SumUpto(taken, 0) <= SumUpto(taken, allowed)
          /\ SumUpto(taken, 0) = 0
          /\ SumUpto(taken, allowed) = SumUpto(taken, Len(taken)) =>
               \A i \in allowed + 1 .. Len(taken) : taken[i] = 0
      <4>1. /\ Text(taken) = SumUpto(taken, Len(taken)) /\ SumUpto(taken, Len(taken)) \in Nat
            /\ SumUpto(taken, allowed) \in Nat
        BY <1>1, <3>2, SumUptoType, TextIsSum
      <4>2. /\ SumUpto(taken, allowed) <= SumUpto(taken, Len(taken))
            /\ SumUpto(taken, allowed) = SumUpto(taken, Len(taken)) =>
                 \A i \in allowed + 1 .. Len(taken) : taken[i] = 0
        BY <1>1, <3>2, SumUptoGrows
      <4>3. SumUpto(taken, 0) <= SumUpto(taken, allowed)
        BY <1>1, <3>2, SumUptoGrows
      <4>4. SumUpto(taken, 0) = 0
        BY <1>1, LenProperties, SumUptoNext
      <4> QED BY <4>1, <4>2, <4>3, <4>4
    <3>4. SumUpto(taken, allowed) = SumUpto(taken, Len(taken))
      <4>1. CASE loop.tail = "whole"
        <5>1. ~ (Text(taken) > 0)
          BY <3>1, <4>1 DEF TailOwed
        <5> QED BY <3>3, <5>1
      <4>2. CASE loop.tail = "rest"
        <5>1. ~ (Text(taken) > lastLength) /\ lastLength = SumUpto(taken, allowed)
          BY <1>5, <3>1, <4>2 DEF TailOwed, StreamsInv, OpenIsDue
        <5> QED BY <3>3, <5>1
      <4> QED BY <1>5, <1>6, <3>1, <4>1, <4>2 DEF TailOwed
    <3> QED BY <3>1, <3>3, <3>4 DEF WithText
  <2> QED BY <2>1, <2>2
<1>7. EndIsJudged'
  BY <1>1, <1>4, <1>6 DEF EndIsJudged
<1>8. loop'.holds = "all" => Unjudged' = {}
  BY <1>4, <1>5, <1>6
<1>9. ASSUME loop.asks = "chunks" PROVE Cardinality(Unjudged') < ChunkInterval
  <2>1. CASE allowed' = Len(taken)
    BY <1>1, <1>4, <2>1, NothingWithText, StreamsAssumption
  <2>2. CASE allowed' = allowed
    <3>1. Cardinality(WithText(taken, allowed)) <= counted % ChunkInterval
      BY <1>9 DEF StreamsInv, OpenIsDue
    <3>2. Cardinality(WithText(taken, allowed)) \in Nat
      BY <1>1, WithTextIsFinite, FS_CardinalityType
    <3>3. counted % ChunkInterval \in 0 .. ChunkInterval - 1
      BY CountGoesOn, StreamsAssumption DEF StreamsInv, StreamsTypes
    <3> QED BY <1>4, <2>2, <3>1, <3>2, <3>3, StreamsAssumption
  <2> QED BY <1>2, <2>1, <2>2
<1>10. ASSUME loop.asks = "text", NEW b \in 0 .. passed' - 1
       PROVE  SumUpto(taken', b) < SumUpto(taken', allowed') + CharInterval
  <2>1. b \in 0 .. Len(taken) /\ Len(taken) \in b .. Len(taken) /\ Len(taken) \in allowed .. Len(taken)
    BY <1>1, <1>10
  <2>2. SumUpto(taken, b) <= SumUpto(taken, Len(taken)) /\ SumUpto(taken, b) \in Nat
        /\ Text(taken) = SumUpto(taken, Len(taken)) /\ SumUpto(taken, Len(taken)) \in Nat
        /\ SumUpto(taken, allowed) \in Nat
    BY <1>1, <2>1, SumUptoGrows, SumUptoType, TextIsSum
  <2>3. Text(taken) < SumUpto(taken, allowed) + CharInterval
    BY <1>10 DEF StreamsInv, OpenIsDue
  <2>4. SumUpto(taken, b) < SumUpto(taken, allowed) + CharInterval
        /\ SumUpto(taken, b) < SumUpto(taken, Len(taken)) + CharInterval
    BY <2>2, <2>3, StreamsAssumption
  <2> QED BY <1>2, <2>4
<1> QED BY <1>3, <1>7, <1>8, <1>9, <1>10 DEF StreamsInv, PassedIsJudged

(* Every step of the loop keeps the invariant.                              *)
LEMMA StreamsInvStep == ASSUME StreamsInv, [ProviderNext]_providerVars PROVE StreamsInv'
<1>1. /\ loop \in Loops /\ loop.refused \notin {"open", "clean"}
      /\ loop.late \notin {"open", "clean"} /\ loop.full \notin {"open", "clean"}
      /\ counted \in Nat
  BY LoopShapes DEF StreamsInv, StreamsTypes
<1>2. CASE UNCHANGED providerVars
  BY <1>2 DEF providerVars, StreamsInv, StreamsTypes, OpenIsDue, PassedIsJudged, EndIsJudged,
     Unjudged
<1>3. ASSUME NEW size \in Sizes, ChunkArrives(size) PROVE StreamsInv'
  <2>1. size \in Nat /\ ending = "open" /\ loop' = loop
    BY <1>3, StreamsAssumption DEF ChunkArrives
  <2>2. CASE size = 0 /\ ~loop.empties
    BY <1>3, <2>1, <2>2, PassesByStep DEF ChunkArrives
  <2>3. CASE TooMuch(size)
    BY <1>1, <2>1, <2>3, EndsAsItIs DEF TooMuch, Unasked, End
  <2>4. CASE Takes(size)
    <3>1. taken' = Append(taken, size) /\ counted' = counted + 1
      BY <2>4 DEF Takes
    <3>2. CASE PassOn /\ ending' = ending /\ (Allow \/ (~Due /\ Unasked))
      BY <2>1, <3>1, <3>2, TakesOn
    <3>3. CASE /\ Due /\ Refuse /\ ending' = loop.refused
               /\ IF loop.holds = "late" THEN PassOn ELSE UNCHANGED passed
      BY <2>1, <3>1, <3>3, TakesRefused
    <3> QED BY <2>4, <3>2, <3>3 DEF Takes, End
  <2> QED BY <1>3, <2>2, <2>3, <2>4 DEF ChunkArrives
<1>4. CASE UpstreamEnds
  <2>1. ending = "open" /\ UNCHANGED <<loop, taken, counted>>
    BY <1>4 DEF UpstreamEnds
  <2>2. CASE ReleaseAll /\ ending' = "clean" /\ (Allow \/ (~TailOwed /\ Unasked))
    BY <2>1, <2>2, EndsClean
  <2>3. CASE Refuse /\ ending' = loop.late /\ UNCHANGED passed
    BY <1>1, <2>1, <2>3, EndsAsItIs DEF Refuse
  <2> QED BY <1>4, <2>2, <2>3 DEF UpstreamEnds, End
<1>5. CASE UpstreamFails
  <2>1. ending' = "error" /\ UNCHANGED <<loop, taken, counted, passed>>
        /\ allowed' \in {allowed, Len(taken)}
    BY <1>5 DEF UpstreamFails, End, Allow, Refuse, Unasked
  <2> QED BY <1>1, <2>1, EndsAsItIs
<1>6. CASE ReaderLeaves
  BY <1>1, <1>6, EndsAsItIs DEF ReaderLeaves, End
<1> QED BY <1>2, <1>3, <1>4, <1>5, <1>6 DEF ProviderNext

(* The invariant bounds what leaks, and what a clean end leaves unjudged.   *)
LEMMA StreamsInvSuffices == ASSUME StreamsInv PROVE LeakIsBounded /\ EndIsJudged
<1>1. /\ taken \in Seq(Nat) /\ Len(taken) \in Nat /\ passed \in 0 .. Len(taken)
      /\ allowed \in 0 .. Len(taken)
  BY LenProperties DEF StreamsInv, StreamsTypes
<1>2. ASSUME loop.asks = "text"
      PROVE  Text(SubSeq(taken, allowed + 1, passed - 1)) < CharInterval
  <2>1. CASE allowed <= passed - 1
    <3>1. SumUpto(taken, passed - 1)
            = SumUpto(taken, allowed) + Text(SubSeq(taken, allowed + 1, passed - 1))
      BY <1>1, <2>1, TextOfStretch
    <3>2. passed - 1 \in 0 .. passed - 1 /\ passed - 1 \in 0 .. Len(taken)
      BY <1>1, <2>1
    <3>3. SumUpto(taken, passed - 1) < SumUpto(taken, allowed) + CharInterval
      BY <1>2, <3>2 DEF StreamsInv, PassedIsJudged
    <3>4. SumUpto(taken, passed - 1) \in Nat /\ SumUpto(taken, allowed) \in Nat
      BY <1>1, <3>2, SumUptoType
    <3>5. SubSeq(taken, allowed + 1, passed - 1) \in Seq(Nat)
      <4>1. \A i \in allowed + 1 .. passed - 1 : taken[i] \in Nat
        BY <1>1, LenProperties
      <4> QED BY <1>1, <4>1, SubSeqProperties
    <3>6. Text(SubSeq(taken, allowed + 1, passed - 1)) \in Nat
      <4>1. \A s \in Seq(Nat) : Text(s) \in Nat
        BY TextIsSum, SumUptoType, LenProperties
      <4> QED BY <3>5, <4>1
    <3> QED BY <3>1, <3>3, <3>4, <3>6, StreamsAssumption
  <2>2. CASE ~(allowed <= passed - 1)
    <3>1. SubSeq(taken, allowed + 1, passed - 1) = <<>>
      BY <1>1, <2>2, SubSeqEmpty
    <3>2. <<>> \in Seq(Nat) /\ Len(<<>>) = 0 /\ DOMAIN <<>> = 1 .. 0
      BY EmptySeq, LenProperties
    <3>3. Text(<<>>) = 0
      BY <3>2, TextIsSum, SumUptoNext
    <3>4. Text(SubSeq(taken, allowed + 1, passed - 1)) = 0
      BY <3>1, <3>3, Zenon
    <3> QED BY <3>4, StreamsAssumption
  <2> QED BY <2>1, <2>2
<1> QED BY <1>2 DEF StreamsInv, PassedIsJudged, LeakIsBounded

(* The text that reaches the application before it is judged is less than   *)
(* an interval, and none of it when the stream is held back, for any sizes  *)
(* of chunks, intervals and limits.                                         *)
THEOREM LeaksAreBounded == ProviderSpec => []LeakIsBounded
<1>1. ProviderInit => StreamsInv
  BY StreamsInvInit
<1>2. StreamsInv /\ [ProviderNext]_providerVars => StreamsInv'
  BY StreamsInvStep
<1>3. StreamsInv => LeakIsBounded
  BY StreamsInvSuffices
<1> QED BY <1>1, <1>2, <1>3, PTL DEF ProviderSpec

(* A stream that ends as streams do has been judged to its last character.  *)
THEOREM EndsAreJudged == ProviderSpec => []EndIsJudged
<1>1. ProviderInit => StreamsInv
  BY StreamsInvInit
<1>2. StreamsInv /\ [ProviderNext]_providerVars => StreamsInv'
  BY StreamsInvStep
<1>3. StreamsInv => EndIsJudged
  BY StreamsInvSuffices
<1> QED BY <1>1, <1>2, <1>3, PTL DEF ProviderSpec

(* A refusal has ended the stream.                                          *)
RefusedInv == loop \in Loops /\ (refusedOnce => ending # "open")

(* After a refusal no step of the loop passes anything on.                  *)
LEMMA RefusedInvStep ==
  ASSUME RefusedInv, [ProviderNext]_providerVars
  PROVE  RefusedInv' /\ (refusedOnce => passed' = passed)
<1>1. loop \in Loops /\ loop' = loop
  BY DEF RefusedInv, ProviderNext, ChunkArrives, UpstreamEnds, UpstreamFails,
     ReaderLeaves, providerVars
<1>2. loop.refused # "open" /\ loop.late # "open"
  BY <1>1, LoopShapes
<1>3. ASSUME NEW size \in Sizes, ChunkArrives(size)
      PROVE  ~refusedOnce /\ (refusedOnce' => ending' # "open")
  BY <1>2, <1>3 DEF RefusedInv, ChunkArrives, PassesBy, TooMuch, Takes, Allow, Refuse,
     Unasked, End
<1>4. ASSUME UpstreamEnds \/ UpstreamFails \/ ReaderLeaves
      PROVE  ~refusedOnce /\ (refusedOnce' => ending' # "open")
  BY <1>2, <1>4 DEF RefusedInv, UpstreamEnds, UpstreamFails, ReaderLeaves, Allow,
     Refuse, Unasked, End
<1>5. CASE UNCHANGED providerVars
  BY <1>5 DEF RefusedInv, providerVars
<1> QED BY <1>1, <1>3, <1>4, <1>5 DEF RefusedInv, ProviderNext

(* Once the engine has refused, nothing more reaches the application, in    *)
(* each of the seventeen loops and whatever comes from the provider.        *)
THEOREM ProviderRefusalIsFinal == ProviderSpec => RefusalIsFinal
<1>1. ProviderInit => RefusedInv
  BY DEF ProviderInit, RefusedInv
<1>2. RefusedInv /\ [ProviderNext]_providerVars => RefusedInv'
  BY RefusedInvStep
<1>3. RefusedInv /\ [ProviderNext]_providerVars
        => [refusedOnce => passed' = passed]_providerVars
  BY RefusedInvStep
<1> QED BY <1>1, <1>2, <1>3, PTL DEF ProviderSpec, RefusalIsFinal

-----------------------------------------------------------------------------
(* The single calls.                                                        *)

(* What the gates of every wrapper have in common: one that keeps parts for *)
(* the sake of another part, or returns what it did not judge, is the last, *)
(* and judges all it reaches or refuses what it cannot judge.               *)
PieceKinds == {"asked", "context", "text", "others", "calls", "documents", "parts"}

(* The gates of the wrappers.                                               *)
GateRecords ==
  [of : SUBSET PieceKinds, by : {"all", "each"},
   no : {"ends", "drops", "dropsWhole", "blanks", "replaces"},
   fails : {"refuses", "throws", "passes"}]

(* A gate that blanks the answer or drops it whole is the last of its leg.  *)
Orderly(gates) ==
  /\ gates \in Seq(GateRecords)
  /\ \A g \in 1 .. Len(gates) :
       /\ gates[g].no = "blanks" => g = Len(gates) /\ gates[g].by = "all"
       /\ gates[g].no = "dropsWhole" => g = Len(gates) /\ gates[g].fails = "refuses"

(* A refused request is not sent: all a gate before the call can do is end  *)
(* it.                                                                      *)
EndsOnly(gates) == \A g \in 1 .. Len(gates) : gates[g].no = "ends"

(* Wrappers have at most two gates on either side of the call.              *)
LEMMA NoGate == Orderly(<<>>) /\ EndsOnly(<<>>)
BY DEF Orderly, EndsOnly

(* A leg with one gate is orderly, ...                                      *)
LEMMA OneGate ==
  ASSUME NEW of \in SUBSET PieceKinds, NEW by \in {"all", "each"},
         NEW no \in {"ends", "drops", "dropsWhole", "blanks", "replaces"},
         NEW fails \in {"refuses", "throws", "passes"},
         no = "blanks" => by = "all", no = "dropsWhole" => fails = "refuses"
  PROVE  /\ Orderly(<<Judging(of, by, no, fails)>>)
         /\ no = "ends" => EndsOnly(<<Judging(of, by, no, fails)>>)
<1> DEFINE a == Judging(of, by, no, fails)
<1>1. a \in GateRecords /\ a.no = no /\ a.by = by /\ a.fails = fails
  BY DEF Judging, GateRecords
<1> HIDE DEF a
<1>2. <<a>> \in Seq(GateRecords) /\ Len(<<a>>) = 1 /\ <<a>>[1] = a
  BY <1>1
<1>3. Orderly(<<a>>) /\ (no = "ends" => EndsOnly(<<a>>))
  BY <1>1, <1>2 DEF Orderly, EndsOnly
<1> QED BY <1>3 DEF a

(* ... so is one with two, whose first neither blanks nor drops the whole,  *)
(* ...                                                                      *)
LEMMA TwoGates ==
  ASSUME NEW of1 \in SUBSET PieceKinds, NEW by1 \in {"all", "each"},
         NEW no1 \in {"ends", "drops", "replaces"},
         NEW fails1 \in {"refuses", "throws", "passes"},
         NEW of2 \in SUBSET PieceKinds, NEW by2 \in {"all", "each"},
         NEW no2 \in {"ends", "replaces"},
         NEW fails2 \in {"refuses", "throws", "passes"}
  PROVE  /\ Orderly(<<Judging(of1, by1, no1, fails1), Judging(of2, by2, no2, fails2)>>)
         /\ no1 = "ends" /\ no2 = "ends" =>
              EndsOnly(<<Judging(of1, by1, no1, fails1), Judging(of2, by2, no2, fails2)>>)
<1> DEFINE a == Judging(of1, by1, no1, fails1)
           b == Judging(of2, by2, no2, fails2)
<1>1. a \in GateRecords /\ a.no = no1 /\ b \in GateRecords /\ b.no = no2
  BY DEF Judging, GateRecords
<1> HIDE DEF a, b
<1>2. <<a, b>> \in Seq(GateRecords) /\ Len(<<a, b>>) = 2
      /\ <<a, b>>[1] = a /\ <<a, b>>[2] = b
  BY <1>1
<1>3. Orderly(<<a, b>>) /\ (no1 = "ends" /\ no2 = "ends" => EndsOnly(<<a, b>>))
  BY <1>1, <1>2 DEF Orderly, EndsOnly
<1> QED BY <1>3 DEF a, b

(* ... and so are both legs of all wrappers; what one refuses before the    *)
(* call ends it.                                                            *)
LEMMA WrappersAreOrderly ==
  ASSUME NEW w \in Wrappers
  PROVE  Orderly(w.before) /\ EndsOnly(w.before) /\ Orderly(w.after)
<1> DEFINE Fine(f) == Orderly(f.before) /\ EndsOnly(f.before) /\ Orderly(f.after)
<1>0. /\ Asked \in SUBSET PieceKinds /\ Whole \in SUBSET PieceKinds
      /\ First \in SUBSET PieceKinds /\ {"context"} \in SUBSET PieceKinds
      /\ {"documents"} \in SUBSET PieceKinds
      /\ {"documents", "parts"} \in SUBSET PieceKinds
      /\ {"calls"} \in SUBSET PieceKinds
      /\ {"text", "others"} \in SUBSET PieceKinds
      /\ {"text", "others", "calls"} \in SUBSET PieceKinds
  BY DEF Asked, Whole, First, PieceKinds
<1> USE <1>0, NoGate, OneGate, TwoGates DEF Wrapper, Timed, Bare, Lenient
<1>1. Fine(OpenAIChat) /\ Fine(OllamaChat) /\ Fine(OllamaGenerate)
      /\ Fine(AnthropicMessages) /\ Fine(HuggingFace)
  BY ZenonT(60) DEF OpenAIChat, OllamaChat, OllamaGenerate, AnthropicMessages, HuggingFace
<1>2. Fine(MistralChat) /\ Fine(MistralFim) /\ Fine(MistralInputs) /\ Fine(InferenceChat)
  BY ZenonT(60) DEF MistralChat, MistralFim, MistralInputs, InferenceChat, MistralReply
<1>3. Fine(VercelGenerate) /\ Fine(VercelAgent) /\ Fine(VercelMCP) /\ Fine(BonkMiddleware)
  BY ZenonT(60) DEF VercelGenerate, VercelAgent, VercelMCP, BonkMiddleware
<1>4. Fine(GoogleGenerate) /\ Fine(GoogleChat) /\ Fine(LiveMessage)
      /\ Fine(LiveSend("all")) /\ Fine(LiveSend("each"))
  BY ZenonT(60) DEF GoogleGenerate, GoogleChat, LiveMessage, LiveSend
<1>5. Fine(AgentsRun) /\ Fine(AgentsTool) /\ Fine(AgentsHandoff) /\ Fine(LangChain)
  BY ZenonT(60) DEF AgentsRun, AgentsTool, AgentsHandoff, LangChain
<1>6. Fine(LlamaQuery) /\ Fine(LlamaRetriever("drops")) /\ Fine(LlamaRetriever("ends"))
      /\ Fine(GenkitFlow) /\ Fine(MastraAgent) /\ Fine(CopilotAction)
  BY ZenonT(60) DEF LlamaQuery, LlamaRetriever, GenkitFlow, MastraAgent, CopilotAction
<1>7. Fine(McpTool) /\ Fine(CloudflareState) /\ Fine(CloudflareRows) /\ Fine(VoltAgent)
      /\ Fine(Memory)
  BY ZenonT(60) DEF McpTool, CloudflareState, CloudflareRows, VoltAgent, Memory
<1>8. Fine(Sandbox("refuses")) /\ Fine(Sandbox("passes")) /\ Fine(BrowserTask)
      /\ Fine(BrowserExtract) /\ Fine(BrowserTool)
  BY ZenonT(60) DEF Sandbox, BrowserTask, BrowserExtract, BrowserTool
<1>9. Fine(SigningAction) /\ Fine(ExtractedText) /\ Fine(WebhookRoute)
  BY ZenonT(60) DEF SigningAction, ExtractedText, WebhookRoute
<1> HIDE DEF Fine
<1>10. Fine(w)
  BY <1>1, <1>2, <1>3, <1>4, <1>5, <1>6, <1>7, <1>8, <1>9 DEF Wrappers
<1> QED BY <1>10 DEF Fine

(* What is known of piece p at gate g once the gate is behind it.           *)
Settled(g, p) ==
  \/ <<g, p>> \in cleared \cup excused
  \/ /\ Gates[g].no = "dropsWhole" /\ pieces[p] = "parts"
     /\ \E q \in onward : pieces[q] = "parts" /\ <<g, q>> \in cleared

(* What is known of it at the gate it is before, once it has been judged.   *)
JudgedHere(p) ==
  \/ <<gate, p>> \in cleared \cup excused
  \/ Gates[gate].no = "dropsWhole" /\ p \in banned

(* What went on past a gate was settled there, what has been judged at the  *)
(* present gate was accepted, excused or awaits the verdict on its parts;   *)
(* what does not go on was refused.                                         *)
CallInv ==
  /\ wrapper \in Wrappers
  /\ leg \in {"asking", "calling", "answering", "returned", "thrown"}
  /\ DOMAIN pieces \subseteq Nat \ {0} /\ onward \subseteq DOMAIN pieces /\ gate \in Nat \ {0}
  /\ leg \in {"asking", "calling", "answering"} => DOMAIN pieces \ onward \subseteq banned
  /\ leg = "calling" => gate \notin DOMAIN Gates
  /\ leg # "thrown" => \A g \in DOMAIN Gates, p \in onward :
       pieces[p] \in Gates[g].of =>
         /\ g < gate \/ leg = "returned" => Settled(g, p)
         /\ g = gate /\ ~(p > upto) /\ leg # "returned" => JudgedHere(p)
  /\ leg # "thrown" => \A g \in DOMAIN Gates, p \in DOMAIN pieces :
       <<g, p>> \in excused => Gates[g].fails = "passes"

(* The gates of the leg a call is on.                                       *)
LEMMA GatesFacts ==
  ASSUME CallInv
  PROVE  /\ Gates \in Seq(GateRecords) /\ DOMAIN Gates = 1 .. Len(Gates)
         /\ Len(Gates) \in Nat /\ Orderly(Gates)
         /\ leg \in {"asking", "calling"} => EndsOnly(Gates)
<1>1. Orderly(Gates) /\ (leg \in {"asking", "calling"} => EndsOnly(Gates))
  BY WrappersAreOrderly DEF CallInv, Gates
<1>2. Gates \in Seq(GateRecords)
  BY <1>1 DEF Orderly
<1> QED BY <1>1, <1>2

(* A call starts before its first gate, with all of its pieces.             *)
LEMMA CallInvInit == ASSUME GuardedInit PROVE CallInv
<1>1. /\ wrapper \in Wrappers /\ leg = "asking" /\ onward = DOMAIN pieces /\ gate = 1
      /\ upto = 0 /\ excused = {}
  BY DEF GuardedInit
<1>2. PICK n \in 0 .. MaxPieces : pieces \in [1 .. n -> Kinds(wrapper.before)]
  BY DEF GuardedInit, Pieces
<1>3. DOMAIN pieces \subseteq Nat \ {0} /\ \A p \in DOMAIN pieces : p > 0
  BY <1>2, GuardedAssumption
<1>4. DOMAIN Gates \subseteq Nat \ {0}
  <2>1. Orderly(Gates)
    BY <1>1, WrappersAreOrderly DEF Gates
  <2> QED BY <2>1 DEF Orderly
<1>5. \A g \in DOMAIN Gates : ~(g < gate)
  BY <1>1, <1>4
<1> QED BY <1>1, <1>3, <1>5 DEF CallInv

(* A judgement is of pieces the gate has not seen; what it leaves behind    *)
(* was in it or was judged before.                                          *)
LEMMA JudgementFacts ==
  ASSUME CallInv, AtGate, Left # {}
  PROVE  /\ Judged \subseteq Left /\ Left \subseteq onward
         /\ \A p \in onward : pieces[p] \in Gates[gate].of /\ ~(p > Beyond(Judged))
                                => p \in Judged \/ ~(p > upto)
         /\ \A p \in onward : pieces[p] \in Gates[gate].of /\ Gates[gate].by = "all"
                                => p \in Judged \/ ~(p > upto)
<1>1. Left \subseteq onward /\ Left \subseteq Nat
  BY DEF Left, CallInv
<1>2. CASE Gates[gate].by = "all"
  <2>1. Judged = Left
    BY <1>2 DEF Judged
  <2> QED BY <1>1, <2>1 DEF Left
<1>3. CASE Gates[gate].by # "all"
  <2>1. Judged = {Foremost}
    BY <1>3 DEF Judged
  <2>2. Foremost \in Left /\ \A q \in Left : Foremost <= q
    BY <1>1, LeastNumber DEF Foremost
  <2>3. Beyond({Foremost}) = Foremost
    BY <1>1, <2>2 DEF Beyond
  <2>4. ASSUME NEW p \in onward, pieces[p] \in Gates[gate].of, ~(p > Foremost), p > upto
        PROVE  p = Foremost
    <3>1. p \in Left
      BY <2>4 DEF Left
    <3> QED BY <1>1, <2>2, <2>4, <3>1
  <2> QED BY <1>1, <1>3, <2>1, <2>2, <2>3, <2>4
<1> QED BY <1>2, <1>3

(* A gate that keeps parts for the sake of another is the last.             *)
LEMMA EarlierGates ==
  ASSUME CallInv, gate \in DOMAIN Gates, NEW g \in DOMAIN Gates, g < gate
  PROVE  Gates[g].no # "dropsWhole"
<1>1. Orderly(Gates) /\ DOMAIN Gates = 1 .. Len(Gates) /\ Len(Gates) \in Nat
  BY GatesFacts
<1>2. Gates[g].no = "dropsWhole" => g = Len(Gates)
  BY <1>1, Zenon DEF Orderly
<1>3. g # Len(Gates)
  BY <1>1
<1> QED BY <1>2, <1>3

(* A gate accepts what it judged, or lets it by when it fails and is        *)
(* lenient.                                                                 *)
LEMMA AcceptsStep ==
  ASSUME CallInv, AtGate, Left # {},
         Accepts \/ (Gates[gate].fails = "passes" /\ Excuses)
  PROVE  CallInv'
<1>1. UNCHANGED <<wrapper, leg, pieces, gate, banned, onward>> /\ Gates' = Gates
  BY DEF Accepts, Excuses, Gates
<1>2. upto' = Beyond(Judged) /\ leg \in {"asking", "answering"} /\ gate \in DOMAIN Gates
  BY DEF Accepts, Excuses, AtGate
<1>3. /\ cleared \cup excused \subseteq cleared' \cup excused'
      /\ \A p \in Judged : <<gate, p>> \in cleared' \cup excused'
      /\ cleared \subseteq cleared'
  BY DEF Accepts, Excuses
<1>4. ASSUME NEW g \in DOMAIN Gates, NEW p \in onward, pieces[p] \in Gates[g].of
      PROVE  /\ g < gate => Settled(g, p)'
             /\ g = gate /\ ~(p > upto') => JudgedHere(p)'
  <2>1. g < gate => Settled(g, p)'
    BY <1>1, <1>2, <1>3, <1>4 DEF CallInv, Settled
  <2>2. ASSUME g = gate, ~(p > upto') PROVE JudgedHere(p)'
    <3>1. p \in Judged \/ ~(p > upto)
      BY <1>2, <1>4, <2>2, JudgementFacts
    <3>2. ~(p > upto) => JudgedHere(p)
      BY <1>2, <1>4, <2>2 DEF CallInv
    <3> QED BY <1>1, <1>3, <3>1, <3>2 DEF JudgedHere
  <2> QED BY <2>1, <2>2
<1>5. ASSUME NEW g \in DOMAIN Gates, NEW p \in DOMAIN pieces, <<g, p>> \in excused'
      PROVE  Gates[g].fails = "passes"
  <2>1. <<g, p>> \in excused \/ (Gates[gate].fails = "passes" /\ g = gate)
    BY <1>5 DEF Accepts, Excuses
  <2> QED BY <1>2, <1>5, <2>1 DEF CallInv
<1> QED BY <1>1, <1>2, <1>4, <1>5 DEF CallInv

(* A gate refuses what it judged.                                           *)
LEMMA TurnsDownStep ==
  ASSUME CallInv, AtGate, Left # {}, TurnsDown
  PROVE  CallInv'
<1>1. /\ UNCHANGED <<wrapper, pieces, gate, cleared, excused>>
      /\ banned' = banned \cup Judged
  BY DEF TurnsDown
<1>2. /\ leg \in {"asking", "answering"} /\ gate \in DOMAIN Gates
      /\ Gates \in Seq(GateRecords) /\ DOMAIN Gates = 1 .. Len(Gates) /\ Len(Gates) \in Nat
      /\ Orderly(Gates) /\ (leg = "asking" => EndsOnly(Gates))
  BY GatesFacts DEF AtGate
<1>3. Judged \subseteq onward
  BY JudgementFacts
<1>4. Gates[gate].no \in {"ends", "drops", "dropsWhole", "blanks", "replaces"}
  <2>1. Gates[gate] \in GateRecords
    BY <1>2
  <2> QED BY <2>1 DEF GateRecords
<1>5. ASSUME NEW g \in DOMAIN Gates, NEW p \in onward, pieces[p] \in Gates[g].of, g < gate
      PROVE  <<g, p>> \in cleared \cup excused
  <2>1. Settled(g, p)
    BY <1>2, <1>5 DEF CallInv
  <2>2. Gates[g].no # "dropsWhole"
    BY <1>2, <1>5, EarlierGates
  <2> QED BY <2>1, <2>2 DEF Settled
<1>6. CASE Gates[gate].no = "ends"
  <2>1. leg' = "thrown" /\ onward' = {}
    BY <1>6 DEF TurnsDown
  <2> QED BY <1>1, <2>1 DEF CallInv
<1>7. CASE Gates[gate].no = "replaces"
  <2>1. leg' = "returned" /\ onward' = {} /\ leg = "answering"
    BY <1>2, <1>7 DEF TurnsDown, EndsOnly
  <2>2. Gates' = Gates
    BY <1>1, <2>1 DEF Gates
  <2> QED BY <1>1, <2>1, <2>2 DEF CallInv
<1>8. CASE Gates[gate].no = "blanks"
  <2>1. leg' = "returned" /\ onward' = onward \ Judged /\ leg = "answering"
    BY <1>2, <1>8 DEF TurnsDown, EndsOnly
  <2>2. Gates' = Gates
    BY <1>1, <2>1 DEF Gates
  <2>3. gate = Len(Gates) /\ Gates[gate].by = "all"
    BY <1>2, <1>8, Zenon DEF Orderly
  <2>4. ASSUME NEW g \in DOMAIN Gates, NEW p \in onward \ Judged, pieces[p] \in Gates[g].of
        PROVE  <<g, p>> \in cleared \cup excused
    <3>1. CASE g = gate
      <4>1. ~(p > upto)
        BY <2>3, <2>4, <3>1, JudgementFacts
      <4>2. JudgedHere(p)
        BY <1>2, <2>4, <3>1, <4>1 DEF CallInv
      <4> QED BY <1>8, <3>1, <4>2 DEF JudgedHere
    <3>2. CASE g # gate
      BY <1>2, <1>5, <2>3, <2>4, <3>2
    <3> QED BY <3>1, <3>2
  <2>5. ASSUME NEW g \in DOMAIN Gates, NEW p \in onward \ Judged, pieces[p] \in Gates[g].of
        PROVE  Settled(g, p)'
    BY <1>1, <2>4, <2>5 DEF Settled
  <2> QED BY <1>1, <2>1, <2>2, <2>5 DEF CallInv
<1>9. CASE Gates[gate].no \in {"drops", "dropsWhole"}
  <2>1. /\ UNCHANGED leg /\ upto' = Beyond(Judged)
        /\ onward' = onward \/ (Gates[gate].no = "drops" /\ onward' = onward \ Judged)
        /\ Gates[gate].no = "dropsWhole" \/ onward' = onward \ Judged
    BY <1>9 DEF TurnsDown
  <2>2. Gates' = Gates
    BY <1>1, <2>1 DEF Gates
  <2>3. ASSUME NEW g \in DOMAIN Gates, NEW p \in onward', pieces[p] \in Gates[g].of
        PROVE  /\ g < gate => Settled(g, p)'
               /\ g = gate /\ ~(p > upto') => JudgedHere(p)'
    <3>1. p \in onward
      BY <2>1
    <3>2. g < gate => Settled(g, p)'
      BY <1>1, <1>5, <2>3, <3>1 DEF Settled
    <3>3. ASSUME g = gate, ~(p > upto') PROVE JudgedHere(p)'
      <4>1. p \in Judged \/ ~(p > upto)
        BY <2>1, <2>3, <3>1, <3>3, JudgementFacts
      <4>2. ~(p > upto) => JudgedHere(p)
        BY <1>2, <2>3, <3>1, <3>3 DEF CallInv
      <4>3. p \in Judged => Gates[gate].no = "dropsWhole" /\ p \in banned'
        BY <1>1, <2>1, <2>3
      <4> QED BY <1>1, <2>2, <4>1, <4>2, <4>3 DEF JudgedHere
    <3> QED BY <3>2, <3>3
  <2> QED BY <1>1, <1>2, <2>1, <2>2, <2>3 DEF CallInv
<1> QED BY <1>4, <1>6, <1>7, <1>8, <1>9

(* A gate with nothing left to judge passes on what survives it.            *)
LEMMA PassesGateStep ==
  ASSUME CallInv, PassesGate
  PROVE  CallInv'
<1>1. /\ UNCHANGED <<wrapper, leg, pieces, cleared, excused, banned>> /\ Gates' = Gates
      /\ gate' = gate + 1 /\ onward' = Survivors /\ Left = {}
      /\ leg \in {"asking", "answering"} /\ gate \in DOMAIN Gates
  BY DEF PassesGate, AtGate, Gates
<1>2. /\ DOMAIN Gates = 1 .. Len(Gates) /\ Len(Gates) \in Nat /\ Orderly(Gates)
  BY GatesFacts
<1>3. Survivors \subseteq onward /\ onward \ Survivors \subseteq banned
  BY DEF Survivors
<1>4. ASSUME NEW p \in onward, pieces[p] \in Gates[gate].of
      PROVE  JudgedHere(p)
  <2>1. ~(p > upto)
    BY <1>1, <1>4 DEF Left
  <2> QED BY <1>1, <1>4, <2>1 DEF CallInv
<1>5. ASSUME NEW g \in DOMAIN Gates, g = gate,
             NEW p \in Survivors, pieces[p] \in Gates[g].of
      PROVE  Settled(g, p)'
  <2>1. CASE <<gate, p>> \in cleared \cup excused
    BY <1>1, <1>5, <2>1 DEF Settled
  <2>2. CASE Gates[gate].no = "dropsWhole" /\ p \in banned
    <3>1. PICK q \in DOMAIN pieces : pieces[p] = "parts" /\ pieces[q] = "parts" /\ q \notin banned
      BY <2>2 DEF Survivors
    <3>2. q \in onward /\ q \in Survivors
      BY <1>1, <3>1 DEF CallInv, Survivors
    <3>3. JudgedHere(q)
      BY <1>4, <1>5, <3>1, <3>2
    <3>4. Gates[gate].fails = "refuses"
      BY <1>1, <1>2, <2>2, Zenon DEF Orderly
    <3>5. <<gate, q>> \notin excused
      BY <1>1, <3>1, <3>4 DEF CallInv
    <3>6. <<gate, q>> \in cleared
      BY <3>1, <3>3, <3>5 DEF JudgedHere
    <3> QED BY <1>1, <1>5, <2>2, <3>1, <3>2, <3>6 DEF Settled
  <2> QED BY <1>3, <1>4, <1>5, <2>1, <2>2 DEF JudgedHere
<1>6. ASSUME NEW g \in DOMAIN Gates, NEW p \in Survivors, pieces[p] \in Gates[g].of, g < gate
      PROVE  Settled(g, p)'
  <2>1. Settled(g, p)
    BY <1>1, <1>3, <1>6 DEF CallInv
  <2>2. Gates[g].no # "dropsWhole"
    BY <1>1, <1>6, EarlierGates
  <2> QED BY <1>1, <2>1, <2>2 DEF Settled
<1>7. ASSUME NEW g \in DOMAIN Gates, NEW p \in onward', pieces[p] \in Gates[g].of
      PROVE  /\ g < gate' => Settled(g, p)'
             /\ g = gate' /\ ~(p > upto') => JudgedHere(p)'
  <2>1. g < gate' => Settled(g, p)'
    BY <1>1, <1>2, <1>5, <1>6, <1>7 DEF CallInv
  <2>2. p > upto'
    BY <1>1, <1>3, <1>7 DEF CallInv, PassesGate
  <2> QED BY <2>1, <2>2
<1> QED BY <1>1, <1>3, <1>7 DEF CallInv

(* A call that throws passes on nothing.                                    *)
LEMMA ThrowsStep == ASSUME CallInv, Throws PROVE CallInv'
BY DEF CallInv, Throws

(* Behind the last gate everything that goes on is settled.                 *)
LEMMA AllSettled ==
  ASSUME CallInv, leg \in {"asking", "calling", "answering"}, gate \notin DOMAIN Gates,
         NEW g \in DOMAIN Gates, NEW p \in onward, pieces[p] \in Gates[g].of
  PROVE  Settled(g, p)
<1>1. DOMAIN Gates = 1 .. Len(Gates) /\ Len(Gates) \in Nat /\ gate \in Nat \ {0}
  BY GatesFacts DEF CallInv
<1>2. g < gate
  BY <1>1
<1> QED BY <1>2 DEF CallInv

(* Behind the last gate the call goes out.                                  *)
LEMMA CallsOutStep == ASSUME CallInv, CallsOut PROVE CallInv'
<1>1. /\ UNCHANGED <<wrapper, pieces, gate, upto, cleared, excused, banned, onward>>
      /\ leg = "asking" /\ leg' = "calling" /\ gate \notin DOMAIN Gates
  BY DEF CallsOut
<1>2. Gates' = Gates
  BY <1>1 DEF Gates
<1>3. \A g, p : Settled(g, p) <=> Settled(g, p)'
  BY <1>1, <1>2 DEF Settled
<1>4. \A g \in DOMAIN Gates : g # gate
  BY <1>1
<1>5. \A g \in DOMAIN Gates, p \in onward : pieces[p] \in Gates[g].of => Settled(g, p)
  BY <1>1, AllSettled
<1> QED BY <1>1, <1>2, <1>3, <1>4, <1>5 DEF CallInv

(* Behind the last gate of the way back the answer is handed over.          *)
LEMMA HandsOverStep == ASSUME CallInv, HandsOver PROVE CallInv'
<1>1. /\ UNCHANGED <<wrapper, pieces, gate, upto, cleared, excused, banned, onward>>
      /\ leg = "answering" /\ leg' = "returned" /\ gate \notin DOMAIN Gates
  BY DEF HandsOver
<1>2. Gates' = Gates
  BY <1>1 DEF Gates
<1>3. \A g, p : Settled(g, p) <=> Settled(g, p)'
  BY <1>1, <1>2 DEF Settled
<1>4. \A g \in DOMAIN Gates, p \in onward : pieces[p] \in Gates[g].of => Settled(g, p)
  BY <1>1, AllSettled
<1> QED BY <1>1, <1>2, <1>3, <1>4 DEF CallInv

(* A reply starts its way back before the first gate.                       *)
LEMMA ReplyStep == ASSUME CallInv, ReplyComes PROVE CallInv'
<1>1. CASE Throws
  BY <1>1, ThrowsStep
<1>2. ASSUME leg' = "answering", UNCHANGED wrapper,
             NEW ps \in Pieces(wrapper.after), Faces(ps)
      PROVE  CallInv'
  <2>1. /\ pieces' = ps /\ onward' = DOMAIN ps /\ gate' = 1 /\ upto' = 0
        /\ excused' = {} /\ wrapper' \in Wrappers
    BY <1>2 DEF Faces, CallInv
  <2>2. PICK n \in 0 .. MaxPieces : ps \in [1 .. n -> Kinds(wrapper.after)]
    BY DEF Pieces
  <2>3. DOMAIN ps \subseteq Nat \ {0} /\ \A p \in DOMAIN ps : p > 0
    BY <2>2, GuardedAssumption
  <2>4. Gates' = wrapper.after
    BY <1>2 DEF Gates
  <2>5. DOMAIN wrapper.after \subseteq Nat \ {0}
    BY WrappersAreOrderly DEF CallInv, Orderly
  <2>6. \A g \in DOMAIN Gates' : ~(g < 1)
    BY <2>4, <2>5
  <2> QED BY <1>2, <2>1, <2>3, <2>6 DEF CallInv
<1> QED BY <1>1, <1>2 DEF ReplyComes

(* Every step of a call keeps the invariant.                                *)
LEMMA CallInvStep == ASSUME CallInv, [GuardedNext]_guardedVars PROVE CallInv'
<1>1. CASE Judgement
  <2>1. AtGate /\ Left # {}
    BY <1>1 DEF Judgement
  <2>2. \/ Accepts
        \/ TurnsDown
        \/ Throws
        \/ Gates[gate].fails = "passes" /\ Excuses
    BY <1>1 DEF Judgement
  <2> QED BY <2>1, <2>2, AcceptsStep, TurnsDownStep, ThrowsStep
<1>2. CASE UNCHANGED guardedVars
  <2>1. /\ UNCHANGED <<wrapper, leg, pieces, gate, upto, cleared, excused, banned, onward>>
        /\ Gates' = Gates
    BY <1>2 DEF guardedVars, Gates
  <2>2. \A g, p : (Settled(g, p) <=> Settled(g, p)') /\ (JudgedHere(p) <=> JudgedHere(p)')
    BY <2>1 DEF Settled, JudgedHere
  <2> QED BY <2>1, <2>2 DEF CallInv
<1> QED BY <1>1, <1>2, PassesGateStep, CallsOutStep, ReplyStep, HandsOverStep DEF GuardedNext

(* What is settled with every gate was accepted by every gate that judges   *)
(* it.                                                                      *)
LEMMA CallInvSuffices == ASSUME CallInv PROVE OnlyAcceptedGoesOn
<1>1. ASSUME NEW p \in (IF leg = "calling" THEN onward ELSE Seen), NEW g \in DOMAIN Gates,
             pieces[p] \in Gates[g].of, p \in onward
      PROVE  Settled(g, p)
  <2>1. CASE leg = "calling"
    BY <1>1, <2>1, AllSettled DEF CallInv
  <2>2. CASE leg # "calling"
    BY <1>1, <2>2 DEF Seen, CallInv
  <2> QED BY <2>1, <2>2
<1>2. ASSUME NEW p \in (IF leg = "calling" THEN onward ELSE Seen), p \notin onward
      PROVE  wrapper.raw # "never"
  BY <1>2 DEF Seen
<1> QED BY <1>1, <1>2 DEF OnlyAcceptedGoesOn, Settled

(* Every piece of a request that is sent and of a reply that is seen was    *)
(* accepted by every gate of its wrapper that reaches its kind, for the     *)
(* gates of forty-one wrappers, requests and replies of any length and any  *)
(* answers of the engine; the exceptions are those OnlyAcceptedGoesOn       *)
(* names.                                                                   *)
THEOREM CallsAreJudged == GuardedSpec => []OnlyAcceptedGoesOn
<1>1. GuardedInit => CallInv
  BY CallInvInit
<1>2. CallInv /\ [GuardedNext]_guardedVars => CallInv'
  BY CallInvStep
<1>3. CallInv => OnlyAcceptedGoesOn
  BY CallInvSuffices
<1> QED BY <1>1, <1>2, <1>3, PTL DEF GuardedSpec

-----------------------------------------------------------------------------
(* The vector stores.                                                       *)

(* The type invariant.                                                      *)
StoreTypes ==
  /\ connector \in Connectors /\ way \in Ways
  /\ rows \in Seq(Rows) /\ place \in 0 .. Len(rows)
  /\ verdicts \in Seq({"allowed", "refused"}) /\ blockedCount \in Nat
  /\ kept \in Seq(Nat) /\ described \in Seq(Nat)

(* The refused of the first n rows; and the verdicts are those of the first *)
(* n.                                                                       *)
RefusedOf(n) == {i \in 1 .. n : verdicts[i] = "refused"}

(* The rows judged so far are n.                                            *)
SoFar(n) == Len(verdicts) = n

(* The places ks keeps of the first n, in their order, by the verdicts vs.  *)
Keeps(ks, vs, n, w) ==
  /\ \A k \in 1 .. Len(ks) : ks[k] \in 1 .. n
  /\ \A k \in 1 .. Len(ks) : w = "redact" \/ vs[ks[k]] = "allowed"
  /\ \A i \in 1 .. n : w = "redact" \/ vs[i] = "allowed"
                      => \E k \in 1 .. Len(ks) : ks[k] = i
  /\ \A j, k \in 1 .. Len(ks) : j < k => ks[j] < ks[k]
  /\ Len(ks) <= n
  /\ Len(ks) = n => \A k \in 1 .. Len(ks) : ks[k] = k

(* What is kept so far.                                                     *)
KeptInOrder == Keeps(kept, verdicts, place, way)

(* The other columns and the count.                                         *)
ColumnsFollow ==
  /\ (\A k \in 1 .. Len(kept) : rows[kept[k]].described) => described = kept
  /\ connector.columns => redacted = IF way = "redact" THEN RefusedOf(place) ELSE {}
  /\ IsFiniteSet(RefusedOf(place)) /\ blockedCount = Cardinality(RefusedOf(place))

(* The inductive invariant, phase by phase.                                 *)
StoreInv ==
  /\ StoreTypes
  /\ phase \in {"asking", "rows", "done", "writing", "written", "thrown"}
  /\ phase = "asking" => /\ place = 0 /\ verdicts = <<>> /\ kept = <<>>
                         /\ described = <<>> /\ redacted = {} /\ blockedCount = 0
  /\ phase \in {"rows", "done"} => SoFar(place) /\ KeptInOrder /\ ColumnsFollow
  /\ phase = "rows" /\ way = "nobody" => place = 0
  /\ phase \in {"writing", "written"} =>
       SoFar(place) /\ \A i \in 1 .. place : verdicts[i] = "allowed"
  /\ phase \in {"done", "written"} => place = Len(rows)

(* One place more that is kept ...                                          *)
LEMMA KeepsOneMore ==
  ASSUME NEW n \in Nat, NEW ks, NEW ks2, NEW vs, NEW vs2, NEW w, Keeps(ks, vs, n, w),
         Len(ks) \in Nat, Len(ks2) = Len(ks) + 1, ks2[Len(ks) + 1] = n + 1,
         \A k \in 1 .. Len(ks) : ks2[k] = ks[k], \A i \in 1 .. n : vs2[i] = vs[i],
         w = "redact" \/ vs2[n + 1] = "allowed"
  PROVE  Keeps(ks2, vs2, n + 1, w)
<1>1. \A k \in 1 .. Len(ks2) : k \in 1 .. Len(ks) \/ k = Len(ks) + 1
  OBVIOUS
<1>8. /\ \A k \in 1 .. Len(ks) : ks[k] \in 1 .. n
      /\ \A j, k \in 1 .. Len(ks) : j < k => ks[j] < ks[k]
  BY DEF Keeps
<1>2. \A k \in 1 .. Len(ks2) : ks2[k] \in 1 .. n + 1
  <2>1. \A k \in 1 .. Len(ks) : ks2[k] \in 1 .. n
    BY <1>8
  <2> QED BY <1>1, <2>1
<1>3. \A k \in 1 .. Len(ks2) : w = "redact" \/ vs2[ks2[k]] = "allowed"
  BY <1>1 DEF Keeps
<1>4. ASSUME NEW i \in 1 .. n + 1, w = "redact" \/ vs2[i] = "allowed"
      PROVE  \E k \in 1 .. Len(ks2) : ks2[k] = i
  <2>1. CASE i = n + 1
    BY <2>1
  <2>2. CASE i \in 1 .. n
    <3>1. PICK k \in 1 .. Len(ks) : ks[k] = i
      BY <1>4, <2>2 DEF Keeps
    <3> QED BY <3>1
  <2> QED BY <2>1, <2>2
<1>5. ASSUME NEW j \in 1 .. Len(ks2), NEW k \in 1 .. Len(ks2), j < k
      PROVE  ks2[j] < ks2[k]
  <2>1. j \in 1 .. Len(ks) /\ ks2[j] = ks[j] /\ ks[j] \in 1 .. n
    BY <1>5, <1>1, <1>8
  <2>2. CASE k = Len(ks) + 1
    BY <2>1, <2>2
  <2>3. CASE k \in 1 .. Len(ks)
    BY <1>5, <1>8, <2>1, <2>3
  <2> QED BY <1>1, <2>2, <2>3
<1>6. Len(ks2) <= n + 1
  BY DEF Keeps
<1>7. Len(ks2) = n + 1 => \A k \in 1 .. Len(ks2) : ks2[k] = k
  BY <1>1 DEF Keeps
<1> QED BY <1>2, <1>3, <1>4, <1>5, <1>6, <1>7 DEF Keeps

(* ... and one that is not.                                                 *)
LEMMA KeepsOneLess ==
  ASSUME NEW n \in Nat, NEW ks, NEW vs, NEW vs2, NEW w, Keeps(ks, vs, n, w),
         Len(ks) \in Nat, \A i \in 1 .. n : vs2[i] = vs[i],
         w # "redact", vs2[n + 1] # "allowed"
  PROVE  Keeps(ks, vs2, n + 1, w)
<1>1. \A i \in 1 .. n + 1 : i \in 1 .. n \/ i = n + 1
  OBVIOUS
<1> QED BY <1>1 DEF Keeps

(* An answer of the store is a sequence of rows.                            *)
LEMMA AnswersAreRows ==
  ASSUME NEW n \in 0 .. MaxRows, NEW s \in [1 .. n -> Rows]
  PROVE  s \in Seq(Rows)
BY RowsAssumption, IsASeq

(* At first nothing was asked.                                              *)
LEMMA StoreInvInit == ASSUME StoreInit PROVE StoreInv
BY EmptySeq DEF StoreInit, StoreInv, StoreTypes

(* Before the first row all is empty.                                       *)
LEMMA NothingJudgedYet ==
  ASSUME StoreInv, phase = "asking"
  PROVE  SoFar(0) /\ KeptInOrder /\ ColumnsFollow
<1>1. place = 0 /\ Len(kept) = 0 /\ Len(verdicts) = 0 /\ kept = <<>> /\ described = <<>>
  BY EmptySeq DEF StoreInv
<1>2. RefusedOf(0) = {}
  BY DEF RefusedOf
<1>3. KeptInOrder
  BY <1>1 DEF KeptInOrder, Keeps
<1>4. ColumnsFollow
  BY <1>1, <1>2, FS_EmptySet DEF ColumnsFollow, StoreInv
<1> QED BY <1>1, <1>3, <1>4 DEF SoFar

(* An answer comes in, of which no row is judged.                           *)
LEMMA QueryStep ==
  ASSUME StoreInv, NEW n \in 0 .. MaxRows, NEW s \in [1 .. n -> Rows], Query(s)
  PROVE  StoreInv'
<1>1. s \in Seq(Rows)
  BY AnswersAreRows
<1>2. /\ phase = "asking" /\ phase' \in {"rows", "thrown"} /\ rows' = s
      /\ UNCHANGED <<connector, way, place, verdicts, kept, described, redacted, blockedCount>>
  BY DEF Query
<1>3. place = 0 /\ kept = <<>> /\ Len(kept) = 0
  BY <1>2, EmptySeq DEF StoreInv
<1>4. StoreTypes'
  <2>1. 0 \in 0 .. Len(s)
    BY <1>1, LenProperties
  <2> QED BY <1>1, <1>2, <1>3, <2>1 DEF StoreInv, StoreTypes
<1>5. SoFar(place)' /\ KeptInOrder'
  BY <1>2, <1>3, NothingJudgedYet DEF SoFar, KeptInOrder, Keeps
<1>6. ColumnsFollow'
  <2>1. \A i : RefusedOf(i)' = RefusedOf(i)
    BY <1>2 DEF RefusedOf
  <2>2. ColumnsFollow
    BY <1>2, NothingJudgedYet
  <2>3. described' = kept'
    BY <1>2, <1>3 DEF StoreInv
  <2>4. RefusedOf(place)' = RefusedOf(place)
    BY <1>2 DEF RefusedOf
  <2> QED BY <1>2, <2>2, <2>3, <2>4 DEF ColumnsFollow
<1> QED BY <1>2, <1>3, <1>4, <1>5, <1>6 DEF StoreInv

(* So do the rows of a write.                                               *)
LEMMA StartWriteStep ==
  ASSUME StoreInv, NEW n \in 0 .. MaxRows, NEW s \in [1 .. n -> Rows], StartWrite(s)
  PROVE  StoreInv'
<1>1. s \in Seq(Rows)
  BY AnswersAreRows
<1>2. /\ phase = "asking" /\ phase' = "writing" /\ rows' = s
      /\ UNCHANGED <<connector, way, place, verdicts, kept, described, redacted, blockedCount>>
  BY DEF StartWrite
<1>3. place = 0 /\ SoFar(0)
  BY <1>2, NothingJudgedYet DEF StoreInv
<1>4. StoreTypes'
  <2>1. 0 \in 0 .. Len(s)
    BY <1>1, LenProperties
  <2> QED BY <1>1, <1>2, <1>3, <2>1 DEF StoreInv, StoreTypes
<1>5. SoFar(place)' /\ \A i \in 1 .. place' : verdicts'[i] = "allowed"
  BY <1>2, <1>3 DEF SoFar
<1> QED BY <1>2, <1>4, <1>5 DEF StoreInv

(* The verdict of a row is put after those of the rows before it.           *)
LEMMA VerdictAppended ==
  ASSUME StoreTypes, SoFar(place), place < Len(rows), place' = place + 1,
         UNCHANGED rows, NEW v \in {"allowed", "refused"}, verdicts' = Append(verdicts, v)
  PROVE  /\ verdicts' \in Seq({"allowed", "refused"})
         /\ Len(verdicts') = place + 1
         /\ \A i \in 1 .. place : verdicts'[i] = verdicts[i]
         /\ verdicts'[place + 1] = v
         /\ place' \in 0 .. Len(rows)
<1>1. verdicts \in Seq({"allowed", "refused"}) /\ Len(verdicts) = place
  BY DEF StoreTypes, SoFar
<1>2. place \in 0 .. Len(rows) /\ Len(rows) \in Nat
  BY LenProperties DEF StoreTypes
<1> QED BY <1>1, <1>2, AppendProperties

(* A row of a write is kept when allowed, and ends the write when refused.  *)
LEMMA JudgeWriteStep == ASSUME StoreInv, JudgeWrite PROVE StoreInv'
<1>1. /\ phase = "writing" /\ place < Len(rows) /\ place' = place + 1
      /\ UNCHANGED <<connector, way, rows, described, redacted, blockedCount>>
      /\ StoreTypes /\ SoFar(place)
  BY DEF JudgeWrite, StoreInv
<1>2. CASE verdicts' = Append(verdicts, "allowed") /\ kept' = Append(kept, place') /\ UNCHANGED phase
  <2>1. place' \in Nat /\ kept' \in Seq(Nat)
    BY <1>1, <1>2, AppendProperties DEF StoreTypes
  <2>2. /\ verdicts' \in Seq({"allowed", "refused"}) /\ Len(verdicts') = place + 1
        /\ \A i \in 1 .. place : verdicts'[i] = verdicts[i]
        /\ verdicts'[place + 1] = "allowed" /\ place' \in 0 .. Len(rows)
    BY <1>1, <1>2, VerdictAppended
  <2>3. StoreTypes'
    BY <1>1, <2>1, <2>2 DEF StoreTypes
  <2>4. \A i \in 1 .. place' : verdicts'[i] = "allowed"
    BY <1>1, <2>2, SMTT(40) DEF StoreInv, StoreTypes
  <2> QED BY <1>1, <1>2, <2>2, <2>3, <2>4 DEF StoreInv, SoFar
<1>3. CASE verdicts' = Append(verdicts, "refused") /\ phase' = "thrown" /\ UNCHANGED kept
  <2>1. verdicts' \in Seq({"allowed", "refused"}) /\ place' \in 0 .. Len(rows)
    BY <1>1, <1>3, VerdictAppended
  <2>2. StoreTypes'
    BY <1>1, <1>3, <2>1 DEF StoreTypes
  <2> QED BY <1>3, <2>2 DEF StoreInv
<1> QED BY <1>2, <1>3 DEF JudgeWrite

(* A row that stays is put at the end, and its metadata with it.            *)
LEMMA RowStays ==
  ASSUME StoreInv, phase = "rows", place < Len(rows), place' = place + 1,
         NEW w, way = w, way' = w, UNCHANGED rows, Stays(place'),
         NEW v \in {"allowed", "refused"}, verdicts' = Append(verdicts, v),
         w = "redact" \/ v = "allowed"
  PROVE  /\ kept' \in Seq(Nat) /\ described' \in Seq(Nat) /\ KeptInOrder'
         /\ (\A k \in 1 .. Len(kept') : rows[kept'[k]].described) => described' = kept'
<1>1. /\ kept \in Seq(Nat) /\ described \in Seq(Nat) /\ place \in Nat /\ place' \in Nat
      /\ KeptInOrder /\ ColumnsFollow /\ StoreTypes /\ SoFar(place)
  BY DEF StoreInv, StoreTypes
<1>2. /\ \A i \in 1 .. place : verdicts'[i] = verdicts[i]
      /\ verdicts'[place + 1] = v
  BY <1>1, VerdictAppended
<1>3. kept' = Append(kept, place + 1)
  BY DEF Stays
<1>4. /\ kept' \in Seq(Nat) /\ Len(kept') = Len(kept) + 1 /\ Len(kept) \in Nat
      /\ \A k \in 1 .. Len(kept) : kept'[k] = kept[k]
      /\ kept'[Len(kept) + 1] = place + 1
  BY <1>1, <1>3, AppendProperties, LenProperties
<1>5. described' \in Seq(Nat)
  BY <1>1, AppendProperties DEF Stays
<1>6. KeptInOrder'
  <2>1. w = "redact" \/ verdicts'[place + 1] = "allowed"
    BY <1>2
  <2>2. Keeps(kept, verdicts, place, w)
    BY <1>1 DEF KeptInOrder
  <2>3. Keeps(kept', verdicts', place + 1, w)
    BY <1>1, <1>2, <1>4, <2>1, <2>2, KeepsOneMore
  <2> QED BY <2>3 DEF KeptInOrder
<1>7. ASSUME \A k \in 1 .. Len(kept') : rows[kept'[k]].described PROVE described' = kept'
  <2>1. \A k \in 1 .. Len(kept) : rows[kept[k]].described
    BY <1>4, <1>7
  <2>2. described = kept
    BY <1>1, <2>1 DEF ColumnsFollow
  <2>3. rows[place'].described
    BY <1>4, <1>7
  <2> QED BY <2>2, <2>3 DEF Stays
<1> QED BY <1>4, <1>5, <1>6, <1>7

(* A refused row goes from all the columns.                                 *)
LEMMA RowGoes ==
  ASSUME StoreInv, phase = "rows", place < Len(rows), place' = place + 1,
         NEW w, way = w, way' = w, w # "redact", UNCHANGED rows, Goes,
         verdicts' = Append(verdicts, "refused")
  PROVE  /\ kept' \in Seq(Nat) /\ described' \in Seq(Nat) /\ KeptInOrder'
         /\ (\A k \in 1 .. Len(kept') : rows[kept'[k]].described) => described' = kept'
<1>1. /\ kept \in Seq(Nat) /\ described \in Seq(Nat) /\ place \in Nat
      /\ KeptInOrder /\ ColumnsFollow /\ StoreTypes /\ SoFar(place)
  BY DEF StoreInv, StoreTypes
<1>2. /\ \A i \in 1 .. place : verdicts'[i] = verdicts[i]
      /\ verdicts'[place + 1] = "refused"
  BY <1>1, VerdictAppended
<1>3. Keeps(kept, verdicts', place + 1, w)
  <2>1. Len(kept) \in Nat
    BY <1>1, LenProperties
  <2>2. Keeps(kept, verdicts, place, w)
    BY <1>1 DEF KeptInOrder
  <2>3. verdicts'[place + 1] # "allowed"
    BY <1>2
  <2> QED BY <1>1, <1>2, <2>1, <2>2, <2>3, KeepsOneLess
<1>4. kept' = kept /\ described' = described
  BY DEF Goes
<1>5. KeptInOrder'
  BY <1>3, <1>4 DEF KeptInOrder
<1> QED BY <1>1, <1>4, <1>5 DEF ColumnsFollow

(* The refused rows, one more or none more.                                 *)
LEMMA RefusedGrows ==
  ASSUME StoreTypes, SoFar(place), place < Len(rows), place' = place + 1, UNCHANGED rows,
         NEW v \in {"allowed", "refused"}, verdicts' = Append(verdicts, v),
         IsFiniteSet(RefusedOf(place))
  PROVE  /\ RefusedOf(place)' = RefusedOf(place) \cup {i \in {place + 1} : v = "refused"}
         /\ IsFiniteSet(RefusedOf(place)')
         /\ v = "refused" => Cardinality(RefusedOf(place)') = Cardinality(RefusedOf(place)) + 1
<1>1. /\ \A i \in 1 .. place : verdicts'[i] = verdicts[i]
      /\ verdicts'[place + 1] = v /\ place \in Nat
  BY VerdictAppended DEF StoreTypes
<1>2. RefusedOf(place)' = {i \in 1 .. place + 1 : verdicts'[i] = "refused"}
  BY DEF RefusedOf
<1>3. RefusedOf(place)' = RefusedOf(place) \cup {i \in {place + 1} : v = "refused"}
  <2>1. ASSUME NEW i PROVE i \in 1 .. place + 1 <=> i \in 1 .. place \/ i = place + 1
    BY <1>1
  <2>2. ASSUME NEW i \in 1 .. place + 1
        PROVE  verdicts'[i] = "refused"
                 <=> i \in RefusedOf(place) \/ i \in {j \in {place + 1} : v = "refused"}
    BY <1>1, <2>1 DEF RefusedOf
  <2> QED BY <1>2, <2>1, <2>2 DEF RefusedOf
<1>4. CASE v = "refused"
  <2>1. RefusedOf(place)' = RefusedOf(place) \cup {place + 1}
    BY <1>3, <1>4
  <2>2. place + 1 \notin RefusedOf(place)
    BY <1>1 DEF RefusedOf
  <2> HIDE DEF RefusedOf
  <2> QED BY <1>3, <1>4, <2>1, <2>2, FS_AddElement
<1>5. CASE v = "allowed"
  <2>1. RefusedOf(place)' = RefusedOf(place)
    BY <1>3, <1>5
  <2> QED BY <1>3, <1>5, <2>1
<1> QED BY <1>4, <1>5

(* A row of an answer stays, goes, is redacted or ends the query.           *)
LEMMA JudgeRowStep == ASSUME StoreInv, JudgeRow PROVE StoreInv'
<1>1. /\ phase = "rows" /\ way # "nobody" /\ place < Len(rows) /\ place' = place + 1
      /\ UNCHANGED <<connector, way, rows>>
      /\ StoreTypes /\ SoFar(place) /\ ColumnsFollow
  BY DEF JudgeRow, StoreInv
<1>2. ASSUME NEW w, way = w, way' = w, NEW v \in {"allowed", "refused"},
             verdicts' = Append(verdicts, v), phase' = "rows",
             w = "redact" \/ v = "allowed" => Stays(place'),
             ~(w = "redact" \/ v = "allowed") => Goes,
             blockedCount' = IF v = "refused" THEN blockedCount + 1 ELSE blockedCount,
             redacted' = IF v = "refused" /\ w = "redact" /\ connector.columns
                         THEN redacted \cup {place'} ELSE redacted
      PROVE  StoreInv'
  <2>1. /\ kept' \in Seq(Nat) /\ described' \in Seq(Nat) /\ KeptInOrder'
        /\ (\A k \in 1 .. Len(kept') : rows[kept'[k]].described) => described' = kept'
    <3>1. CASE w = "redact" \/ v = "allowed"
      BY <1>1, <1>2, <3>1, RowStays
    <3>2. CASE w # "redact" /\ v = "refused"
      BY <1>1, <1>2, <3>2, RowGoes
    <3> QED BY <3>1, <3>2
  <2>2. /\ verdicts' \in Seq({"allowed", "refused"}) /\ Len(verdicts') = place + 1
        /\ place' \in 0 .. Len(rows)
    BY <1>1, <1>2, VerdictAppended
  <2>3. /\ RefusedOf(place)' = RefusedOf(place) \cup {i \in {place + 1} : v = "refused"}
        /\ IsFiniteSet(RefusedOf(place)')
        /\ v = "refused" => Cardinality(RefusedOf(place)') = Cardinality(RefusedOf(place)) + 1
    BY <1>1, <1>2, RefusedGrows DEF ColumnsFollow
  <2>4. blockedCount' \in Nat /\ blockedCount' = Cardinality(RefusedOf(place)')
    <3>1. blockedCount \in Nat /\ blockedCount = Cardinality(RefusedOf(place))
      BY <1>1 DEF StoreTypes, ColumnsFollow
    <3>2. CASE v = "refused"
      BY <1>2, <2>3, <3>1, <3>2
    <3>3. CASE v = "allowed"
      <4>1. RefusedOf(place)' = RefusedOf(place)
        BY <2>3, <3>3
      <4> QED BY <1>2, <3>1, <3>3, <4>1
    <3> QED BY <3>2, <3>3
  <2>5. connector'.columns => redacted' = IF way' = "redact" THEN RefusedOf(place)' ELSE {}
    <3> SUFFICES ASSUME connector.columns
                 PROVE  redacted' = IF w = "redact" THEN RefusedOf(place)' ELSE {}
      BY <1>1, <1>2
    <3>1. redacted = IF w = "redact" THEN RefusedOf(place) ELSE {}
      BY <1>1, <1>2 DEF ColumnsFollow
    <3>2. CASE v = "refused"
      BY <1>1, <1>2, <2>3, <3>1, <3>2
    <3>3. CASE v = "allowed"
      BY <1>2, <2>3, <3>1, <3>3
    <3> QED BY <3>2, <3>3
  <2>6. ColumnsFollow'
    BY <1>1, <2>1, <2>3, <2>4, <2>5 DEF ColumnsFollow
  <2>7. StoreTypes'
    BY <1>1, <2>1, <2>2, <2>4 DEF StoreTypes
  <2> QED BY <1>1, <1>2, <2>1, <2>2, <2>6, <2>7 DEF StoreInv, SoFar
<1>3. CASE AllowRow(place')
  BY <1>1, <1>2, <1>3 DEF AllowRow
<1>4. CASE RefuseRow(place') /\ way \in {"filter", "drop"}
  BY <1>1, <1>2, <1>4 DEF RefuseRow
<1>5. CASE RefuseRow(place') /\ way \in {"abort", "block-all"}
  <2>1. /\ phase' = "thrown" /\ verdicts' = Append(verdicts, "refused")
        /\ blockedCount' = blockedCount + 1 /\ Goes
    BY <1>5 DEF RefuseRow
  <2>2. /\ verdicts' \in Seq({"allowed", "refused"}) /\ place' \in 0 .. Len(rows)
    BY <1>1, <2>1, VerdictAppended
  <2>3. StoreTypes'
    BY <1>1, <2>1, <2>2 DEF StoreTypes, Goes
  <2> QED BY <2>1, <2>3 DEF StoreInv
<1>6. CASE RefuseRow(place') /\ way = "redact"
  BY <1>1, <1>2, <1>6 DEF RefuseRow
<1>7. way \in {"filter", "drop", "abort", "block-all", "redact"}
  BY <1>1 DEF StoreTypes, Ways
<1> QED BY <1>1, <1>3, <1>4, <1>5, <1>6, <1>7 DEF JudgeRow

(* A connector that judges nobody keeps all rows.                           *)
LEMMA PassAllStep == ASSUME StoreInv, PassAll PROVE StoreInv'
<1>1. /\ phase = "rows" /\ way = "nobody" /\ place = 0 /\ place' = Len(rows) /\ phase' = "done"
      /\ verdicts' = [i \in 1 .. Len(rows) |-> "allowed"]
      /\ kept' = [i \in 1 .. Len(rows) |-> i] /\ described' = kept'
      /\ UNCHANGED <<connector, way, rows, redacted, blockedCount>>
      /\ StoreTypes /\ ColumnsFollow
  BY DEF PassAll, StoreInv
<1>2. Len(rows) \in Nat
  BY <1>1, LenProperties DEF StoreTypes
<1>3. /\ verdicts' \in Seq({"allowed", "refused"}) /\ Len(verdicts') = Len(rows)
      /\ kept' \in Seq(Nat) /\ Len(kept') = Len(rows)
      /\ \A i \in 1 .. Len(rows) : verdicts'[i] = "allowed" /\ kept'[i] = i
  <2>1. verdicts' \in [1 .. Len(rows) -> {"allowed", "refused"}]
    BY <1>1
  <2>2. kept' \in [1 .. Len(rows) -> Nat]
    BY <1>1
  <2> QED BY <1>1, <1>2, <2>1, <2>2, IsASeq
<1>4. StoreTypes'
  BY <1>1, <1>2, <1>3 DEF StoreTypes
<1>5. KeptInOrder'
  BY <1>1, <1>2, <1>3 DEF KeptInOrder, Keeps
<1>6. RefusedOf(0) = {} /\ RefusedOf(place)' = {}
  BY <1>1, <1>3 DEF RefusedOf
<1>7. ColumnsFollow'
  BY <1>1, <1>6 DEF ColumnsFollow
<1> QED BY <1>1, <1>3, <1>4, <1>5, <1>7 DEF StoreInv, SoFar

(* Every step keeps the invariant.                                          *)
LEMMA StoreInvStep == ASSUME StoreInv, [StoreNext]_storeVars PROVE StoreInv'
<1>1. CASE TooManyRows
  BY <1>1 DEF TooManyRows, StoreInv, StoreTypes
<1>2. CASE HandOver \/ Write \/ UNCHANGED storeVars
  <2>1. UNCHANGED <<connector, way, rows, place, verdicts, kept, described, redacted, blockedCount>>
    BY <1>2 DEF HandOver, Write, storeVars
  <2>2. /\ StoreTypes => StoreTypes'
        /\ SoFar(place) => SoFar(place)'
        /\ KeptInOrder => KeptInOrder'
    BY <2>1 DEF StoreTypes, SoFar, KeptInOrder
  <2>3. ColumnsFollow => ColumnsFollow'
    BY <2>1 DEF ColumnsFollow, RefusedOf
  <2> QED BY <1>2, <2>1, <2>2, <2>3 DEF HandOver, Write, storeVars, StoreInv
<1> QED BY <1>1, <1>2, QueryStep, StartWriteStep, JudgeRowStep, PassAllStep, JudgeWriteStep
        DEF StoreNext

(* At the end the first rows are all rows.                                  *)
LEMMA StoreInvSuffices == ASSUME StoreInv PROVE ResultsAgree
<1>1. ASSUME phase = "done" PROVE AnswerAgrees
  <2>1. place = Len(rows) /\ KeptInOrder /\ ColumnsFollow /\ kept \in Seq(Nat) /\ place \in Nat
    BY <1>1 DEF StoreInv, StoreTypes
  <2>2. DOMAIN kept = 1 .. Len(kept) /\ Len(kept) \in Nat
    BY <2>1, LenProperties
  <2>3. ToSet(kept) = IF way = "redact" THEN 1 .. Len(rows) ELSE AllowedRows
    <3>1. /\ \A k \in 1 .. Len(kept) : kept[k] \in 1 .. Len(rows)
          /\ \A k \in 1 .. Len(kept) : way = "redact" \/ verdicts[kept[k]] = "allowed"
          /\ \A i \in 1 .. Len(rows) : way = "redact" \/ verdicts[i] = "allowed"
                                     => \E k \in 1 .. Len(kept) : kept[k] = i
      BY <2>1 DEF KeptInOrder, Keeps
    <3>2. \A i : i \in ToSet(kept) <=> \E k \in 1 .. Len(kept) : kept[k] = i
      BY <2>2 DEF ToSet
    <3>3. \A i : i \in ToSet(kept)
                 <=> i \in 1 .. Len(rows) /\ (way = "redact" \/ verdicts[i] = "allowed")
      BY <3>1, <3>2
    <3>4. CASE way = "redact"
      <4>1. \A i : i \in ToSet(kept) <=> i \in 1 .. Len(rows)
        BY <3>3, <3>4
      <4> QED BY <4>1, <3>4
    <3>5. CASE way # "redact"
      <4>1. \A i : i \in ToSet(kept) <=> i \in AllowedRows
        BY <3>3, <3>5 DEF AllowedRows
      <4> QED BY <4>1, <3>5
    <3> QED BY <3>4, <3>5
  <2>4. Distances = kept
    <3>1. kept = [k \in 1 .. Len(kept) |-> kept[k]]
      BY <2>1, <2>2
    <3>2. Len(kept) = Len(rows) => kept = [k \in 1 .. Len(rows) |-> k]
      BY <2>1, <3>1 DEF KeptInOrder, Keeps
    <3>3. Len(kept) <= Len(rows)
      BY <2>1 DEF KeptInOrder, Keeps
    <3> QED BY <2>1, <2>2, <3>1, <3>2, <3>3 DEF Distances
  <2>5. RefusedRows = RefusedOf(place)
    BY <2>1 DEF RefusedRows, RefusedOf
  <2>6. Embeddings = kept <=> way = "redact" \/ RefusedRows = {}
    <3>1. /\ \A j, k \in 1 .. Len(kept) : j < k => kept[j] < kept[k]
          /\ Len(kept) = Len(rows) => \A k \in 1 .. Len(kept) : kept[k] = k
      BY <2>1 DEF KeptInOrder, Keeps
    <3>7. \A k \in 1 .. Len(kept) : kept[k] \in Nat
      BY <2>1, ElementOfSeq
    <3>2. IsInjective(kept)
      <4>1. ASSUME NEW j \in 1 .. Len(kept), NEW k \in 1 .. Len(kept), kept[j] = kept[k] PROVE j = k
        <5>1. j \in Nat /\ k \in Nat /\ (j < k \/ k < j \/ j = k)
          BY <2>2
        <5> QED BY <3>1, <3>7, <4>1, <5>1
      <4> QED BY <2>2, <4>1 DEF IsInjective
    <3>3. Cardinality(ToSet(kept)) = Len(kept)
      BY <2>1, <3>2, InjectiveLen
    <3>4. \A i \in 1 .. Len(rows) : verdicts[i] \in {"allowed", "refused"}
      BY <1>1, <2>1 DEF StoreInv, StoreTypes, SoFar
    <3>5. CASE way = "redact" \/ RefusedRows = {}
      <4>1. AllowedRows = 1 .. Len(rows) \/ way = "redact"
        BY <3>4, <3>5 DEF AllowedRows, RefusedRows
      <4>2. ToSet(kept) = 1 .. Len(rows)
        BY <2>3, <4>1
      <4>3. Len(rows) \in Nat
        BY <2>1
      <4>6. Cardinality(1 .. Len(rows)) = Len(rows)
        <5> DEFINE n == Len(rows)
        <5>1. n \in Int /\ 1 \in Int /\ n \in Nat
          BY <4>3
        <5> HIDE DEF n
        <5>2. Cardinality(1 .. n) = IF 1 > n THEN 0 ELSE n - 1 + 1
          BY <5>1, FS_Interval
        <5>3. Cardinality(1 .. n) = n
          BY <5>1, <5>2
        <5> QED BY <5>3 DEF n
      <4>4. Len(kept) = Len(rows)
        BY <3>3, <4>2, <4>6
      <4>5. kept = [k \in 1 .. Len(rows) |-> k]
        BY <2>1, <2>2, <3>1, <4>4
      <4> QED BY <3>5, <4>5 DEF Embeddings
    <3>6. CASE way # "redact" /\ Embeddings = kept
      <4>1. kept = [k \in 1 .. Len(rows) |-> k]
        BY <3>6 DEF Embeddings
      <4>2. ToSet(kept) = 1 .. Len(rows)
        BY <4>1 DEF ToSet
      <4>3. AllowedRows = 1 .. Len(rows)
        BY <2>3, <3>6, <4>2
      <4> QED BY <3>6, <4>3 DEF AllowedRows, RefusedRows
    <3> QED BY <3>5, <3>6
  <2> QED BY <2>1, <2>2, <2>3, <2>4, <2>5, <2>6, ZenonT(60) DEF AnswerAgrees, KeptInOrder, Keeps, ColumnsFollow
<1>2. phase = "written" => RefusedRows = {}
  BY DEF StoreInv, RefusedRows
<1> QED BY <1>1, <1>2, SMTT(40) DEF ResultsAgree

(* guarded-chroma.ts:498-621 and its siblings: for answers and writes of    *)
(* any length, what an application gets is what was allowed, in order, the  *)
(* count of refusals is right, and of Chroma's columns the distances speak  *)
(* of the documents, the metadata if those have some, and the embeddings    *)
(* exactly when no row was dropped.                                         *)
THEOREM AnswersAgree == StoreSpec => []ResultsAgree
<1>1. StoreInit => StoreInv
  BY StoreInvInit
<1>2. StoreInv /\ [StoreNext]_storeVars => StoreInv'
  BY StoreInvStep
<1>3. StoreInv => ResultsAgree
  BY StoreInvSuffices
<1> QED BY <1>1, <1>2, <1>3, PTL DEF StoreSpec

-----------------------------------------------------------------------------
(* The .env file.                                                           *)

(* The states of a command.                                                 *)
CommandStates ==
  {"idle", "testing", "merging", "confirming", "formatting", "writing", "renaming",
   "cleaning", "auditing", "done", "failed"}

(* What is known of a command that runs.                                    *)
CommandRecords ==
  [kind : {"none", "add", "wizard", "remove"}, keys : SUBSET EnvKeys, value : Values,
   state : CommandStates, write : [Variables -> Values]]

(* What a command will write, where nobody else has changed it since, is    *)
(* what the file holds, and its own variables.                              *)
Fits(c) ==
  command[c].state \in {"confirming", "formatting", "writing", "renaming"} =>
    /\ \A k \in Variables \ (command[c].keys \cup moved[c]) : command[c].write[k] = Parsed(file[k])
    /\ \A k \in command[c].keys : command[c].write[k] = command[c].value

(* The inductive invariant.                                                 *)
EnvInv ==
  /\ file \in [Variables -> Standings]
  /\ moved \in [Commands -> SUBSET Variables]
  /\ command \in [Commands -> CommandRecords]
  /\ \A c \in Commands : Fits(c)

(* What is read is a value, and what is written stands in the file.         *)
LEMMA ReadAndWritten ==
  /\ \A text \in Standings : Parsed(text) \in Values
  /\ \A value \in Values : Formatted(value) \in Standings
BY DEF Standings, Values, Parsed, Formatted

(* What the file holds, read.                                               *)
LEMMA AsReadFacts ==
  ASSUME EnvInv
  PROVE  AsRead \in [Variables -> Values] /\ \A k \in Variables : AsRead[k] = Parsed(file[k])
BY ReadAndWritten DEF AsRead, EnvInv

(* At first no command runs.                                                *)
LEMMA EnvInvInit == ASSUME EnvInit PROVE EnvInv
<1>1. NoVariable \in [Variables -> Values]
  BY DEF NoVariable, Values
<1>2. NotRun \in CommandRecords /\ NotRun.state = "idle"
  BY <1>1 DEF NotRun, CommandRecords, CommandStates, Values
<1>3. command = [c \in Commands |-> NotRun] /\ moved = [c \in Commands |-> {}]
  BY DEF EnvInit
<1>4. file \in [Variables -> Standings]
  BY EnvAssumption DEF EnvInit
<1> QED BY <1>2, <1>3, <1>4 DEF EnvInv, Fits

(* A step of one command to a record r, under which the file stays and no   *)
(* other command's reading.                                                 *)
LEMMA CommandStep ==
  ASSUME EnvInv, NEW c \in Commands, NEW r \in CommandRecords, NEW m \in SUBSET Variables,
         command' = [command EXCEPT ![c] = r], moved' = [moved EXCEPT ![c] = m], file' = file,
         r.state \in {"confirming", "formatting", "writing", "renaming"} =>
           /\ \A k \in Variables \ (r.keys \cup m) : r.write[k] = Parsed(file[k])
           /\ \A k \in r.keys : r.write[k] = r.value
  PROVE  EnvInv'
<1>1. /\ command \in [Commands -> CommandRecords] /\ moved \in [Commands -> SUBSET Variables]
      /\ \A d \in Commands : Fits(d)
  BY DEF EnvInv
<1>2. command' \in [Commands -> CommandRecords] /\ moved' \in [Commands -> SUBSET Variables]
  BY <1>1
<1>3. \A d \in Commands : /\ command'[d] = IF d = c THEN r ELSE command[d]
                          /\ moved'[d] = IF d = c THEN m ELSE moved[d]
  BY <1>1
<1>4. ASSUME NEW d \in Commands PROVE Fits(d)'
  <2>1. CASE d = c
    <3>1. command'[d] = r /\ moved'[d] = m
      BY <1>3, <2>1
    <3> QED BY <3>1 DEF Fits
  <2>2. CASE d # c
    <3>1. command'[d] = command[d] /\ moved'[d] = moved[d]
      BY <1>3, <2>2
    <3> QED BY <1>1, <3>1 DEF Fits
  <2> QED BY <2>1, <2>2
<1> QED BY <1>2, <1>4 DEF EnvInv

(* A step that only takes the command to its next state.                    *)
LEMMA BecomesStep ==
  ASSUME EnvInv, NEW c \in Commands, NEW state \in CommandStates, Becomes(c, state),
         UNCHANGED <<file, moved>>, state # "confirming",
         state \in {"formatting", "writing", "renaming"} =>
           \E s \in {"confirming", "formatting", "writing"} : In(c, s)
  PROVE  EnvInv'
<1> DEFINE r == [command[c] EXCEPT !.state = state]
<1>1. command[c] \in CommandRecords /\ command \in [Commands -> CommandRecords]
      /\ moved \in [Commands -> SUBSET Variables] /\ Fits(c)
  BY DEF EnvInv
<1>2. /\ r \in CommandRecords /\ r.state = state /\ r.keys = command[c].keys
      /\ r.write = command[c].write /\ r.value = command[c].value
  BY <1>1 DEF CommandRecords
<1>3. command' = [command EXCEPT ![c] = r]
  BY DEF Becomes
<1>4. moved' = [moved EXCEPT ![c] = moved[c]] /\ moved[c] \in SUBSET Variables /\ file' = file
  BY <1>1
<1>5. r.state \in {"confirming", "formatting", "writing", "renaming"} =>
        /\ \A k \in Variables \ (r.keys \cup moved[c]) : r.write[k] = Parsed(file[k])
        /\ \A k \in r.keys : r.write[k] = r.value
  BY <1>1, <1>2 DEF Fits, In
<1> HIDE DEF r
<1> QED BY <1>2, <1>3, <1>4, <1>5, CommandStep

(* add and the wizard collect keys and have read nothing yet.               *)
LEMMA CollectsStep ==
  ASSUME EnvInv, NEW c \in Commands, NEW keys \in (SUBSET EnvKeys) \ {{}},
         NEW value \in {"plain", "marked"}, NEW kind \in {"add", "wizard"},
         CollectsCredentials(c, keys, value, kind)
  PROVE  EnvInv'
<1> DEFINE r == [kind |-> kind, keys |-> keys, value |-> value, state |-> "testing", write |-> NoVariable]
<1>1. command' = [command EXCEPT ![c] = r] /\ file' = file /\ moved' = moved
  BY DEF CollectsCredentials
<1>2. /\ kind \in {"none", "add", "wizard", "remove"} /\ keys \subseteq EnvKeys
      /\ value \in Values /\ "testing" \in CommandStates
  BY DEF CommandStates, Values
<1>3. NoVariable \in [Variables -> Values]
  BY DEF NoVariable, Values
<1>4. r \in CommandRecords /\ r.state = "testing"
  BY <1>2, <1>3 DEF CommandRecords
<1>5. moved \in [Commands -> SUBSET Variables]
  BY DEF EnvInv
<1>6. moved' = [moved EXCEPT ![c] = moved[c]] /\ moved[c] \in SUBSET Variables
  BY <1>1, <1>5
<1> HIDE DEF r
<1> QED BY <1>1, <1>4, <1>6, CommandStep

(* A removal will write the file as it reads it, but for its key.           *)
LEMMA RemovalStep ==
  ASSUME EnvInv, NEW c \in Commands, NEW key \in EnvKeys, StartsRemoval(c, key)
  PROVE  EnvInv'
<1> DEFINE w == [AsRead EXCEPT ![key] = "none"]
<1>1. PICK state \in {"failed", IF file[key] # "none" THEN "confirming" ELSE "done"} :
        command' = [command EXCEPT ![c] =
          [kind |-> "remove", keys |-> {key}, value |-> "none", state |-> state, write |-> w]]
  BY DEF StartsRemoval
<1> DEFINE r == [kind |-> "remove", keys |-> {key}, value |-> "none", state |-> state, write |-> w]
<1>2. state \in {"failed", "confirming", "done"}
  BY <1>1
<1>3. /\ w \in [Variables -> Values] /\ w[key] = "none"
      /\ \A k \in Variables \ {key} : w[k] = Parsed(file[k])
  <2>1. key \in Variables /\ "none" \in Values
    BY DEF Variables, Values
  <2> QED BY <2>1, AsReadFacts
<1>4. command' = [command EXCEPT ![c] = r]
  BY <1>1
<1>5. file' = file /\ moved' = [moved EXCEPT ![c] = {}] /\ {} \in SUBSET Variables
  BY DEF StartsRemoval
<1> HIDE DEF w
<1>6. r \in CommandRecords /\ r.keys = {key} /\ r.value = "none" /\ r.write = w
  BY <1>2, <1>3 DEF CommandRecords, CommandStates, Values
<1>7. /\ \A k \in Variables \ (r.keys \cup {}) : r.write[k] = Parsed(file[k])
      /\ \A k \in r.keys : r.write[k] = r.value
  BY <1>3, <1>6
<1> HIDE DEF r
<1> QED BY <1>4, <1>5, <1>6, <1>7, CommandStep

(* A merge will write the file as it reads it, and its entries.             *)
LEMMA MergesStep == ASSUME EnvInv, NEW c \in Commands, MergesEntries(c) PROVE EnvInv'
<1>1. CASE Becomes(c, "failed") /\ UNCHANGED moved
  BY <1>1, BecomesStep DEF MergesEntries, CommandStates
<1>2. CASE ReadsInto(c, "formatting", Entered(c, AsRead))
  <2> DEFINE w == Entered(c, AsRead)
             r == [command[c] EXCEPT !.state = "formatting", !.write = w]
  <2>1. command[c] \in CommandRecords /\ command \in [Commands -> CommandRecords]
    BY DEF EnvInv
  <2>2. /\ w \in [Variables -> Values]
        /\ \A k \in Variables : w[k] = IF k \in command[c].keys THEN command[c].value ELSE Parsed(file[k])
    <3>1. command[c].value \in Values
      BY <2>1 DEF CommandRecords
    <3> QED BY <3>1, AsReadFacts DEF Entered
  <2> HIDE DEF w
  <2>3. /\ r \in CommandRecords /\ r.keys = command[c].keys /\ r.value = command[c].value
        /\ r.keys \subseteq Variables /\ r.write = w
    BY <2>1, <2>2 DEF CommandRecords, CommandStates, Variables
  <2>4. command' = [command EXCEPT ![c] = r]
    BY <1>2, <2>1 DEF ReadsInto, CommandRecords, w
  <2>5. file' = file /\ moved' = [moved EXCEPT ![c] = {}] /\ {} \in SUBSET Variables
    BY <1>2 DEF MergesEntries, ReadsInto
  <2>6. /\ \A k \in Variables \ (r.keys \cup {}) : r.write[k] = Parsed(file[k])
        /\ \A k \in r.keys : r.write[k] = r.value
    BY <2>2, <2>3
  <2> HIDE DEF r
  <2> QED BY <2>3, <2>4, <2>5, <2>6, CommandStep
<1> QED BY <1>1, <1>2 DEF MergesEntries

(* What the rename changes has moved for every other command.               *)
LEMMA RenameStep == ASSUME EnvInv, NEW c \in Commands, RenamesOver(c) PROVE EnvInv'
<1> DEFINE changed == {k \in Variables : file'[k] # file[k]}
<1>1. /\ command \in [Commands -> CommandRecords] /\ command[c] \in CommandRecords
      /\ moved \in [Commands -> SUBSET Variables]
  BY DEF EnvInv
<1>2. /\ file' = [k \in Variables |-> Formatted(command[c].write[k])]
      /\ moved' = [d \in Commands |-> moved[d] \cup changed]
      /\ command' = [command EXCEPT ![c].state = "cleaning"]
  BY DEF RenamesOver, Becomes
<1>3. command' \in [Commands -> CommandRecords]
  <2>1. [command[c] EXCEPT !.state = "cleaning"] \in CommandRecords
    BY <1>1 DEF CommandRecords, CommandStates
  <2> QED BY <1>1, <1>2, <2>1
<1>4. file' \in [Variables -> Standings]
  BY <1>1, <1>2, ReadAndWritten DEF CommandRecords
<1>5. moved' \in [Commands -> SUBSET Variables]
  <2>1. changed \subseteq Variables
    OBVIOUS
  <2> HIDE DEF changed
  <2> QED BY <1>1, <1>2, <2>1
<1>6. ASSUME NEW d \in Commands PROVE Fits(d)'
  <2>1. CASE d = c
    <3>1. command'[d].state = "cleaning"
      BY <1>1, <1>2, <2>1 DEF CommandRecords
    <3> QED BY <3>1 DEF Fits
  <2>2. CASE d # c
    <3>1. command'[d] = command[d] /\ moved'[d] = moved[d] \cup changed
      BY <1>1, <1>2, <2>2
    <3>2. \A k \in Variables \ (command[d].keys \cup moved'[d]) :
            k \notin moved[d] /\ file'[k] = file[k]
      BY <3>1
    <3>3. Fits(d)
      BY DEF EnvInv
    <3> HIDE DEF changed
    <3> QED BY <3>1, <3>2, <3>3 DEF Fits
  <2> QED BY <2>1, <2>2
<1> QED BY <1>3, <1>4, <1>5, <1>6 DEF EnvInv

(* Every step of every command keeps the invariant.                         *)
LEMMA EnvInvStep == ASSUME EnvInv, [EnvNext]_envVars PROVE EnvInv'
<1>1. CASE UNCHANGED envVars
  BY <1>1 DEF envVars, EnvInv, Fits
<1>2. CASE EnvNext
  <2> SUFFICES ASSUME NEW c \in Commands,
                      \/ \E keys \in (SUBSET EnvKeys) \ {{}}, value \in {"plain", "marked"},
                            kind \in {"add", "wizard"} : CollectsCredentials(c, keys, value, kind)
                      \/ \E key \in EnvKeys : StartsRemoval(c, key)
                      \/ TestsConnectors(c) \/ MergesEntries(c) \/ ConfirmsRemoval(c)
                      \/ FormatsEntries(c) \/ WritesTemporary(c) \/ RenamesOver(c)
                      \/ CleansUp(c) \/ AuditsCommand(c) \/ StopsCommand(c)
               PROVE  EnvInv'
    BY <1>2 DEF EnvNext
  <2> USE DEF CommandStates
  <2>1. CASE \E keys \in (SUBSET EnvKeys) \ {{}}, value \in {"plain", "marked"},
                kind \in {"add", "wizard"} : CollectsCredentials(c, keys, value, kind)
    BY <2>1, CollectsStep
  <2>2. CASE \E key \in EnvKeys : StartsRemoval(c, key)
    BY <2>2, RemovalStep
  <2>3. CASE TestsConnectors(c)
    BY <2>3, BecomesStep DEF TestsConnectors
  <2>4. CASE ConfirmsRemoval(c)
    BY <2>4, BecomesStep DEF ConfirmsRemoval, In
  <2>5. CASE FormatsEntries(c)
    BY <2>5, BecomesStep DEF FormatsEntries, In
  <2>6. CASE WritesTemporary(c)
    BY <2>6, BecomesStep DEF WritesTemporary, In
  <2>7. CASE CleansUp(c)
    BY <2>7, BecomesStep DEF CleansUp
  <2>8. CASE AuditsCommand(c)
    BY <2>8, BecomesStep DEF AuditsCommand
  <2>9. CASE StopsCommand(c)
    BY <2>9, BecomesStep DEF StopsCommand
  <2> QED BY <2>1, <2>2, <2>3, <2>4, <2>5, <2>6, <2>7, <2>8, <2>9, MergesStep, RenameStep
<1> QED BY <1>1, <1>2

(* A rename leaves the command's own entries and, of all that nobody else   *)
(* changed in the meantime, what was there, as dotenv reads it; for any     *)
(* commands, variables and first file (EnvManager.write, connector remove). *)
THEOREM CommandsKeepToTheirOwn == EnvSpec => ChangesItsOwnOnly
<1>1. EnvInit => EnvInv
  BY EnvInvInit
<1>2. EnvInv /\ [EnvNext]_envVars => EnvInv'
  BY EnvInvStep
<1>3. ASSUME EnvInv, NEW c \in Commands, RenamesOver(c)
      PROVE  /\ \A k \in Variables \ (command[c].keys \cup moved[c]) :
                  file'[k] = Formatted(Parsed(file[k]))
             /\ \A k \in command[c].keys : file'[k] = Formatted(command[c].value)
  <2>1. /\ command[c].state = "renaming" /\ Fits(c) /\ command[c] \in CommandRecords
        /\ file' = [k \in Variables |-> Formatted(command[c].write[k])]
    BY <1>3 DEF RenamesOver, In, EnvInv
  <2>2. command[c].keys \subseteq Variables
    BY <2>1 DEF CommandRecords, Variables
  <2> QED BY <2>1, <2>2 DEF Fits
<1>4. EnvInv /\ [EnvNext]_envVars =>
        [\A c \in Commands : RenamesOver(c) =>
           /\ \A k \in Variables \ (command[c].keys \cup moved[c]) :
                file'[k] = Formatted(Parsed(file[k]))
           /\ \A k \in command[c].keys : file'[k] = Formatted(command[c].value)]_envVars
  BY <1>3
<1> QED BY <1>1, <1>2, <1>4, PTL DEF EnvSpec, ChangesItsOwnOnly

-----------------------------------------------------------------------------
(***************************************************************************)
(* Verdicts.  More hits give a verdict that is no milder: by one fact on    *)
(* the highest level of a set of patterns, one on what a synonym hides, and *)
(* a lemma per validator.                                                  *)
(***************************************************************************)
(* The highest level of a set of patterns is reached in it, unless it is 0. *)
LEMMA HighestFacts ==
  ASSUME NEW F \in SUBSET Patterns
  PROVE  /\ Highest(F) \in {0, 1, 3}
         /\ \A p \in F : LevelOf[p] <= Highest(F)
         /\ Highest(F) # 0 => \E p \in F : LevelOf[p] = Highest(F)
<1> DEFINE L == {0} \cup {LevelOf[p] : p \in F}
<1>1. L \subseteq {0, 1, 3} /\ 0 \in L
  BY VerdictsAssumption
<1>2. \E x \in L : \A y \in L : x >= y
  <2>1. CASE 3 \in L
    BY <1>1, <2>1
  <2>2. CASE 3 \notin L /\ 1 \in L
    BY <1>1, <2>2
  <2>3. CASE 3 \notin L /\ 1 \notin L
    BY <1>1, <2>3
  <2> QED BY <2>1, <2>2, <2>3
<1> DEFINE m == Max(L)
<1>3. m \in L /\ \A y \in L : m >= y
  BY <1>2, Zenon DEF Max
<1>4. Highest(F) = m
  BY DEF Highest
<1>5. \A p \in F : LevelOf[p] \in L
  OBVIOUS
<1>6. m # 0 => \E p \in F : LevelOf[p] = m
  BY <1>3
<1> HIDE DEF m
<1>7. \A p \in F : LevelOf[p] <= m
  BY <1>1, <1>3, <1>5
<1> QED BY <1>1, <1>3, <1>4, <1>6, <1>7

(* It does not fall where each pattern has one of its level or more.        *)
LEMMA HighestRises ==
  ASSUME NEW F \in SUBSET Patterns, NEW G \in SUBSET Patterns,
         \A p \in F : \E q \in G : LevelOf[p] <= LevelOf[q]
  PROVE  Highest(F) <= Highest(G)
<1>1. Highest(F) \in {0, 1, 3} /\ Highest(G) \in {0, 1, 3}
  BY HighestFacts
<1>2. CASE Highest(F) # 0
  <2>1. PICK p \in F : LevelOf[p] = Highest(F)
    BY <1>2, HighestFacts
  <2>2. PICK q \in G : LevelOf[p] <= LevelOf[q]
    OBVIOUS
  <2>3. LevelOf[q] <= Highest(G) /\ LevelOf[q] \in {0, 1, 3}
    BY HighestFacts, VerdictsAssumption
  <2> QED BY <1>1, <2>1, <2>2, <2>3
<1> QED BY <1>1, <1>2

(* The types.                                                               *)
VerdictsTypes ==
  /\ hits \subseteq Patterns \X Views
  /\ sensitivity \in Sensitivities /\ tracked \in BOOLEAN /\ past \in Nat

(* A text goes on: its hits become more.                                    *)
GoesOn ==
  /\ VerdictsTypes /\ VerdictsTypes'
  /\ hits \subseteq hits'
  /\ judge' = judge /\ action' = action /\ sensitivity' = sensitivity
  /\ tracked' = tracked /\ past' = past

(* The verdict r is no milder than it was as q.                             *)
Rises(q, r) == (q.refused => r.refused) /\ q.severity <= r.severity

(* What is found becomes more.                                              *)
LEMMA FoundGrows ==
  ASSUME GoesOn
  PROVE  /\ \A view \in Views : Found(view) \subseteq Found(view)' /\ Found(view)' \subseteq Patterns
         /\ Everything \subseteq Everything' /\ Everything' \subseteq Patterns
         /\ Highest(Everything) \in {0, 1, 3} /\ Highest(Everything)' \in {0, 1, 3}
         /\ Highest(Everything) <= Highest(Everything)'
         /\ Cardinality(Everything) \in Nat /\ Cardinality(Everything)' \in Nat
         /\ Cardinality(Everything) <= Cardinality(Everything)'
<1>1. \A view \in Views : Found(view) \subseteq Found(view)' /\ Found(view)' \subseteq Patterns
  BY DEF GoesOn, Found
<1>2. Everything \subseteq Everything' /\ Everything' \subseteq Patterns
  BY <1>1 DEF Everything
<1> DEFINE E == Everything
           F == Everything'
<1>3. E \subseteq F /\ F \subseteq Patterns
  BY <1>2
<1> HIDE DEF E, F
<1>4. Highest(E) \in {0, 1, 3} /\ Highest(F) \in {0, 1, 3}
  BY <1>3, HighestFacts
<1>5. Highest(E) <= Highest(F)
  <2>1. \A p \in E : p \in F /\ LevelOf[p] <= LevelOf[p]
    BY <1>3, VerdictsAssumption
  <2> QED BY <1>3, <2>1, HighestRises
<1>6. IsFiniteSet(F)
  BY <1>3, VerdictsAssumption, FS_Subset
<1>7. IsFiniteSet(E) /\ Cardinality(E) <= Cardinality(F)
  BY <1>3, <1>6, FS_Subset
<1>8. Cardinality(E) \in Nat /\ Cardinality(F) \in Nat
  BY <1>6, <1>7, FS_CardinalityType
<1>9. Highest(F) = Highest(Everything)' /\ Cardinality(F) = Cardinality(Everything)'
  BY DEF F, Highest, Above
<1> QED BY <1>1, <1>2, <1>4, <1>5, <1>7, <1>8, <1>9 DEF E

(* A synonym is hidden by what weighs no less.                              *)
LEMMA DetectedRises ==
  ASSUME GoesOn, NEW view \in Views, NEW p \in Detected(view)
  PROVE  /\ p \in Patterns
         /\ \E q \in Detected(view)' :
              /\ q \in Patterns /\ LevelOf[p] <= LevelOf[q]
              /\ p \in Tame \/ q \notin Tame
              /\ p \notin DOMAIN OriginalOf => q = p
<1>1. p \in Found(view)' /\ p \in Patterns /\ Found(view)' \subseteq Patterns
  BY FoundGrows DEF Detected
<1>2. Detected(view)' = {q \in Found(view)' : q \in DOMAIN OriginalOf => OriginalOf[q] \notin Found(view)'}
  BY DEF Detected
<1>3. CASE p \in Detected(view)'
  BY <1>1, <1>3, VerdictsAssumption
<1>4. CASE p \notin Detected(view)'
  <2>1. p \in DOMAIN OriginalOf /\ OriginalOf[p] \in Found(view)'
    BY <1>1, <1>2, <1>4
  <2>2. OriginalOf[p] \in Patterns \ (Tame \cup DOMAIN OriginalOf) /\ LevelOf[p] <= LevelOf[OriginalOf[p]]
    BY <2>1, VerdictsAssumption
  <2>3. OriginalOf[p] \in Detected(view)'
    BY <1>2, <2>1, <2>2
  <2> QED BY <1>1, <2>1, <2>2, <2>3
<1> QED BY <1>3, <1>4

(* The same, where what the joined text adds is not searched for synonyms.  *)
LEMMA MergedRises ==
  ASSUME GoesOn, NEW p \in Merged
  PROVE  /\ p \in Patterns /\ Merged' \subseteq Patterns
         /\ \E q \in Merged' : LevelOf[p] <= LevelOf[q] /\ (p \in Tame \/ q \notin Tame)
<1>1. Merged' = Detected("plain")' \cup (Found("joined")' \ DOMAIN OriginalOf)
  BY DEF Merged
<1>2. Merged' \subseteq Patterns
  BY <1>1, FoundGrows DEF Detected, Views
<1>3. CASE p \in Detected("plain")
  <2>1. "plain" \in Views
    BY DEF Views
  <2> QED BY <1>1, <1>2, <1>3, <2>1, DetectedRises
<1>4. CASE p \in Found("joined") \ DOMAIN OriginalOf
  <2>1. "joined" \in Views
    BY DEF Views
  <2>2. p \in Found("joined")' /\ p \in Patterns
    BY <1>4, <2>1, FoundGrows
  <2>3. LevelOf[p] <= LevelOf[p]
    BY <2>2, VerdictsAssumption
  <2> QED BY <1>1, <1>2, <1>4, <2>2, <2>3
<1> QED BY <1>3, <1>4 DEF Merged

(* Two rulings, compared part by part.                                      *)
LEMMA RulingRises ==
  ASSUME NEW a, NEW b, NEW c, NEW d, a => b, c <= d
  PROVE  Rises(Ruling(a, c), Ruling(b, d))
BY DEF Rises, Ruling

(* Levels that have risen stay above what they were above, and what they    *)
(* are counted for rises with them.                                         *)
LEMMA LevelsRise ==
  ASSUME GoesOn
  PROVE  /\ Highest(Everything) = 3 => Highest(Everything)' = 3
         /\ Highest(Everything) = 1 => Highest(Everything)' \in {1, 3}
         /\ Everything # {} => Everything' # {}
         /\ AtLeastWarning <= AtLeastWarning'
         /\ \A level \in {0, 1, 3} : Above(Everything, level) \subseteq Above(Everything, level)'
<1>1. /\ Highest(Everything) \in {0, 1, 3} /\ Highest(Everything)' \in {0, 1, 3}
      /\ Highest(Everything) <= Highest(Everything)'
      /\ Everything \subseteq Everything'
  BY FoundGrows
<1>2. AtLeastWarning <= AtLeastWarning'
  <2>1. AtLeastWarning = IF Everything = {} THEN 0 ELSE IF Highest(Everything) = 3 THEN 3 ELSE 1
    BY DEF AtLeastWarning
  <2>2. AtLeastWarning' = IF Everything' = {} THEN 0 ELSE IF Highest(Everything)' = 3 THEN 3 ELSE 1
    BY DEF AtLeastWarning
  <2> QED BY <1>1, <2>1, <2>2
<1>3. \A level \in {0, 1, 3} : Above(Everything, level) \subseteq Above(Everything, level)'
  BY <1>1 DEF Above
<1> QED BY <1>1, <1>2, <1>3

(* The validators that look at the highest level and the action only.       *)
LEMMA PlainJudgesRise ==
  ASSUME GoesOn
  PROVE  /\ Rises(Intents, Intents') /\ Rises(Indirect, Indirect')
         /\ Rises(OnCritical, OnCritical') /\ Rises(Boundary, Boundary')
         /\ Rises(Scripts, Scripts') /\ Rises(CodeInjection, CodeInjection')
         /\ Rises(PathTraversal, PathTraversal') /\ Rises(Production, Production')
<1>1. /\ Highest(Everything) \in {0, 1, 3} /\ Highest(Everything)' \in {0, 1, 3}
      /\ Highest(Everything) <= Highest(Everything)'
      /\ Everything \subseteq Everything'
  BY FoundGrows
<1>2. /\ Highest(Everything) = 3 => Highest(Everything)' = 3
      /\ Highest(Everything) = 1 => Highest(Everything)' \in {1, 3}
      /\ Everything # {} => Everything' # {}
      /\ AtLeastWarning <= AtLeastWarning'
      /\ Above(Everything, 1) \subseteq Above(Everything, 1)'
  BY LevelsRise
<1>3. action' = action /\ sensitivity' = sensitivity
  BY DEF GoesOn
<1>4. (IF Everything = {} THEN 0 ELSE 3) <= (IF Everything' = {} THEN 0 ELSE 3)
  BY <1>2
<1>5. Rises(Intents, Intents') /\ Rises(PathTraversal, PathTraversal')
  BY <1>2, <1>3, <1>4, RulingRises DEF Intents, PathTraversal
<1>6. Rises(Indirect, Indirect') /\ Rises(CodeInjection, CodeInjection')
  BY <1>1, <1>2, <1>3, RulingRises DEF Indirect, CodeInjection
<1>7. Rises(OnCritical, OnCritical') /\ Rises(Scripts, Scripts')
  BY <1>2, <1>3, RulingRises DEF OnCritical, Scripts
<1>8. Rises(Boundary, Boundary') /\ Rises(Production, Production')
  BY <1>2, <1>3, RulingRises DEF Boundary, Production
<1> QED BY <1>5, <1>6, <1>7, <1>8

(* Prompt injection: a synonym that no longer counts has an original that   *)
(* does.                                                                    *)
LEMMA PromptInjectionRises == ASSUME GoesOn PROVE Rises(PromptInjection, PromptInjection')
<1>1. "other" \in Views
  BY DEF Views
<1>2. /\ Found("other") \subseteq Found("other")' /\ Found("other")' \subseteq Patterns
      /\ Merged \subseteq Patterns /\ Merged' \subseteq Patterns
  BY <1>1, FoundGrows, MergedRises DEF Merged, Detected, Views
<1> DEFINE F == Merged \cup Found("other")
           G == Merged' \cup Found("other")'
           refusers == (Above(Merged, 1) \ Tame) \cup Above(Found("other"), 1)
           refusing == (Above(Merged', 1) \ Tame) \cup Above(Found("other")', 1)
<1>3. Highest(F) <= Highest(G)
  <2>1. ASSUME NEW p \in F PROVE \E q \in G : LevelOf[p] <= LevelOf[q]
    <3>1. CASE p \in Merged
      BY <3>1, MergedRises
    <3>2. CASE p \in Found("other")
      <4>1. p \in G /\ LevelOf[p] <= LevelOf[p]
        BY <1>2, <3>2, VerdictsAssumption
      <4> QED BY <4>1
    <3> QED BY <3>1, <3>2
  <2>2. F \in SUBSET Patterns /\ G \in SUBSET Patterns
    BY <1>2
  <2> HIDE DEF F, G
  <2> QED BY <2>1, <2>2, HighestRises
<1>4. refusers # {} => refusing # {}
  <2>1. ASSUME NEW p \in Merged, LevelOf[p] >= 1, p \notin Tame PROVE refusing # {}
    <3>1. PICK q \in Merged' : LevelOf[p] <= LevelOf[q] /\ q \notin Tame
      BY <2>1, MergedRises
    <3>2. LevelOf[p] \in {0, 1, 3} /\ LevelOf[q] \in {0, 1, 3}
      BY <1>2, <3>1, VerdictsAssumption
    <3>3. q \in Above(Merged', 1) \ Tame
      BY <2>1, <3>1, <3>2 DEF Above
    <3> QED BY <3>3
  <2>2. ASSUME NEW p \in Found("other"), LevelOf[p] >= 1 PROVE refusing # {}
    <3>1. p \in Above(Found("other")', 1)
      BY <1>2, <2>2 DEF Above
    <3> QED BY <3>1
  <2> QED BY <2>1, <2>2 DEF Above
<1>5. PromptInjection = Ruling(refusers # {}, Highest(F))
  BY DEF PromptInjection
<1>6. PromptInjection' = Ruling(refusing # {}, Highest(G))
  BY DEF PromptInjection, Above, Highest
<1> HIDE DEF F, G, refusers, refusing
<1> QED BY <1>3, <1>4, <1>5, <1>6, RulingRises

(* The rescan of decoded text: likewise.                                    *)
LEMMA EncodedRescanRises == ASSUME GoesOn PROVE Rises(EncodedRescan, EncodedRescan')
<1> DEFINE found == Above(Detected("plain"), 1) \cup Above(Detected("joined"), 3)
           later == Above(Detected("plain")', 1) \cup Above(Detected("joined")', 3)
<1>1. ASSUME NEW view \in Views, NEW level \in {1, 3},
             Above(Detected(view), level) \ Tame # {}
      PROVE  Above(Detected(view)', level) \ Tame # {}
  <2>1. PICK p \in Detected(view) : LevelOf[p] >= level /\ p \notin Tame
    BY <1>1 DEF Above
  <2>2. PICK q \in Detected(view)' : q \in Patterns /\ LevelOf[p] <= LevelOf[q] /\ q \notin Tame
    BY <2>1, DetectedRises
  <2>3. LevelOf[p] \in {0, 1, 3} /\ LevelOf[q] \in {0, 1, 3}
    BY <2>2, DetectedRises, VerdictsAssumption
  <2>4. q \in Above(Detected(view)', level) \ Tame
    BY <2>1, <2>2, <2>3 DEF Above
  <2> QED BY <2>4
<1>2. found \ Tame # {} => later \ Tame # {}
  <2>1. "plain" \in Views /\ "joined" \in Views
    BY DEF Views
  <2> QED BY <1>1, <2>1
<1>3. EncodedRescan = Ruling(found \ Tame # {} /\ action = "block",
                             IF found \ Tame # {} THEN 3 ELSE 0)
  BY DEF EncodedRescan
<1>4. EncodedRescan' = Ruling(later \ Tame # {} /\ action = "block",
                              IF later \ Tame # {} THEN 3 ELSE 0)
  BY DEF EncodedRescan, Above, GoesOn
<1> HIDE DEF found, later
<1>5. (IF found \ Tame # {} THEN 3 ELSE 0) <= (IF later \ Tame # {} THEN 3 ELSE 0)
  BY <1>2
<1> QED BY <1>2, <1>3, <1>4, <1>5, RulingRises

(* Jailbreak: the risk rises with the hits, and with it the escalation.     *)
LEMMA JailbreakRises == ASSUME GoesOn PROVE Rises(Jailbreak, Jailbreak')
<1> DEFINE found     == Found("plain") \cup Found("joined")
           counts    == tracked /\ found # {}
           risk      == Cardinality(Everything) + IF counts THEN past ELSE 0
           escalates == counts /\ risk >= EscalateAt
           severity  == IF escalates /\ risk > RaiseAbove /\ Above(found, 1) # {} THEN 3
                        ELSE Highest(Everything)
           refused   == severity \in {1, 3} \/ (risk >= RefuseAt /\ escalates)
<1>1. /\ Highest(Everything) \in {0, 1, 3} /\ Highest(Everything)' \in {0, 1, 3}
      /\ Highest(Everything) <= Highest(Everything)'
      /\ Cardinality(Everything) \in Nat /\ Cardinality(Everything)' \in Nat
      /\ Cardinality(Everything) <= Cardinality(Everything)'
      /\ found \subseteq found'
  BY FoundGrows DEF Views
<1>2. past' = past /\ past \in Nat /\ tracked' = tracked /\ tracked \in BOOLEAN
  BY DEF GoesOn, VerdictsTypes
<1>3. counts => counts'
  BY <1>1, <1>2
<1>4. Above(found, 1) # {} => Above(found, 1)' # {}
  BY <1>1 DEF Above
<1>5. Jailbreak = Ruling(refused, severity) /\ Jailbreak' = Ruling(refused', severity')
  BY DEF Jailbreak
<1> HIDE DEF found
<1>6. risk <= risk' /\ risk \in Nat /\ risk' \in Nat
  <2>1. CASE counts
    BY <1>1, <1>2, <1>3, <2>1
  <2>2. CASE ~counts
    BY <1>1, <1>2, <2>2
  <2> QED BY <2>1, <2>2
<1> HIDE DEF counts, risk
<1>7. {EscalateAt, RaiseAbove, RefuseAt} \subseteq Nat
  BY VerdictsAssumption
<1>8. escalates => escalates'
  BY <1>3, <1>6, <1>7
<1> HIDE DEF escalates
<1>9. severity <= severity' /\ severity \in {0, 1, 3} /\ severity' \in {0, 1, 3}
  BY <1>1, <1>4, <1>6, <1>7, <1>8
<1> HIDE DEF severity
<1>10. refused => refused'
  BY <1>6, <1>7, <1>8, <1>9
<1> HIDE DEF refused
<1> QED BY <1>5, <1>9, <1>10, RulingRises

(* Reformulation: likewise.                                                 *)
LEMMA ReformulationRises == ASSUME GoesOn PROVE Rises(Reformulation, Reformulation')
<1> DEFINE risk      == Cardinality(Everything)
           escalates == tracked /\ past + risk >= EscalateAt
           highest   == Highest(Everything)
           severity  == IF highest = 3 \/ escalates THEN 3
                        ELSE IF highest = 1 \/ risk >= RiskThreshold[sensitivity] THEN 1
                        ELSE 0
<1>1. /\ highest \in {0, 1, 3} /\ highest' \in {0, 1, 3} /\ highest <= highest'
      /\ risk \in Nat /\ risk' \in Nat /\ risk <= risk'
  BY FoundGrows
<1>2. /\ past' = past /\ past \in Nat /\ tracked' = tracked /\ tracked \in BOOLEAN
      /\ action' = action /\ sensitivity' = sensitivity
      /\ RiskThreshold[sensitivity] \in Nat /\ EscalateAt \in Nat
  BY VerdictsAssumption DEF GoesOn, VerdictsTypes
<1>3. /\ Reformulation = Ruling(severity > 0 /\ action = "block", severity)
      /\ Reformulation' = Ruling(severity' > 0 /\ action' = "block", severity')
  BY DEF Reformulation
<1> HIDE DEF risk, highest
<1>4. escalates => escalates'
  <2>1. \A m, n, k, limit \in Nat : m <= n /\ k + m >= limit => k + n >= limit
    OBVIOUS
  <2>2. past + risk >= EscalateAt => past + risk' >= EscalateAt
    BY <1>1, <1>2, <2>1
  <2> QED BY <1>2, <2>2, Zenon
<1>5. risk >= RiskThreshold[sensitivity] => risk' >= RiskThreshold[sensitivity']
  BY <1>1, <1>2
<1> HIDE DEF escalates
<1>6. /\ highest = 3 \/ escalates => highest' = 3 \/ escalates'
      /\ highest = 1 \/ risk >= RiskThreshold[sensitivity] =>
           highest' = 3 \/ highest' = 1 \/ risk' >= RiskThreshold[sensitivity']
  BY <1>1, <1>4, <1>5
<1>7. severity <= severity' /\ severity \in {0, 1, 3} /\ severity' \in {0, 1, 3}
  BY <1>6
<1> HIDE DEF severity
<1> QED BY <1>2, <1>3, <1>7, RulingRises

(* Personal data: what counts depends on the sensitivity, which stays.      *)
LEMMA PersonalDataRises == ASSUME GoesOn PROVE Rises(PersonalData, PersonalData')
<1> DEFINE level == CASE sensitivity = "permissive" -> 3
                      [] sensitivity = "standard" -> 1 [] OTHER -> 0
           counts == Above(Everything, level)
<1>1. /\ Highest(Everything) \in {0, 1, 3} /\ Highest(Everything)' \in {0, 1, 3}
      /\ Highest(Everything) <= Highest(Everything)'
      /\ AtLeastWarning <= AtLeastWarning' /\ AtLeastWarning' \in {0, 1, 3}
  BY FoundGrows, LevelsRise DEF AtLeastWarning
<1>2. level \in {0, 1, 3} /\ level' = level
  BY DEF GoesOn
<1>3. counts \subseteq counts'
  <2>1. counts' = Above(Everything, level)'
    BY DEF Above
  <2>2. Everything \subseteq Everything'
    BY FoundGrows
  <2> HIDE DEF level
  <2> QED BY <1>2, <2>2 DEF Above
<1>4. PersonalData = IF Highest(Everything) = 0 THEN Ruling(FALSE, 0)
                     ELSE Ruling(action = "block" /\ counts # {}, AtLeastWarning)
  BY DEF PersonalData
<1>5. PersonalData' = IF Highest(Everything)' = 0 THEN Ruling(FALSE, 0)
                      ELSE Ruling(action = "block" /\ counts' # {}, AtLeastWarning')
  BY DEF PersonalData, GoesOn
<1> HIDE DEF counts
<1>6. CASE Highest(Everything) = 0
  <2> DEFINE refused  == action = "block" /\ counts' # {}
             severity == AtLeastWarning'
  <2>1. Rises(Ruling(FALSE, 0), Ruling(FALSE, 0))
    BY DEF Rises, Ruling
  <2>2. Rises(Ruling(FALSE, 0), Ruling(refused, severity))
    <3>1. 0 <= severity
      BY <1>1
    <3> HIDE DEF refused, severity
    <3> QED BY <3>1, RulingRises
  <2> QED BY <1>4, <1>5, <1>6, <2>1, <2>2
<1>7. CASE Highest(Everything) # 0
  <2>1. Highest(Everything)' # 0
    BY <1>1, <1>7
  <2> QED BY <1>1, <1>3, <1>4, <1>5, <1>7, <2>1, RulingRises
<1> QED BY <1>6, <1>7

(* The first element that a filter keeps is the first one in the set.       *)
LEMMA FirstKept ==
  ASSUME NEW T, NEW s \in Seq(T), NEW S, NEW i \in 1 .. Len(s), s[i] \in S,
         \A j \in 1 .. i - 1 : s[j] \notin S
  PROVE  Filter(s, S) # <<>> /\ Filter(s, S)[1] = s[i]
<1> DEFINE held == Kept(s, S)
           P(n) == /\ n < i => held[n] = <<>>
                   /\ n >= i => held[n] \in Seq(T) /\ held[n] # <<>> /\ held[n][1] = s[i]
           I == {n \in Nat : n <= Len(s) => P(n)}
<1>1. Len(s) \in Nat /\ i \in Nat \ {0} /\ i <= Len(s)
  BY LenProperties
<1>2. /\ held[0] = <<>>
      /\ \A n \in 1 .. Len(s) : held[n] = IF s[n] \in S THEN Append(held[n - 1], s[n]) ELSE held[n - 1]
  BY <1>1, KeptStep
<1>3. Filter(s, S) = held[Len(s)]
  BY FilterIsKept
<1>4. \A n \in 1 .. Len(s) : s[n] \in T
  OBVIOUS
<1> HIDE DEF held
<1>5. 0 \in I
  BY <1>1, <1>2
<1>6. ASSUME NEW n \in I PROVE n + 1 \in I
  <2>1. ASSUME n + 1 <= Len(s) PROVE P(n + 1)
    <3>1. n + 1 \in 1 .. Len(s) /\ n <= Len(s) /\ (n + 1) - 1 = n /\ n \in Nat
      BY <1>1, <2>1
    <3>2. P(n)
      BY <3>1
    <3>3. held[n + 1] = IF s[n + 1] \in S THEN Append(held[n], s[n + 1]) ELSE held[n]
      BY <1>2, <3>1
    <3>4. CASE n + 1 < i
      <4>1. s[n + 1] \notin S /\ n < i /\ ~ (n + 1 >= i)
        BY <1>1, <3>1, <3>4
      <4> QED BY <3>2, <3>3, <3>4, <4>1
    <3>5. CASE n + 1 = i
      <4>1. held[n] = <<>> /\ held[n + 1] = Append(<<>>, s[i])
        <5>1. n < i /\ s[n + 1] = s[i]
          BY <1>1, <3>1, <3>5
        <5> QED BY <3>2, <3>3, <5>1
      <4>2. Append(<<>>, s[i]) \in Seq(T) /\ Append(<<>>, s[i]) # <<>> /\ Append(<<>>, s[i])[1] = s[i]
        BY <1>4
      <4> QED BY <1>1, <3>5, <4>1, <4>2
    <3>6. CASE n + 1 > i
      <4>1. n >= i /\ ~ (n + 1 < i)
        BY <1>1, <3>1, <3>6
      <4>2. held[n] \in Seq(T) /\ held[n] # <<>> /\ held[n][1] = s[i]
        BY <3>2, <4>1
      <4>3. CASE s[n + 1] \in S
        <5> DEFINE a == Append(held[n], s[n + 1])
        <5>1. a \in Seq(T) /\ Len(a) = Len(held[n]) + 1 /\ a[1] = held[n][1]
          BY <1>4, <3>1, <4>2
        <5>2. a # <<>>
          BY <4>2, <5>1
        <5> QED BY <3>3, <4>1, <4>2, <4>3, <5>1, <5>2
      <4>4. CASE s[n + 1] \notin S
        BY <3>3, <4>1, <4>2, <4>4
      <4> QED BY <4>3, <4>4
    <3> QED BY <1>1, <3>1, <3>4, <3>5, <3>6
  <2> QED BY <2>1
<1>7. I = Nat
  <2>1. I \in SUBSET Nat
    OBVIOUS
  <2> HIDE DEF I
  <2> QED BY <1>5, <1>6, <2>1, NumbersByInduction
<1>8. P(Len(s))
  BY <1>1, <1>7
<1> QED BY <1>1, <1>3, <1>8

(* The secret guard, of a set of patterns.                                  *)
SecretsOf(found, does) ==
  LET all  == Filter(Listed, found)
      held == SubSeq(all, 1, Min({Len(all), MaxFound}))
  IN IF held = <<>> THEN Ruling(FALSE, 0)
     ELSE Ruling(~(does = "allow" \/ (does = "log" /\ Highest(ToSet(held)) < 3)), LevelOf[held[1]])

(* The first pattern of the tables that is found has the highest level, so  *)
(* the ruling is by its level, whatever the limit leaves out.               *)
LEMMA SecretsByTheFirst ==
  ASSUME NEW E \in SUBSET Patterns, NEW does
  PROVE  /\ (\A j \in 1 .. Len(Listed) : Listed[j] \notin E) => SecretsOf(E, does) = Ruling(FALSE, 0)
         /\ \A i \in 1 .. Len(Listed) :
              Listed[i] \in E /\ (\A j \in 1 .. i - 1 : Listed[j] \notin E)
              => SecretsOf(E, does) =
                   Ruling(~(does = "allow" \/ (does = "log" /\ LevelOf[Listed[i]] < 3)),
                          LevelOf[Listed[i]])
<1> DEFINE all  == Filter(Listed, E)
           most == Min({Len(all), MaxFound})
           held == SubSeq(all, 1, most)
<1>1. /\ Listed \in Seq(Patterns) /\ Len(Listed) \in Nat
      /\ all \in Seq(Patterns) /\ Len(all) \in Nat /\ ToSet(all) = ToSet(Listed) \cap E
      /\ MaxFound \in Nat \ {0}
  BY VerdictsAssumption, FilterFacts, LenProperties
<1>2. SecretsOf(E, does) =
        IF held = <<>> THEN Ruling(FALSE, 0)
        ELSE Ruling(~(does = "allow" \/ (does = "log" /\ Highest(ToSet(held)) < 3)), LevelOf[held[1]])
  BY Zenon DEF SecretsOf
<1>3. most \in {Len(all), MaxFound} /\ most <= Len(all) /\ most <= MaxFound
  <2> DEFINE S == {Len(all), MaxFound}
  <2>1. \E x \in S : \A y \in S : x <= y
    BY <1>1
  <2>2. most \in S /\ \A y \in S : most <= y
    BY <2>1, Zenon DEF Min
  <2> QED BY <2>2
<1> HIDE DEF most, all
<1>4. /\ held \in Seq(Patterns) /\ Len(held) = most
      /\ \A k \in 1 .. most : held[k] = all[k]
  <2>1. most \in Nat /\ most \in 0 .. Len(all)
    BY <1>1, <1>3
  <2>2. 1 \in Int /\ most \in Int /\ \A k \in 1 .. most : all[k] \in Patterns
    BY <1>1, <2>1
  <2>3. /\ held \in Seq(Patterns)
        /\ Len(held) = IF 1 <= most THEN most - 1 + 1 ELSE 0
        /\ \A k \in 1 .. most - 1 + 1 : held[k] = all[1 + k - 1]
    BY <2>2, SubSeqProperties
  <2> HIDE DEF held
  <2>4. \A k \in 1 .. most : 1 + k - 1 = k /\ k \in 1 .. most - 1 + 1
    BY <2>1
  <2>5. Len(held) = most
    BY <2>1, <2>3
  <2>6. \A k \in 1 .. most : held[k] = all[k]
    BY <2>3, <2>4
  <2> QED BY <2>3, <2>5, <2>6
<1> HIDE DEF held
<1>5. ASSUME \A j \in 1 .. Len(Listed) : Listed[j] \notin E
      PROVE  SecretsOf(E, does) = Ruling(FALSE, 0)
  <2>1. all = <<>>
    <3>1. \A x \in ToSet(Listed) : x \notin E
      BY <1>1, <1>5 DEF ToSet
    <3> QED BY <1>1, <3>1, FilterNone DEF all
  <2>2. most = 0
    BY <1>1, <1>3, <2>1
  <2>3. held = <<>>
    BY <1>4, <2>2
  <2> QED BY <1>2, <2>3
<1>6. ASSUME NEW i \in 1 .. Len(Listed), Listed[i] \in E, \A j \in 1 .. i - 1 : Listed[j] \notin E
      PROVE  SecretsOf(E, does) = Ruling(~(does = "allow" \/ (does = "log" /\ LevelOf[Listed[i]] < 3)),
                                         LevelOf[Listed[i]])
  <2>1. all # <<>> /\ all[1] = Listed[i]
    BY <1>1, <1>6, FirstKept DEF all
  <2>2. Len(all) >= 1
    BY <1>1, <2>1
  <2>3. most >= 1 /\ most \in Nat /\ 1 \in 1 .. most
    BY <1>1, <1>3, <2>2
  <2>4. held # <<>> /\ held[1] = Listed[i] /\ Listed[i] \in Patterns
    BY <1>1, <1>4, <2>1, <2>3
  <2>5. ASSUME NEW p \in ToSet(held) PROVE p \in Patterns /\ LevelOf[p] <= LevelOf[Listed[i]]
    <3>1. PICK k \in 1 .. most : p = all[k] /\ p \in Patterns
      BY <1>4 DEF ToSet
    <3>2. p \in ToSet(all)
      BY <1>1, <1>3, <2>3, <3>1 DEF ToSet
    <3>3. PICK j \in 1 .. Len(Listed) : Listed[j] = p
      <4>1. p \in ToSet(Listed) /\ DOMAIN Listed = 1 .. Len(Listed)
        BY <1>1, <3>2
      <4> QED BY <4>1, Zenon DEF ToSet
    <3>4. p \in E
      BY <1>1, <3>2
    <3>5. i <= j
      BY <1>1, <1>6, <3>3, <3>4
    <3>6. i \in DOMAIN Listed /\ j \in DOMAIN Listed
      BY <1>1
    <3>7. CASE i < j
      <4>1. LevelOf[Listed[i]] >= LevelOf[Listed[j]]
        BY <3>6, <3>7, VerdictsAssumption
      <4>2. LevelOf[Listed[i]] \in {0, 1, 3} /\ LevelOf[p] \in {0, 1, 3}
        BY <2>4, <3>1, VerdictsAssumption
      <4> QED BY <3>1, <3>3, <4>1, <4>2
    <3>8. CASE i = j
      BY <2>4, <3>1, <3>3, <3>8, VerdictsAssumption
    <3> QED BY <3>5, <3>7, <3>8
  <2>6. Highest(ToSet(held)) = LevelOf[Listed[i]]
    <3> DEFINE F == ToSet(held)
               top == Listed[i]
    <3>1. F \in SUBSET Patterns /\ top \in F
      BY <1>4, <2>3, <2>4, <2>5 DEF ToSet
    <3>2. \A p \in F : LevelOf[p] <= LevelOf[top]
      BY <2>5
    <3> HIDE DEF F, top
    <3>3. Highest(F) \in {0, 1, 3} /\ LevelOf[top] <= Highest(F)
          /\ (Highest(F) # 0 => \E p \in F : LevelOf[p] = Highest(F))
      BY <3>1, HighestFacts
    <3>4. LevelOf[top] \in {0, 1, 3}
      BY <3>1, VerdictsAssumption
    <3>5. Highest(F) = LevelOf[top]
      BY <3>2, <3>3, <3>4
    <3> QED BY <3>5 DEF F, top
  <2> QED BY <1>2, <2>4, <2>6
<1> QED BY <1>5, <1>6

(* The secret guard: the first pattern that is found comes no later.        *)
LEMMA SecretsRise == ASSUME GoesOn PROVE Rises(Secrets, Secrets')
<1> DEFINE E == Everything
           F == Everything'
<1>1. Secrets = SecretsOf(E, action)
  BY Zenon DEF Secrets, SecretsOf
<1>2. Secrets' = SecretsOf(F, action)
  BY DEF Secrets, SecretsOf, Highest, Above, GoesOn
<1>3. E \subseteq F /\ F \subseteq Patterns
  BY FoundGrows
<1>4. Listed \in Seq(Patterns) /\ Len(Listed) \in Nat
  BY VerdictsAssumption, LenProperties
<1> HIDE DEF E, F
<1> DEFINE At(S) == {j \in 1 .. Len(Listed) : Listed[j] \in S}
           FirstIn(S, i) == i \in 1 .. Len(Listed) /\ Listed[i] \in S /\ \A j \in 1 .. i - 1 : Listed[j] \notin S
<1>5. ASSUME NEW S \in SUBSET Patterns, At(S) # {} PROVE \E i : FirstIn(S, i)
  <2>1. At(S) \in SUBSET Nat
    BY <1>4
  <2>2. PICK i \in At(S) : \A j \in At(S) : i <= j
    BY <1>5, <2>1, LeastNumber
  <2>3. \A j \in 1 .. i - 1 : j \in 1 .. Len(Listed) /\ ~ (i <= j)
    BY <1>4, <2>2
  <2> QED BY <2>2, <2>3
<1>6. ASSUME NEW S \in SUBSET Patterns, NEW i, FirstIn(S, i)
      PROVE  /\ SecretsOf(S, action) = Ruling(~(action = "allow" \/ (action = "log" /\ LevelOf[Listed[i]] < 3)),
                                              LevelOf[Listed[i]])
             /\ LevelOf[Listed[i]] \in {0, 1, 3}
  BY <1>4, <1>6, SecretsByTheFirst, VerdictsAssumption, ZenonT(60)
<1>7. CASE At(E) = {}
  <2>1. SecretsOf(E, action) = Ruling(FALSE, 0)
    BY <1>3, <1>7, SecretsByTheFirst
  <2>2. CASE At(F) = {}
    <3>1. SecretsOf(F, action) = Ruling(FALSE, 0)
      BY <1>3, <2>2, SecretsByTheFirst
    <3> QED BY <1>1, <1>2, <2>1, <3>1 DEF Rises, Ruling
  <2>3. CASE At(F) # {}
    <3>1. PICK i : FirstIn(F, i)
      BY <1>3, <1>5, <2>3
    <3> DEFINE refused == ~(action = "allow" \/ (action = "log" /\ LevelOf[Listed[i]] < 3))
               level == LevelOf[Listed[i]]
    <3>2. SecretsOf(F, action) = Ruling(refused, level) /\ level \in {0, 1, 3}
      BY <1>3, <1>6, <3>1
    <3> HIDE DEF refused, level
    <3>3. 0 <= level
      BY <3>2
    <3> QED BY <1>1, <1>2, <2>1, <3>2, <3>3, RulingRises
  <2> QED BY <2>2, <2>3
<1>8. CASE At(E) # {}
  <2>1. PICK i : FirstIn(E, i)
    BY <1>3, <1>5, <1>8
  <2>2. At(F) # {}
    BY <1>3, <1>8
  <2>3. PICK k : FirstIn(F, k)
    BY <1>3, <1>5, <2>2
  <2>4. k <= i /\ i \in DOMAIN Listed /\ k \in DOMAIN Listed
    BY <1>3, <1>4, <2>1, <2>3
  <2> DEFINE before == LevelOf[Listed[i]]
             after  == LevelOf[Listed[k]]
  <2>5. before \in {0, 1, 3} /\ after \in {0, 1, 3}
    BY <1>3, <1>6, <2>1, <2>3
  <2>6. before <= after
    <3>1. CASE k < i
      BY <2>4, <2>5, <3>1, VerdictsAssumption
    <3>2. CASE k = i
      BY <2>5, <3>2
    <3> QED BY <1>4, <2>4, <3>1, <3>2
  <2>7. /\ SecretsOf(E, action) = Ruling(~(action = "allow" \/ (action = "log" /\ before < 3)), before)
        /\ SecretsOf(F, action) = Ruling(~(action = "allow" \/ (action = "log" /\ after < 3)), after)
    BY <1>3, <1>6, <2>1, <2>3
  <2> HIDE DEF before, after
  <2>8. before < 3 \/ ~ (after < 3)
    BY <2>5, <2>6
  <2>9. ~(action = "allow" \/ (action = "log" /\ before < 3))
        => ~(action = "allow" \/ (action = "log" /\ after < 3))
    BY <2>8
  <2> QED BY <1>1, <1>2, <2>6, <2>7, <2>9, RulingRises
<1> QED BY <1>7, <1>8

-----------------------------------------------------------------------------
(* Whichever validator judges, its ruling rises with the hits.              *)
LEMMA RulingsRise == ASSUME GoesOn, judge \in PatternJudges PROVE Rises(Ruled, Ruled')
<1>1. judge' = judge
  BY DEF GoesOn
<1>2. CASE judge \in {"prompt injection", "jailbreak", "reformulation", "encoded rescan", "pii", "secret"}
  BY <1>1, <1>2, PromptInjectionRises, JailbreakRises, ReformulationRises, EncodedRescanRises,
     PersonalDataRises, SecretsRise, Zenon DEF Ruled
<1>3. CASE judge \notin {"prompt injection", "jailbreak", "reformulation", "encoded rescan", "pii", "secret"}
  BY <1>1, <1>3, PlainJudgesRise DEF Ruled, PatternJudges
<1> QED BY <1>2, <1>3

(* The invariant.                                                           *)
VerdictsInv == VerdictsTypes /\ judge \in PatternJudges

(* More of what a validator looks for is never judged milder, for any       *)
(* patterns, levels, synonyms, limits and thresholds, although hits hide    *)
(* one another (detection.ts:117-135, secret.ts:274-463).                   *)
THEOREM VerdictsNeverMilder == VerdictsSpec => NeverMilder
<1>1. ASSUME VerdictsInit PROVE VerdictsInv
  <2>1. /\ judge \in PatternJudges /\ sensitivity \in Sensitivities /\ hits = {}
        /\ past \in (IF tracked THEN 0..EscalateAt ELSE {0})
    BY <1>1, Zenon DEF VerdictsInit
  <2>2. tracked \in BOOLEAN
    <3>1. tracked \in BOOLEAN \/ tracked \in {FALSE}
      BY <1>1, Zenon DEF VerdictsInit
    <3> QED BY <3>1
  <2>3. past \in Nat
    BY <2>1, VerdictsAssumption
  <2> QED BY <2>1, <2>2, <2>3 DEF VerdictsInv, VerdictsTypes
<1>2. ASSUME VerdictsInv, [VerdictsNext]_verdictsVars
      PROVE  /\ VerdictsInv'
             /\ [Rises(Ruled, Ruled')]_verdictsVars
  <2>1. CASE UNCHANGED verdictsVars
    BY <1>2, <2>1 DEF verdictsVars, VerdictsInv, VerdictsTypes
  <2>2. CASE VerdictsNext
    <3>1. GoesOn
      BY <1>2, <2>2 DEF VerdictsNext, HitAppears, VerdictsInv, VerdictsTypes, GoesOn
    <3>2. VerdictsInv'
      BY <1>2, <3>1 DEF GoesOn, VerdictsInv
    <3> QED BY <1>2, <3>1, <3>2, RulingsRise DEF VerdictsInv
  <2> QED BY <1>2, <2>1, <2>2
<1>3. VerdictsSpec => [][Rises(Ruled, Ruled')]_verdictsVars
  BY <1>1, <1>2, PTL DEF VerdictsSpec
<1>4. [Rises(Ruled, Ruled')]_verdictsVars
      => [(Ruled.refused => Ruled'.refused) /\ Ruled.severity <= Ruled'.severity]_verdictsVars
  BY DEF Rises
<1> QED BY <1>3, <1>4, PTL DEF NeverMilder
-----------------------------------------------------------------------------
(* The composite validators.  First, what is replaced in a text.          *)

(* Where a text begins with another, letter by letter.                    *)
LEMMA StartsPointwise ==
  ASSUME NEW L, NEW t \in Seq(L), NEW m \in Seq(L), Len(m) # 0, NEW i \in Nat \ {0}
  PROVE  StartsAt(t, m, i) <=>
           i + Len(m) - 1 <= Len(t) /\ \A k \in 1 .. Len(m) : t[i + k - 1] = m[k]
<1> DEFINE n == Len(m)
           e == i + n - 1
           u == SubSeq(t, i, e)
<1>1. n \in Nat /\ n # 0 /\ Len(t) \in Nat /\ e \in Nat /\ (e - i) + 1 = n /\ i <= e
  BY LenProperties
<1>2. ASSUME e <= Len(t) PROVE u = m <=> \A k \in 1 .. n : t[i + k - 1] = m[k]
  <2>1. i \in 1 .. Len(t) /\ e \in 1 .. Len(t)
    BY <1>1, <1>2
  <2>2. /\ u \in Seq(L)
        /\ Len(u) = IF i <= e THEN (e - i) + 1 ELSE 0
        /\ \A k \in 1 .. (e - i) + 1 : u[k] = t[i + k - 1]
    <3> HIDE DEF e
    <3> QED BY <2>1, <1>1, SubSeqProperties
  <2>3. Len(u) = n /\ \A k \in 1 .. n : u[k] = t[i + k - 1]
    <3> HIDE DEF u, n, e
    <3> QED BY <1>1, <2>2
  <2> HIDE DEF u
  <2>4. u = m <=> \A k \in 1 .. n : u[k] = m[k]
    <3>1. (Len(u) = Len(m) /\ \A k \in 1 .. Len(u) : u[k] = m[k]) => u = m
      BY <2>2, SeqEqual
    <3> QED BY <2>3, <3>1
  <2> QED BY <2>3, <2>4
<1> QED BY <1>2 DEF StartsAt

(* A letter before a text.                                                *)
LEMMA LetterBefore ==
  ASSUME NEW L, NEW x \in L, NEW u \in Seq(L)
  PROVE  /\ <<x>> \o u \in Seq(L)
         /\ Len(<<x>> \o u) = Len(u) + 1
         /\ (<<x>> \o u)[1] = x
         /\ \A k \in 1 .. Len(u) : (<<x>> \o u)[k + 1] = u[k]
<1>1. <<x>> \in Seq(L) /\ Len(<<x>>) = 1 /\ <<x>>[1] = x /\ Len(u) \in Nat
  BY LenProperties
<1> DEFINE a == <<x>>
           w == a \o u
<1> HIDE DEF a
<1>2. /\ w \in Seq(L) /\ Len(w) = Len(a) + Len(u)
      /\ \A i \in 1 .. Len(a) + Len(u) : w[i] = IF i <= Len(a) THEN a[i] ELSE u[i - Len(a)]
  BY <1>1, ConcatProperties DEF a
<1> HIDE DEF w
<1>3. Len(w) = Len(u) + 1
  BY <1>1, <1>2 DEF a
<1>4. w[1] = x
  BY <1>1, <1>2 DEF a
<1>5. ASSUME NEW k \in 1 .. Len(u) PROVE w[k + 1] = u[k]
  <2>1. /\ k + 1 \in 1 .. Len(a) + Len(u) /\ ~(k + 1 <= Len(a)) /\ (k + 1) - Len(a) = k
    BY <1>1 DEF a
  <2> QED BY <1>2, <2>1
<1> QED BY <1>2, <1>3, <1>4, <1>5 DEF w, a

(* A text that begins with another after that letter.                     *)
LEMMA StartsAfterLetter ==
  ASSUME NEW L, NEW x \in L, NEW u \in Seq(L), NEW m \in Seq(L), Len(m) # 0,
         NEW k \in Nat \ {0}, StartsAt(<<x>> \o u, m, k + 1)
  PROVE  StartsAt(u, m, k)
<1> DEFINE w == <<x>> \o u
<1>1. /\ w \in Seq(L) /\ Len(w) = Len(u) + 1 /\ \A i \in 1 .. Len(u) : w[i + 1] = u[i]
  BY LetterBefore
<1> HIDE DEF w
<1>2. Len(m) \in Nat /\ Len(u) \in Nat /\ k + 1 \in Nat \ {0}
  BY LenProperties
<1>3. StartsAt(w, m, k + 1)
  BY DEF w
<1>4. /\ (k + 1) + Len(m) - 1 <= Len(w)
      /\ \A i \in 1 .. Len(m) : w[(k + 1) + i - 1] = m[i]
  BY <1>1, <1>2, <1>3, StartsPointwise
<1>5. k + Len(m) - 1 <= Len(u)
  BY <1>1, <1>2, <1>4
<1>6. ASSUME NEW i \in 1 .. Len(m) PROVE u[k + i - 1] = m[i]
  <2>1. k + i - 1 \in 1 .. Len(u) /\ (k + i - 1) + 1 = (k + 1) + i - 1
    BY <1>2, <1>5
  <2> DEFINE j == k + i - 1
  <2>2. w[j + 1] = u[j]
    BY <1>1, <2>1
  <2> QED BY <1>4, <2>1, <2>2
<1> QED BY <1>2, <1>5, <1>6, StartsPointwise
-----------------------------------------------------------------------------
(* What Replaced writes from a letter on: ...                             *)
Rest(f, t, m, i) ==
  IF i > Len(t) THEN <<>>
  ELSE IF StartsAt(t, m, i) THEN <<"R">> \o f[i + Len(m)] ELSE <<t[i]>> \o f[i + 1]

(* ... which f is for the last n letters, ...                             *)
AreRests(f, t, m, n) ==
  /\ f = [i \in 1 .. (Len(t) + 1) |-> f[i]]
  /\ \A i \in 1 .. (Len(t) + 1) : i + n > Len(t) => f[i] = Rest(f, t, m, i)

(* ... from the end, ...                                                  *)
LEMMA RestsExist ==
  ASSUME NEW t, Len(t) \in Nat, NEW m, Len(m) \in Nat \ {0}, NEW n \in Nat
  PROVE  \E f : AreRests(f, t, m, n)
<1> DEFINE I == {k \in Nat : \E f : AreRests(f, t, m, k)}
           D == 1 .. (Len(t) + 1)
           l == Len(t)
<1>1. 0 \in I
  <2> DEFINE g == [i \in D |-> <<>>]
  <2>1. \A i \in D : i + 0 > l => g[i] = Rest(g, t, m, i)
    BY DEF Rest
  <2>2. g = [i \in D |-> g[i]]
    OBVIOUS
  <2> HIDE DEF g
  <2>3. AreRests(g, t, m, 0)
    BY <2>1, <2>2 DEF AreRests
  <2> QED BY <2>3
<1>2. ASSUME NEW k \in I PROVE k + 1 \in I
  <2>1. PICK g : AreRests(g, t, m, k)
    OBVIOUS
  <2> DEFINE p == l - k
             r == Rest(g, t, m, p)
             h == [i \in D |-> IF i = p THEN r ELSE g[i]]
  <2>0. k \in Nat /\ p \in Int
    OBVIOUS
  <2>2. \A i \in D : h[i] = IF i = p THEN r ELSE g[i]
    OBVIOUS
  <2>3. h = [i \in D |-> h[i]]
    OBVIOUS
  <2> HIDE DEF h, r
  <2>4. ASSUME NEW i \in D, i + (k + 1) > l PROVE h[i] = Rest(h, t, m, i)
    <3>1. i >= p /\ i \in Nat
      BY <2>0, <2>4
    <3>2. ASSUME i <= l PROVE h[i + 1] = g[i + 1]
      <4>1. i + 1 \in D /\ i + 1 # p
        BY <3>1, <3>2, <2>0
      <4> QED BY <2>2, <4>1
    <3>3. ASSUME i <= l, StartsAt(t, m, i) PROVE h[i + Len(m)] = g[i + Len(m)]
      <4>1. i + Len(m) - 1 <= l
        BY <3>3 DEF StartsAt
      <4>2. i + Len(m) \in D /\ i + Len(m) # p
        <5> DEFINE q == Len(m)
        <5>1. q \in Nat \ {0} /\ i + q - 1 <= l
          BY <4>1
        <5> HIDE DEF q
        <5> QED BY <3>1, <5>1, <2>0 DEF q
      <4> QED BY <2>2, <4>2
    <3>4. Rest(h, t, m, i) = Rest(g, t, m, i)
      <4>1. i > l \/ i <= l
        BY <3>1
      <4> QED BY <3>2, <3>3, <4>1, Zenon DEF Rest
    <3>5. CASE i = p
      BY <2>2, <3>4, <3>5 DEF r
    <3>6. CASE i # p
      <4>1. i + k > l
        BY <3>1, <3>6, <2>0
      <4>2. g[i] = Rest(g, t, m, i)
        BY <2>1, <4>1 DEF AreRests
      <4> QED BY <2>2, <3>4, <3>6, <4>2
    <3> QED BY <3>5, <3>6
  <2>5. AreRests(h, t, m, k + 1)
    BY <2>3, <2>4 DEF AreRests
  <2> QED BY <2>5
<1> HIDE DEF I
<1>3. I = Nat
  <2>1. I \in SUBSET Nat
    BY DEF I
  <2> QED BY <1>1, <1>2, <2>1, NumbersByInduction
<1> QED BY <1>3 DEF I

(* ... which is the function in the definition of Replaced.               *)
From(t, m) ==
  CHOOSE from : from = [i \in 1 .. (Len(t) + 1) |->
    IF i > Len(t) THEN <<>>
    ELSE IF StartsAt(t, m, i) THEN <<"R">> \o from[i + Len(m)] ELSE <<t[i]>> \o from[i + 1]]

(* It starts at the first letter, ...                                     *)
LEMMA ReplacedIsFrom ==
  ASSUME NEW t, NEW m
  PROVE  Replaced(t, m) = From(t, m)[1]
BY Zenon DEF Replaced, From

(* ... and does what its definition says.                                 *)
LEMMA FromStep ==
  ASSUME NEW t, Len(t) \in Nat, NEW m, Len(m) \in Nat \ {0}
  PROVE  \A i \in 1 .. (Len(t) + 1) : From(t, m)[i] = Rest(From(t, m), t, m, i)
<1>1. PICK f : AreRests(f, t, m, Len(t))
  BY RestsExist
<1>2. \A i \in 1 .. (Len(t) + 1) : i + Len(t) > Len(t)
  OBVIOUS
<1>3. f = [i \in 1 .. (Len(t) + 1) |-> Rest(f, t, m, i)]
  BY <1>1, <1>2, Zenon DEF AreRests
<1>4. \E from : from = [i \in 1 .. (Len(t) + 1) |->
    IF i > Len(t) THEN <<>>
    ELSE IF StartsAt(t, m, i) THEN <<"R">> \o from[i + Len(m)] ELSE <<t[i]>> \o from[i + 1]]
  BY <1>3, Zenon DEF Rest
<1>5. From(t, m) = [i \in 1 .. (Len(t) + 1) |-> 
    IF i > Len(t) THEN <<>>
    ELSE IF StartsAt(t, m, i) THEN <<"R">> \o From(t, m)[i + Len(m)] ELSE <<t[i]>> \o From(t, m)[i + 1]]
  BY <1>4, Zenon DEF From
<1> QED BY <1>5, Zenon DEF Rest
-----------------------------------------------------------------------------
(* What is said of a rest f, which was written for t from letter i on: so *)
(* far as it has no replacement it is as t was, ...                       *)
AsBefore(f, t, i) ==
  \A p \in 0 .. Len(f) :
    (\A k \in 1 .. p : f[k] # "R") => i + p - 1 <= Len(t) /\ \A k \in 1 .. p : f[k] = t[i + k - 1]

(* ... and no needle of N occurs in it.                                   *)
Clean(f, N) == \A w \in N : ~Occurs(w, f)

(* A needle is of letters other than the replacement.                     *)
Needle(w, L) == w \in Seq(L) /\ Len(w) \in Nat \ {0} /\ \A k \in 1 .. Len(w) : w[k] # "R"

(* With a letter before it, a rest is as t was: ...                       *)
LEMMA AsBeforeLetter ==
  ASSUME NEW L, NEW t \in Seq(L), NEW u \in Seq(L), NEW i \in 1 .. Len(t),
         AsBefore(u, t, i + 1)
  PROVE  AsBefore(<<t[i]>> \o u, t, i)
<1> DEFINE x == t[i]
           f == <<x>> \o u
<1>0. x \in L /\ Len(u) \in Nat /\ Len(t) \in Nat
  BY LenProperties
<1>1. Len(f) = Len(u) + 1 /\ f[1] = x /\ \A k \in 1 .. Len(u) : f[k + 1] = u[k]
  <2> HIDE DEF x
  <2> QED BY <1>0, LetterBefore
<1> HIDE DEF f
<1>2. ASSUME NEW p \in 0 .. Len(f), \A k \in 1 .. p : f[k] # "R", p # 0
      PROVE  i + p - 1 <= Len(t) /\ \A k \in 1 .. p : f[k] = t[i + k - 1]
  <2> DEFINE q == p - 1
  <2>1. q \in 0 .. Len(u) /\ p = q + 1 /\ i + p - 1 = (i + 1) + q - 1
    BY <1>0, <1>1, <1>2
  <2>2. \A k \in 1 .. q : k \in 1 .. Len(u) /\ k + 1 \in 1 .. p /\ f[k + 1] = u[k]
    BY <1>1, <2>1, SMTT(40)
  <2>3. \A k \in 1 .. q : u[k] # "R"
    BY <1>2, <2>2
  <2>4. (i + 1) + q - 1 <= Len(t) /\ \A k \in 1 .. q : u[k] = t[(i + 1) + k - 1]
    BY <2>1, <2>3 DEF AsBefore
  <2>5. ASSUME NEW k \in 1 .. p PROVE f[k] = t[i + k - 1]
    <3>1. CASE k = 1
      <4>1. i + k - 1 = i
        BY <3>1
      <4> QED BY <1>1, <3>1, <4>1 DEF x
    <3>2. CASE k # 1
      <4> DEFINE j == k - 1
      <4>1. j \in 1 .. q /\ k = j + 1 /\ (i + 1) + j - 1 = i + k - 1
        BY <3>2, <2>1
      <4>2. f[j + 1] = u[j] /\ u[j] = t[(i + 1) + j - 1]
        BY <2>2, <2>4, <4>1
      <4> QED BY <4>1, <4>2
    <3> QED BY <3>1, <3>2
  <2> QED BY <2>1, <2>4, <2>5
<1>3. AsBefore(f, t, i)
  <2>1. \A p \in 0 .. Len(f) : p = 0 => i + p - 1 <= Len(t) /\ \A k \in 1 .. p : f[k] = t[i + k - 1]
    BY <1>0
  <2> QED BY <1>2, <2>1 DEF AsBefore
<1> QED BY <1>3 DEF f, x

(* ... with the replacement, trivially.                                   *)
LEMMA AsBeforeReplacement ==
  ASSUME NEW L, "R" \in L, NEW u \in Seq(L), NEW t \in Seq(L), NEW i \in 1 .. Len(t)
  PROVE  AsBefore(<<"R">> \o u, t, i)
<1> DEFINE f == <<"R">> \o u
<1>1. f[1] = "R" /\ Len(t) \in Nat
  BY LetterBefore, LenProperties
<1> HIDE DEF f
<1>2. ASSUME NEW p \in 0 .. Len(f), \A k \in 1 .. p : f[k] # "R"
      PROVE  p = 0
  <2>1. p \in Nat
    OBVIOUS
  <2>2. p # 0 => 1 \in 1 .. p
    BY <2>1
  <2> QED BY <1>1, <1>2, <2>2
<1>3. AsBefore(f, t, i)
  <2>1. \A p \in 0 .. Len(f) : p = 0 => i + p - 1 <= Len(t) /\ \A k \in 1 .. p : f[k] = t[i + k - 1]
    BY <1>1
  <2> QED BY <1>2, <2>1 DEF AsBefore
<1> QED BY <1>3 DEF f

(* A needle that a rest begins with stood there.                          *)
LEMMA StoodThere ==
  ASSUME NEW L, NEW t \in Seq(L), NEW f \in Seq(L), NEW i \in Nat \ {0}, AsBefore(f, t, i),
         NEW w, Needle(w, L), StartsAt(f, w, 1)
  PROVE  StartsAt(t, w, i) /\ i \in DOMAIN t
<1> DEFINE p == Len(w)
<1>0. w \in Seq(L) /\ p \in Nat \ {0} /\ \A k \in 1 .. p : w[k] # "R"
  BY DEF Needle
<1>1. /\ 1 + p - 1 <= Len(f)
      /\ \A k \in 1 .. p : f[1 + k - 1] = w[k]
  <2>1. PICK one \in Nat \ {0} : one = 1
    OBVIOUS
  <2>2. StartsAt(f, w, one) /\ Len(w) # 0
    BY <1>0, <2>1
  <2>3. one + Len(w) - 1 <= Len(f) /\ \A k \in 1 .. Len(w) : f[one + k - 1] = w[k]
    BY <1>0, <2>2, StartsPointwise
  <2> QED BY <2>1, <2>3
<1>2. Len(t) \in Nat /\ Len(f) \in Nat /\ DOMAIN t = 1 .. Len(t)
  BY LenProperties
<1> HIDE DEF p
<1>3. p \in 0 .. Len(f) /\ \A k \in 1 .. p : f[k] = w[k]
  <2>1. 1 + p - 1 = p /\ \A k \in 1 .. p : 1 + k - 1 = k
    BY <1>0
  <2> QED BY <1>0, <1>1, <1>2, <2>1
<1>4. i + p - 1 <= Len(t) /\ \A k \in 1 .. p : f[k] = t[i + k - 1]
  BY <1>0, <1>3 DEF AsBefore
<1>5. StartsAt(t, w, i)
  <2>1. i + Len(w) - 1 <= Len(t) /\ \A k \in 1 .. Len(w) : t[i + k - 1] = w[k]
    BY <1>3, <1>4 DEF p
  <2> QED BY <1>0, <2>1, StartsPointwise DEF p
<1>6. i \in 1 .. Len(t)
  BY <1>0, <1>2, <1>4
<1> QED BY <1>2, <1>5, <1>6

(* A rest with one letter more is clean if nothing starts at that letter.   *)
LEMMA CleanLetter ==
  ASSUME NEW L, NEW x \in L, NEW u \in Seq(L), NEW N, \A w \in N : Needle(w, L),
         Clean(u, N), \A w \in N : ~StartsAt(<<x>> \o u, w, 1)
  PROVE  Clean(<<x>> \o u, N)
<1> DEFINE f == <<x>> \o u
<1>1. Len(f) = Len(u) + 1 /\ f \in Seq(L) /\ Len(u) \in Nat
  BY LetterBefore, LenProperties
<1>2. ASSUME NEW w \in N, NEW k \in DOMAIN f, StartsAt(f, w, k) PROVE FALSE
  <2>0. w \in Seq(L) /\ Len(w) # 0 /\ Len(w) \in Nat
    BY DEF Needle
  <2>1. k \in 1 .. Len(f)
    BY <1>1, LenProperties
  <2>2. k # 1
    BY <1>2
  <2> DEFINE j == k - 1
  <2>3. j \in Nat \ {0} /\ k = j + 1 /\ j \in 1 .. Len(u)
    <3> HIDE DEF f
    <3> QED BY <1>1, <2>1, <2>2
  <2>4. StartsAt(<<x>> \o u, w, j + 1)
    BY <1>2, <2>3
  <2>5. StartsAt(u, w, j)
    <3> HIDE DEF j
    <3> QED BY <2>0, <2>3, <2>4, StartsAfterLetter
  <2>6. j \in DOMAIN u
    BY <2>3, LenProperties
  <2> QED BY <2>5, <2>6 DEF Clean, Occurs
<1>3. Clean(f, N)
  <2> HIDE DEF f
  <2> QED BY <1>2, Zenon DEF Clean, Occurs
<1> QED BY <1>3 DEF f
-----------------------------------------------------------------------------
(* What replacing m leaves of t from a letter on.                         *)
RestFacts(f, t, L, N, i) == f[i] \in Seq(L) /\ AsBefore(f[i], t, i) /\ Clean(f[i], N)

(* So it is, for needles that did not occur and for the one replaced.     *)
LEMMA RestIsClean ==
  ASSUME NEW L, "R" \in L, NEW t \in Seq(L), NEW m, Needle(m, L), NEW N,
         \A w \in N : Needle(w, L) /\ (w = m \/ ~Occurs(w, t))
  PROVE  \A i \in 1 .. (Len(t) + 1) : RestFacts(From(t, m), t, L, N, i)
<1> DEFINE f == From(t, m)
           l == Len(t)
           D == 1 .. (l + 1)
           P(i) == RestFacts(f, t, L, N, i)
           I == {n \in Nat : \A i \in D : i + n > l => P(i)}
<1>0. l \in Nat /\ Len(m) \in Nat \ {0} /\ DOMAIN t = 1 .. l
  BY LenProperties DEF Needle
<1>a. \A i \in D : f[i] = Rest(f, t, m, i)
  BY <1>0, FromStep
<1> HIDE DEF f
<1>1. ASSUME NEW i \in D, \A j \in D : i < j => P(j) PROVE P(i)
  <2>1. CASE i > l
    <3>1. f[i] = <<>>
      BY <1>a, <2>1, Zenon DEF Rest
    <3>2. <<>> \in Seq(L) /\ Len(<<>>) = 0 /\ DOMAIN <<>> = {}
      BY EmptySeq
    <3>3. Clean(<<>>, N)
      BY <3>2, Zenon DEF Clean, Occurs
    <3>4. AsBefore(<<>>, t, i)
      <4>1. i = l + 1
        BY <1>0, <2>1
      <4>2. \A p \in 0 .. 0 : p = 0 /\ i + p - 1 <= l /\ 1 .. p = {}
        BY <1>0, <4>1
      <4> QED BY <3>2, <4>2, SMTT(40) DEF AsBefore
    <3> QED BY <3>1, <3>2, <3>3, <3>4 DEF RestFacts
  <2>2. CASE i <= l /\ StartsAt(t, m, i)
    <3> DEFINE j == i + Len(m)
    <3>1. f[i] = <<"R">> \o f[j]
      <4>1. ~(i > l)
        BY <1>0, <2>2
      <4> QED BY <1>a, <2>2, <4>1, Zenon DEF Rest
    <3>2. j \in D /\ i < j /\ i \in 1 .. l
      <4>1. i + Len(m) - 1 <= l
        BY <2>2 DEF StartsAt
      <4> QED BY <1>0, <2>2, <4>1
    <3> HIDE DEF j
    <3>3. f[j] \in Seq(L) /\ Clean(f[j], N)
      BY <1>1, <3>2 DEF RestFacts
    <3> DEFINE u == f[j]
    <3> HIDE DEF u
    <3>4. u \in Seq(L) /\ Clean(u, N) /\ f[i] = <<"R">> \o u
      BY <3>1, <3>3 DEF u
    <3>5. f[i] \in Seq(L) /\ f[i][1] = "R"
      BY <3>4, LetterBefore
    <3>6. AsBefore(f[i], t, i)
      BY <3>2, <3>4, AsBeforeReplacement
    <3>7. ASSUME NEW w \in N, StartsAt(f[i], w, 1) PROVE FALSE
      <4>0. Needle(w, L) /\ w \in Seq(L) /\ Len(w) \in Nat \ {0} /\ w[1] # "R"
        BY DEF Needle
      <4>1. PICK one \in Nat \ {0} : one = 1
        OBVIOUS
      <4>2. \A k \in 1 .. Len(w) : f[i][one + k - 1] = w[k]
        BY <3>5, <3>7, <4>0, <4>1, StartsPointwise
      <4>3. one + 1 - 1 = 1 /\ 1 \in 1 .. Len(w)
        BY <4>0, <4>1
      <4> QED BY <3>5, <4>0, <4>2, <4>3
    <3>8. Clean(f[i], N)
      BY <3>4, <3>7, CleanLetter
    <3> QED BY <3>5, <3>6, <3>8 DEF RestFacts
  <2>3. CASE i <= l /\ ~StartsAt(t, m, i)
    <3> DEFINE u == f[i + 1]
               x == t[i]
    <3>1. f[i] = <<x>> \o u
      <4>1. ~(i > l)
        BY <1>0, <2>3
      <4> QED BY <1>a, <2>3, <4>1, Zenon DEF Rest
    <3>2. i + 1 \in D /\ i < i + 1 /\ i \in 1 .. l /\ i \in Nat \ {0}
      BY <1>0, <2>3
    <3>3. u \in Seq(L) /\ Clean(u, N) /\ AsBefore(u, t, i + 1)
      BY <1>1, <3>2 DEF RestFacts
    <3> HIDE DEF u
    <3>4. AsBefore(f[i], t, i)
      BY <3>1, <3>2, <3>3, AsBeforeLetter DEF x
    <3>5. x \in L
      BY <3>2
    <3> HIDE DEF x
    <3>6. f[i] \in Seq(L)
      BY <3>1, <3>3, <3>5, LetterBefore
    <3>7. ASSUME NEW w \in N, StartsAt(f[i], w, 1) PROVE FALSE
      <4>1. StartsAt(t, w, i) /\ i \in DOMAIN t
        BY <3>2, <3>4, <3>6, <3>7, StoodThere
      <4>2. w = m
        BY <4>1, Zenon DEF Occurs
      <4> QED BY <2>3, <4>1, <4>2
    <3>8. Clean(f[i], N)
      BY <3>1, <3>3, <3>5, <3>7, CleanLetter
    <3> QED BY <3>4, <3>6, <3>8 DEF RestFacts
  <2> QED BY <1>0, <2>1, <2>2, <2>3
<1> HIDE DEF P
<1>2. 0 \in I
  <2>1. ASSUME NEW i \in D, i + 0 > l PROVE P(i)
    <3>1. \A j \in D : ~(i < j)
      BY <1>0, <2>1
    <3> QED BY <1>1, <3>1
  <2> QED BY <2>1
<1>3. ASSUME NEW n \in I PROVE n + 1 \in I
  <2>1. ASSUME NEW i \in D, i + (n + 1) > l PROVE P(i)
    <3>1. \A j \in D : i < j => j + n > l
      BY <1>0, <2>1
    <3> QED BY <1>1, <1>3, <3>1
  <2> QED BY <2>1
<1>4. I = Nat
  <2>1. I \in SUBSET Nat
    OBVIOUS
  <2> HIDE DEF I
  <2> QED BY <1>2, <1>3, <2>1, NumbersByInduction
<1>5. l \in I /\ \A i \in D : i + l > l
  BY <1>0, <1>4
<1>6. \A i \in D : P(i)
  BY <1>5
<1> QED BY <1>6 DEF P, f

(* So the needle that is replaced is gone, and none comes that was not    *)
(* there.                                                                 *)
LEMMA ReplacedFacts ==
  ASSUME NEW L, "R" \in L, NEW t \in Seq(L), NEW m, Needle(m, L)
  PROVE  /\ Replaced(t, m) \in Seq(L)
         /\ ~Occurs(m, Replaced(t, m))
         /\ \A w : Needle(w, L) /\ ~Occurs(w, t) => ~Occurs(w, Replaced(t, m))
<1>1. ASSUME NEW w, Needle(w, L), ~Occurs(w, t)
      PROVE  /\ Replaced(t, m) \in Seq(L)
             /\ ~Occurs(m, Replaced(t, m)) /\ ~Occurs(w, Replaced(t, m))
  <2> DEFINE N == {m, w}
  <2>1. \A v \in N : Needle(v, L) /\ (v = m \/ ~Occurs(v, t))
    BY <1>1
  <2>2. 1 \in 1 .. (Len(t) + 1)
    BY LenProperties
  <2> HIDE DEF N
  <2>3. RestFacts(From(t, m), t, L, N, 1)
    BY <2>1, <2>2, RestIsClean
  <2> QED BY <2>3, ReplacedIsFrom DEF RestFacts, Clean, N
<1>2. Replaced(t, m) \in Seq(L) /\ ~Occurs(m, Replaced(t, m))
  <2> DEFINE N == {m}
  <2>1. \A v \in N : Needle(v, L) /\ (v = m \/ ~Occurs(v, t))
    OBVIOUS
  <2>2. 1 \in 1 .. (Len(t) + 1)
    BY LenProperties
  <2> HIDE DEF N
  <2>3. RestFacts(From(t, m), t, L, N, 1)
    BY <2>1, <2>2, RestIsClean
  <2> QED BY <2>3, ReplacedIsFrom DEF RestFacts, Clean, N
<1> QED BY <1>1, <1>2
-----------------------------------------------------------------------------
(* One needle after the other is replaced: there is such a function, ...  *)
AreRemovals(g, t, ns, n) ==
  g = [k \in 0 .. n |-> IF k = 0 THEN t ELSE Replaced(g[k - 1], ns[k])]

(* ... by induction on n, ...                                             *)
LEMMA RemovalsExist ==
  ASSUME NEW t, NEW ns, NEW n \in Nat
  PROVE  \E g : AreRemovals(g, t, ns, n)
<1> DEFINE I == {m \in Nat : \E g : AreRemovals(g, t, ns, m)}
<1>1. 0 \in I
  <2> DEFINE g == [k \in 0 .. 0 |-> t]
  <2>1. \A k \in 0 .. 0 : k = 0
    OBVIOUS
  <2>2. AreRemovals(g, t, ns, 0)
    BY <2>1 DEF AreRemovals
  <2> QED BY <2>2
<1>2. ASSUME NEW m \in I PROVE m + 1 \in I
  <2>1. PICK g : AreRemovals(g, t, ns, m)
    OBVIOUS
  <2> DEFINE h == [k \in 0 .. m + 1 |-> IF k = m + 1 THEN Replaced(g[m], ns[m + 1]) ELSE g[k]]
  <2>2. \A k \in 0 .. m : k \in 0 .. m + 1 /\ h[k] = g[k]
    OBVIOUS
  <2>3. \A k \in 0 .. m + 1 : k \in 0 .. m \/ k = m + 1
    OBVIOUS
  <2>4. \A k \in 0 .. m : k = 0 \/ k - 1 \in 0 .. m
    OBVIOUS
  <2>5. m + 1 # 0 /\ (m + 1) - 1 = m /\ m \in 0 .. m /\ m + 1 \in 0 .. m + 1
    OBVIOUS
  <2>6. h[m + 1] = Replaced(h[m], ns[m + 1])
    BY <2>2, <2>5
  <2>7. h = [k \in 0 .. m + 1 |-> h[k]]
    OBVIOUS
  <2> HIDE DEF h
  <2>8. ASSUME NEW k \in 0 .. m + 1
        PROVE  h[k] = IF k = 0 THEN t ELSE Replaced(h[k - 1], ns[k])
    <3>1. CASE k \in 0 .. m
      <4>1. g[k] = IF k = 0 THEN t ELSE Replaced(g[k - 1], ns[k])
        BY <2>1, <3>1 DEF AreRemovals
      <4>2. h[k] = g[k] /\ (k # 0 => h[k - 1] = g[k - 1])
        BY <2>2, <2>4, <3>1
      <4> QED BY <4>1, <4>2
    <3>2. CASE k = m + 1
      BY <2>5, <2>6, <3>2
    <3> QED BY <2>3, <3>1, <3>2
  <2>9. AreRemovals(h, t, ns, m + 1)
    BY <2>7, <2>8 DEF AreRemovals
  <2> QED BY <2>9
<1> HIDE DEF I
<1>3. I = Nat
  <2>1. I \in SUBSET Nat
    BY DEF I
  <2> QED BY <1>1, <1>2, <2>1, NumbersByInduction
<1> QED BY <1>3 DEF I

(* ... it is the one in the definition of Redaction, ...                  *)
Removals(t, ns) ==
  CHOOSE g : g = [k \in 0 .. Len(ns) |-> IF k = 0 THEN t ELSE Replaced(g[k - 1], ns[k])]

(* ... for the needles that a redaction of t knows, ...                   *)
Known(t) == [k \in DOMAIN Redactors |-> Redactors[k].needle] \o Shown(t)

(* ... the last value of which is the redaction, ...                      *)
LEMMA RedactionIsRemovals ==
  ASSUME NEW t
  PROVE  Redaction(t) = Removals(t, Known(t))[Len(Known(t))]
BY Zenon DEF Redaction, Removals, Known

(* ... and leaves none of the needles.                                    *)
LEMMA RemovalsFacts ==
  ASSUME NEW L, "R" \in L, NEW t \in Seq(L), NEW ns, Len(ns) \in Nat,
         \A k \in 1 .. Len(ns) : Needle(ns[k], L)
  PROVE  /\ Removals(t, ns)[Len(ns)] \in Seq(L)
         /\ \A k \in 1 .. Len(ns) : ~Occurs(ns[k], Removals(t, ns)[Len(ns)])
<1> DEFINE g == Removals(t, ns)
           n == Len(ns)
<1>1. PICK f : AreRemovals(f, t, ns, n)
  BY RemovalsExist
<1>2. \E h : h = [k \in 0 .. Len(ns) |-> IF k = 0 THEN t ELSE Replaced(h[k - 1], ns[k])]
  BY <1>1, Zenon DEF AreRemovals
<1>3. g = [k \in 0 .. n |-> IF k = 0 THEN t ELSE Replaced(g[k - 1], ns[k])]
  BY <1>2, Zenon DEF Removals
<1> HIDE DEF g
<1> DEFINE I == {k \in Nat : k <= n => g[k] \in Seq(L) /\ \A j \in 1 .. k : ~Occurs(ns[j], g[k])}
<1>4. 0 \in I
  <2>1. 0 \in 0 .. n /\ \A j \in 1 .. 0 : FALSE
    OBVIOUS
  <2> QED BY <1>3, <2>1
<1>5. ASSUME NEW k \in I PROVE k + 1 \in I
  <2>1. ASSUME k + 1 <= n
        PROVE  g[k + 1] \in Seq(L) /\ \A j \in 1 .. k + 1 : ~Occurs(ns[j], g[k + 1])
    <3> DEFINE u == g[k]
               w == ns[k + 1]
    <3>1. /\ k \in Nat /\ k + 1 \in 0 .. n /\ k + 1 # 0 /\ (k + 1) - 1 = k /\ k + 1 \in 1 .. n
          /\ k <= n
      BY <2>1
    <3>2. g[k + 1] = Replaced(u, w)
      BY <1>3, <3>1
    <3>3. u \in Seq(L) /\ \A j \in 1 .. k : ~Occurs(ns[j], u)
      BY <3>1
    <3>4. Needle(w, L) /\ \A j \in 1 .. k : Needle(ns[j], L)
      BY <3>1
    <3> HIDE DEF u, w
    <3>5. Replaced(u, w) \in Seq(L) /\ ~Occurs(w, Replaced(u, w))
      BY <3>3, <3>4, ReplacedFacts
    <3>6. ASSUME NEW j \in 1 .. k PROVE ~Occurs(ns[j], Replaced(u, w))
      BY <3>3, <3>4, ReplacedFacts
    <3>7. \A j \in 1 .. k + 1 : j \in 1 .. k \/ j = k + 1
      BY <3>1
    <3> QED BY <3>2, <3>5, <3>6, <3>7 DEF w
  <2> QED BY <2>1
<1>6. I = Nat
  <2>1. I \in SUBSET Nat
    OBVIOUS
  <2> HIDE DEF I
  <2> QED BY <1>4, <1>5, <2>1, NumbersByInduction
<1>7. n \in I /\ n <= n
  BY <1>6
<1> QED BY <1>7 DEF g
-----------------------------------------------------------------------------
(* A finding shows a beginning of the needle, with a letter at least.     *)
LEMMA CutIsNeedle ==
  ASSUME NEW L, NEW m, Needle(m, L)
  PROVE  Needle(Cut(m), L)
<1>1. /\ m \in Seq(L) /\ Len(m) \in Nat \ {0} /\ MaxShown \in Nat \ {0}
      /\ \A k \in 1 .. Len(m) : m[k] # "R"
  BY CompositesAssumption DEF Needle
<1>2. CASE Len(m) <= MaxShown
  BY <1>2 DEF Cut
<1>3. CASE ~(Len(m) <= MaxShown)
  <2> DEFINE c == SubSeq(m, 1, MaxShown)
  <2>1. MaxShown \in 1 .. Len(m) /\ 1 \in 1 .. Len(m)
    BY <1>1, <1>3
  <2>2. /\ c \in Seq(L) /\ Len(c) = IF 1 <= MaxShown THEN (MaxShown - 1) + 1 ELSE 0
        /\ \A k \in 1 .. (MaxShown - 1) + 1 : c[k] = m[1 + k - 1]
    BY <1>1, <2>1, SubSeqProperties
  <2> HIDE DEF c
  <2>3. Len(c) = MaxShown /\ \A k \in 1 .. MaxShown : c[k] = m[k] /\ k \in 1 .. Len(m)
    BY <1>1, <2>1, <2>2
  <2>4. Cut(m) = c
    BY <1>3 DEF Cut, c
  <2> QED BY <1>1, <2>2, <2>3, <2>4 DEF Needle
<1> QED BY <1>2, <1>3

(* The chain c lets t pass, ...                                           *)
Passes(c, t) == \A v \in DOMAIN c : ~Occurs(c[v].needle, t)

(* ... and s is cleared of what a redaction of t by c is meant to remove. *)
Cleared(c, t, s) ==
  /\ \A v \in ToSet(c) : v.redacts => ~Occurs(v.needle, s)
  /\ \A v \in DOMAIN c :
       /\ Occurs(c[v].needle, t) /\ \A w \in DOMAIN c : Occurs(c[w].needle, t) => v <= w
       /\ c[v].shows = "match"
       => ~Occurs(Cut(c[v].needle), s)

(* What passes the chain of the model is accepted.                        *)
LEMMA AcceptedPasses ==
  ASSUME NEW t
  PROVE  Accepted(t) <=> Passes(chain, t)
BY DEF Accepted, Refusers, Passes

(* A text that is refused is refused first by someone.                    *)
LEMMA FirstRefuserFacts ==
  ASSUME chain \in Seq(Judges), NEW t, ~Accepted(t)
  PROVE  \E v \in DOMAIN chain :
           /\ FirstRefuser(t) = chain[v] /\ Occurs(chain[v].needle, t)
           /\ \A w \in DOMAIN chain : Occurs(chain[w].needle, t) => v <= w
<1> DEFINE I == Refusers(t)
<1>1. I \in SUBSET Nat /\ I # {}
  <2>1. DOMAIN chain \in SUBSET Nat
    BY LenProperties
  <2> QED BY <2>1 DEF Accepted, Refusers
<1> HIDE DEF I
<1>2. \E v \in I : \A w \in I : v <= w
  BY <1>1, LeastNumber
<1> DEFINE c == CHOOSE v \in I : \A w \in I : v <= w
<1>3. c \in I /\ \A w \in I : c <= w
  BY <1>2, Zenon
<1>4. FirstRefuser(t) = chain[c]
  BY Zenon DEF FirstRefuser, I
<1> HIDE DEF c
<1> QED BY <1>3, <1>4 DEF I, Refusers

(* The letters, with the replacement and that of the separator.           *)
Letters == STRING \cup {"R", "n"}

(* The assumption on the needles, as the lemmas need it.                  *)
LEMMA JudgesNeedles == \A v \in Judges : Needle(v.needle, Letters)
<1> SUFFICES ASSUME NEW v \in Judges PROVE Needle(v.needle, Letters)
  OBVIOUS
<1> DEFINE m == v.needle
<1>1. m \in Seq(STRING \ {"R"}) /\ m # <<>>
  BY CompositesAssumption
<1> HIDE DEF m
<1>2. Len(m) \in Nat /\ \A k \in 1 .. Len(m) : m[k] \in STRING \ {"R"}
  BY <1>1, LenProperties
<1>3. Len(m) # 0
  BY <1>1, EmptySeq
<1>4. m \in Seq(Letters)
  <2>1. (STRING \ {"R"}) \subseteq Letters
    BY DEF Letters
  <2> QED BY <1>1, <2>1, SeqMonotonic
<1> QED BY <1>2, <1>3, <1>4 DEF Needle, m

(* A redaction is cleared of what it is meant to remove.                  *)
LEMMA RedactionIsCleared ==
  ASSUME chain \in Seq(Judges), NEW t \in Seq(Letters), ~Accepted(t)
  PROVE  Redaction(t) \in Seq(Letters) /\ Cleared(chain, t, Redaction(t))
<1> DEFINE N == {v.needle : v \in Judges} \cup {Cut(v.needle) : v \in Judges}
           r == Redactors
           a == [k \in DOMAIN r |-> r[k].needle]
           b == Shown(t)
           ns == Known(t)
           s == Redaction(t)
<1>1. r \in Seq(Judges) /\ ToSet(r) = {v \in ToSet(chain) : v.redacts}
  <2> DEFINE S == {v \in ToSet(chain) : v.redacts}
  <2>1. r = Filter(chain, S)
    BY DEF Redactors
  <2> HIDE DEF S
  <2>2. r \in Seq(Judges) /\ ToSet(r) = ToSet(chain) \cap S
    BY <2>1, FilterFacts
  <2>3. ToSet(chain) \cap S = S
    BY DEF S
  <2> QED BY <2>2, <2>3 DEF S
<1>2. PICK f \in DOMAIN chain :
        /\ FirstRefuser(t) = chain[f] /\ Occurs(chain[f].needle, t)
        /\ \A w \in DOMAIN chain : Occurs(chain[w].needle, t) => f <= w
  BY FirstRefuserFacts
<1>0. /\ DOMAIN chain = 1 .. Len(chain) /\ Len(chain) \in Nat
      /\ \A v \in DOMAIN chain : chain[v] \in Judges
  BY LenProperties
<1>3. b = IF chain[f].shows = "match" THEN <<Cut(chain[f].needle)>> ELSE <<>>
  BY <1>2 DEF Shown
<1>4. ns = a \o b
  BY Zenon DEF Known
<1> HIDE DEF r, b, ns, s
<1>5. /\ DOMAIN r = 1 .. Len(r) /\ Len(r) \in Nat /\ \A k \in 1 .. Len(r) : r[k] \in Judges
      /\ ToSet(r) = {r[k] : k \in 1 .. Len(r)}
  BY <1>1, LenProperties DEF ToSet
<1>6. a \in Seq(N) /\ Len(a) = Len(r) /\ \A k \in 1 .. Len(r) : a[k] = r[k].needle
  <2>1. a \in [1 .. Len(r) -> N]
    BY <1>5
  <2>2. a \in Seq(N)
    <3> HIDE DEF a, N
    <3> QED BY <1>5, <2>1
  <2>3. \A k \in 1 .. Len(r) : a[k] = r[k].needle
    BY <1>5
  <2> HIDE DEF a
  <2> QED BY <1>5, <2>1, <2>2, <2>3, LenProperties
<1> HIDE DEF a
<1>7. b \in Seq(N) /\ Len(b) \in Nat /\ (chain[f].shows = "match" => Len(b) = 1 /\ b[1] = Cut(chain[f].needle))
  <2>1. Cut(chain[f].needle) \in N
    BY <1>0
  <2> DEFINE m == Cut(chain[f].needle)
  <2> HIDE DEF N, m
  <2>2. <<m>> \in Seq(N) /\ Len(<<m>>) = 1 /\ <<m>>[1] = m /\ <<>> \in Seq(N) /\ Len(<<>>) = 0
    BY <2>1 DEF m
  <2>3. 0 \in Nat /\ 1 \in Nat
    OBVIOUS
  <2>4. CASE chain[f].shows = "match"
    <3>1. b = <<m>>
      BY <1>3, <2>4, Zenon DEF m
    <3> QED BY <2>2, <2>3, <2>4, <3>1, Zenon DEF m
  <2>5. CASE ~(chain[f].shows = "match")
    <3>1. b = <<>>
      BY <1>3, <2>5, Zenon
    <3> QED BY <2>2, <2>3, <2>5, <3>1, Zenon
  <2> QED BY <2>4, <2>5, Zenon
<1>8. /\ ns \in Seq(N) /\ Len(ns) = Len(a) + Len(b)
      /\ \A i \in 1 .. Len(a) + Len(b) : ns[i] = IF i <= Len(a) THEN a[i] ELSE b[i - Len(a)]
  <2> HIDE DEF N
  <2>1. a \in Seq(N) /\ b \in Seq(N)
    BY <1>6, <1>7
  <2> DEFINE u == a \o b
  <2>2. /\ u \in Seq(N) /\ Len(u) = Len(a) + Len(b)
        /\ \A i \in 1 .. Len(a) + Len(b) : u[i] = IF i <= Len(a) THEN a[i] ELSE b[i - Len(a)]
    BY <2>1, ConcatProperties, Zenon
  <2> QED BY <1>4, <2>2, Zenon
<1>9. \A k \in 1 .. Len(ns) : Needle(ns[k], Letters)
  <2>1. \A w \in N : Needle(w, Letters)
    BY JudgesNeedles, CutIsNeedle
  <2>2. \A k \in 1 .. Len(ns) : ns[k] \in N
    <3> HIDE DEF N
    <3> QED BY <1>8, LenProperties
  <2> QED BY <2>1, <2>2
<1>10. s \in Seq(Letters) /\ \A k \in 1 .. Len(ns) : ~Occurs(ns[k], s)
  <2>1. "R" \in Letters
    BY DEF Letters
  <2>2. s = Removals(t, ns)[Len(ns)]
    BY RedactionIsRemovals DEF s, ns
  <2>3. Len(ns) \in Nat
    BY <1>8, LenProperties
  <2> QED BY <1>9, <2>1, <2>2, <2>3, RemovalsFacts
<1>11. ASSUME NEW v \in ToSet(chain), v.redacts PROVE ~Occurs(v.needle, s)
  <2>1. v \in ToSet(r)
    BY <1>1, <1>11
  <2>2. PICK k \in 1 .. Len(r) : v = r[k]
    BY <1>5, <2>1
  <2>3. k \in 1 .. Len(ns) /\ ns[k] = a[k]
    BY <1>5, <1>6, <1>7, <1>8
  <2> QED BY <1>6, <1>10, <2>2, <2>3
<1>12. ASSUME NEW v \in DOMAIN chain, Occurs(chain[v].needle, t),
              \A w \in DOMAIN chain : Occurs(chain[w].needle, t) => v <= w,
              chain[v].shows = "match"
       PROVE  ~Occurs(Cut(chain[v].needle), s)
  <2>1. v = f
    <3>1. v <= f /\ f <= v
      BY <1>2, <1>12
    <3> QED BY <1>0, <3>1
  <2>2. Len(b) = 1 /\ b[1] = Cut(chain[f].needle)
    BY <1>7, <1>12, <2>1
  <2> DEFINE k == Len(a) + 1
  <2>3. k \in 1 .. Len(ns) /\ ns[k] = b[1]
    <3>1. k \in 1 .. Len(a) + Len(b) /\ ~(k <= Len(a)) /\ k - Len(a) = 1
      BY <1>5, <1>6, <2>2
    <3> QED BY <1>8, <3>1
  <2> QED BY <1>10, <2>1, <2>2, <2>3
<1>13. Cleared(chain, t, s)
  BY <1>11, <1>12, Zenon DEF Cleared
<1> QED BY <1>10, <1>13 DEF s

(* What is cleared bears nothing that the property names.                 *)
LEMMA ClearedBearsNothing ==
  ASSUME chain \in Seq(Judges), NEW t, ~Accepted(t), NEW s, Cleared(chain, t, s)
  PROVE  ~Bears(s, {v.needle : v \in ToSet(Redactors)} \cup ToSet(Shown(t)))
<1>1. ToSet(Redactors) \subseteq {v \in ToSet(chain) : v.redacts}
  <2> DEFINE S == {v \in ToSet(chain) : v.redacts}
  <2> HIDE DEF S
  <2>1. Redactors = Filter(chain, S)
    BY DEF Redactors, S
  <2>2. ToSet(Redactors) = ToSet(chain) \cap S
    BY <2>1, FilterFacts
  <2> QED BY <2>2 DEF S
<1>2. PICK f \in DOMAIN chain :
        /\ FirstRefuser(t) = chain[f] /\ Occurs(chain[f].needle, t)
        /\ \A w \in DOMAIN chain : Occurs(chain[w].needle, t) => f <= w
  BY FirstRefuserFacts
<1>3. ASSUME NEW m \in ToSet(Shown(t)) PROVE m = Cut(chain[f].needle) /\ chain[f].shows = "match"
  <2>1. Shown(t) = IF chain[f].shows = "match" THEN <<Cut(chain[f].needle)>> ELSE <<>>
    BY <1>2 DEF Shown
  <2>2. ToSet(<<>>) = {} /\ ToSet(<<Cut(chain[f].needle)>>) = {Cut(chain[f].needle)}
    BY DEF ToSet
  <2> QED BY <1>3, <2>1, <2>2
<1>4. ASSUME NEW m \in ToSet(Shown(t)) PROVE ~Occurs(m, s)
  BY <1>2, <1>3, Zenon DEF Cleared
<1>5. ASSUME NEW v \in ToSet(Redactors) PROVE ~Occurs(v.needle, s)
  BY <1>1 DEF Cleared
<1> QED BY <1>4, <1>5 DEF Bears
-----------------------------------------------------------------------------
(* What occurs in a text occurs in one that holds it.                     *)
LEMMA OccursInside ==
  ASSUME NEW L, NEW a \in Seq(L), NEW b \in Seq(L), NEW w, Needle(w, L)
  PROVE  /\ Occurs(w, a) => Occurs(w, a \o b)
         /\ Occurs(w, b) => Occurs(w, a \o b)
<1> DEFINE u == a \o b
           p == Len(w)
<1>0. /\ Len(a) \in Nat /\ Len(b) \in Nat /\ p \in Nat \ {0} /\ w \in Seq(L)
      /\ DOMAIN a = 1 .. Len(a) /\ DOMAIN b = 1 .. Len(b)
  BY LenProperties DEF Needle
<1>1. /\ u \in Seq(L) /\ Len(u) = Len(a) + Len(b)
      /\ \A i \in 1 .. Len(a) + Len(b) : u[i] = IF i <= Len(a) THEN a[i] ELSE b[i - Len(a)]
  BY ConcatProperties
<1> HIDE DEF u
<1>2. DOMAIN u = 1 .. Len(a) + Len(b)
  BY <1>1, LenProperties
<1>3. ASSUME NEW i \in DOMAIN a, StartsAt(a, w, i) PROVE StartsAt(u, w, i) /\ i \in DOMAIN u
  <2>0. i \in Nat \ {0} /\ i \in 1 .. Len(a)
    BY <1>0
  <2>1. i + Len(w) - 1 <= Len(a) /\ \A k \in 1 .. Len(w) : a[i + k - 1] = w[k]
    BY <1>0, <1>3, <2>0, StartsPointwise
  <2>2. i + Len(w) - 1 <= Len(u)
    BY <1>0, <1>1, <2>0, <2>1
  <2>3. ASSUME NEW k \in 1 .. Len(w) PROVE u[i + k - 1] = w[k]
    <3> DEFINE j == i + k - 1
    <3>1. j \in 1 .. Len(a) + Len(b) /\ j <= Len(a)
      BY <1>0, <2>0, <2>1
    <3> QED BY <1>1, <2>1, <3>1
  <2>4. StartsAt(u, w, i)
    BY <1>0, <1>1, <2>0, <2>2, <2>3, StartsPointwise
  <2> QED BY <1>0, <1>2, <2>0, <2>4
<1>4. ASSUME NEW i \in DOMAIN b, StartsAt(b, w, i)
      PROVE  StartsAt(u, w, Len(a) + i) /\ Len(a) + i \in DOMAIN u
  <2>0. i \in Nat \ {0} /\ i \in 1 .. Len(b)
    BY <1>0
  <2>1. i + Len(w) - 1 <= Len(b) /\ \A k \in 1 .. Len(w) : b[i + k - 1] = w[k]
    BY <1>0, <1>4, <2>0, StartsPointwise
  <2> DEFINE o == Len(a) + i
  <2>o. o \in Nat \ {0}
    BY <1>0, <2>0
  <2>2. o + Len(w) - 1 <= Len(u)
    BY <1>0, <1>1, <2>0, <2>1
  <2>3. ASSUME NEW k \in 1 .. Len(w) PROVE u[o + k - 1] = w[k]
    <3> DEFINE j == o + k - 1
    <3>1. j \in 1 .. Len(a) + Len(b) /\ ~(j <= Len(a)) /\ j - Len(a) = i + k - 1
      BY <1>0, <2>0, <2>1
    <3> QED BY <1>1, <2>1, <3>1
  <2> HIDE DEF o
  <2>4. StartsAt(u, w, o)
    BY <1>0, <1>1, <2>o, <2>2, <2>3, StartsPointwise
  <2>5. o \in DOMAIN u
    BY <1>0, <1>2, <2>0 DEF o
  <2> QED BY <2>4, <2>5 DEF o
<1> QED BY <1>3, <1>4, Zenon DEF Occurs, u

(* The same behind two others.                                            *)
LEMMA OccursBehind ==
  ASSUME NEW L, NEW a \in Seq(L), NEW b \in Seq(L), NEW c \in Seq(L), NEW w, Needle(w, L),
         Occurs(w, b \o c)
  PROVE  Occurs(w, (a \o b) \o c)
<1> DEFINE d == b \o c
<1>1. (a \o b) \o c = a \o d
  BY ConcatAssociative
<1>2. d \in Seq(L)
  BY ConcatProperties
<1> HIDE DEF d
<1>3. Occurs(w, a \o d)
  BY <1>2, OccursInside DEF d
<1> QED BY <1>1, <1>3

(* The same before a third.                                               *)
LEMMA OccursBefore ==
  ASSUME NEW L, NEW a \in Seq(L), NEW b \in Seq(L), NEW c \in Seq(L), NEW w, Needle(w, L),
         Occurs(w, a \o b)
  PROVE  Occurs(w, a \o (b \o c))
<1> DEFINE d == a \o b
<1>1. d \o c = a \o (b \o c)
  BY ConcatAssociative
<1>2. d \in Seq(L)
  BY ConcatProperties
<1> HIDE DEF d
<1>3. Occurs(w, d \o c)
  BY <1>2, OccursInside DEF d
<1> QED BY <1>1, <1>3

(* What occurs in two neighbours one after the other occurs in the whole. *)
LEMMA OccursInNeighbours ==
  ASSUME NEW L, NEW s \in Seq(Seq(L)), NEW w, Needle(w, L),
         NEW i \in 1 .. (Len(s) - 1), Occurs(w, s[i] \o s[i + 1])
  PROVE  Occurs(w, FlattenSeq(s))
<1> DEFINE T == Seq(L)
           P(r) == \A j \in 1 .. (Len(r) - 1) :
                     Occurs(w, r[j] \o r[j + 1]) => Occurs(w, FlattenSeq(r))
           I == {n \in Nat : \A r \in Seq(T) : Len(r) = n => P(r)}
<1>1. 0 \in I
  <2>1. \A j \in 1 .. (0 - 1) : FALSE
    OBVIOUS
  <2> QED BY <2>1
<1>2. ASSUME NEW n \in I PROVE n + 1 \in I
  <2>1. ASSUME NEW r \in Seq(T), Len(r) = n + 1, NEW j \in 1 .. (Len(r) - 1),
               Occurs(w, r[j] \o r[j + 1])
        PROVE  Occurs(w, FlattenSeq(r))
    <3>0. n \in Nat /\ j \in 1 .. n
      BY <2>1
    <3>1. PICK u \in Seq(T), x \in T : r = Append(u, x) /\ Len(u) = n
      <4> HIDE DEF T
      <4> QED BY <2>1, <3>0, LastAppended
    <3>2. r[n + 1] = x /\ \A k \in 1 .. n : r[k] = u[k]
      <4> HIDE DEF T
      <4> QED BY <3>1, AppendedLast
    <3>3. FlattenSeq(u) \in Seq(L)
      BY <3>1, FlattenType
    <3>4. FlattenSeq(r) = FlattenSeq(u) \o x
      BY <3>1, <3>3, FlattenAppend
    <3>5. CASE j # n
      <4>1. j \in 1 .. (Len(u) - 1) /\ j + 1 \in 1 .. n
        BY <3>0, <3>1, <3>5
      <4>2. Occurs(w, u[j] \o u[j + 1])
        BY <2>1, <3>0, <3>2, <4>1
      <4>3. P(u)
        BY <3>1
      <4>4. Occurs(w, FlattenSeq(u))
        BY <4>1, <4>2, <4>3
      <4> QED BY <3>1, <3>3, <3>4, <4>4, OccursInside
    <3>6. CASE j = n
      <4>0. n - 1 \in Nat /\ Len(u) = (n - 1) + 1
        BY <3>0, <3>1
      <4>1. PICK v \in Seq(T), y \in T : u = Append(v, y) /\ Len(v) = n - 1
        <5> HIDE DEF T
        <5> DEFINE q == n - 1
        <5>1. q \in Nat /\ Len(u) = q + 1
          BY <4>0
        <5> HIDE DEF q
        <5>2. \E v \in Seq(T), y \in T : u = Append(v, y) /\ Len(v) = q
          BY <3>1, <5>1, LastAppended
        <5> QED BY <5>2 DEF q
      <4>2. u[n] = y
        <5> HIDE DEF T
        <5>1. u[Len(v) + 1] = y
          BY <4>1, AppendedLast
        <5>2. Len(v) + 1 = n
          BY <3>0, <4>1
        <5> QED BY <5>1, <5>2
      <4>3. FlattenSeq(v) \in Seq(L)
        BY <4>1, FlattenType
      <4>4. FlattenSeq(u) = FlattenSeq(v) \o y
        BY <4>1, <4>3, FlattenAppend
      <4>5. r[j] \o r[j + 1] = y \o x
        BY <3>0, <3>2, <3>6, <4>2
      <4>6. Occurs(w, y \o x)
        BY <2>1, <4>5
      <4>7. Occurs(w, (FlattenSeq(v) \o y) \o x)
        <5> DEFINE f == FlattenSeq(v)
        <5>1. f \in Seq(L) /\ y \in Seq(L) /\ x \in Seq(L)
          BY <3>1, <4>1, <4>3
        <5> HIDE DEF f
        <5> QED BY <4>6, <5>1, OccursBehind DEF f
      <4> QED BY <3>4, <4>4, <4>7
    <3> QED BY <3>5, <3>6
  <2> QED BY <2>1
<1>3. I = Nat
  <2>1. I \in SUBSET Nat
    OBVIOUS
  <2> HIDE DEF I
  <2> QED BY <1>1, <1>2, <2>1, NumbersByInduction
<1>4. Len(s) \in I
  BY <1>3, LenProperties
<1> QED BY <1>4
-----------------------------------------------------------------------------
(* There is an oldest entry that is kept.                                 *)
LEMMA OldestKeptFacts ==
  ASSUME NEW T, NEW s \in Seq(T), Len(s) # 0
  PROVE  OldestKept(s) \in 1 .. Len(s)
<1> DEFINE Within(f) == SizeFrom(s, f) <= HardCap
           l == Len(s)
           I == {f \in 1 .. l : f = l \/ Within(f)}
           O(f) == /\ f = l \/ Within(f)
                   /\ f > 1 => ~Within(f - 1)
<1>0. l \in Nat /\ l # 0 /\ DOMAIN s = 1 .. l
  BY LenProperties
<1> HIDE DEF Within
<1>1. I \in SUBSET Nat /\ l \in I
  <2>1. l \in 1 .. l /\ \A f \in 1 .. l : f \in Nat
    BY <1>0
  <2> QED BY <2>1, Zenon
<1>2. \A f \in I : f \in 1 .. l /\ (f = l \/ Within(f))
  OBVIOUS
<1>3. \A f \in 1 .. l : Within(f) => f \in I
  OBVIOUS
<1> HIDE DEF I
<1>4. PICK m \in I : \A f \in I : m <= f
  BY <1>1, LeastNumber
<1>5. m \in DOMAIN s /\ O(m)
  <2>1. m \in 1 .. l /\ (m = l \/ Within(m))
    BY <1>2
  <2>2. ASSUME m > 1 PROVE ~Within(m - 1)
    <3>1. m - 1 \in 1 .. l /\ ~(m <= m - 1)
      <4>1. m \in 1 .. l
        BY <2>1
      <4> HIDE DEF l
      <4> QED BY <1>0, <2>2, <4>1
    <3>2. m - 1 \notin I
      BY <1>4, <3>1
    <3> QED BY <1>3, <3>1, <3>2, Zenon
  <2> QED BY <1>0, <2>1, <2>2, Zenon
<1> HIDE DEF O
<1>6. (CHOOSE f \in DOMAIN s : O(f)) \in DOMAIN s
  BY <1>5, Zenon
<1>7. OldestKept(s) = CHOOSE f \in DOMAIN s : O(f)
  BY Zenon DEF OldestKept, O, Within
<1> QED BY <1>0, <1>6, <1>7

(* What occurs in two neighbours with the separator between them occurs   *)
(* in what is joined.                                                     *)
LEMMA OccursInJoined ==
  ASSUME NEW s \in Seq(Seq(Letters)), NEW w, Needle(w, Letters),
         NEW i \in 1 .. (Len(s) - 1), Occurs(w, s[i] \o Separator \o s[i + 1])
  PROVE  Occurs(w, Joined(s))
<1> DEFINE T == Seq(Letters)
           e == [j \in DOMAIN s |-> IF j = Len(s) THEN s[j] ELSE s[j] \o Separator]
           h == s[i] \o Separator
<1>0. Separator \in T
  <2>1. "n" \in Letters
    BY DEF Letters
  <2> QED BY <2>1 DEF Separator
<1>1. Len(s) \in Nat /\ DOMAIN s = 1 .. Len(s) /\ i \in 1 .. Len(s) /\ i + 1 \in 1 .. Len(s) /\ i # Len(s)
  BY LenProperties
<1> HIDE DEF T
<1>2. \A j \in 1 .. Len(s) : s[j] \in T
  <2>1. s \in Seq(T)
    BY DEF T
  <2> QED BY <2>1, LenProperties
<1>3. ASSUME NEW t \in T PROVE t \o Separator \in T
  BY <1>0, ConcatProperties DEF T
<1>4. h \in T
  BY <1>1, <1>2, <1>3
<1>5. e \in Seq(T) /\ Len(e) = Len(s) /\ e[i] = h
  <2>1. \A j \in 1 .. Len(s) : e[j] \in T
    BY <1>1, <1>2, <1>3
  <2>2. e \in [1 .. Len(s) -> T]
    BY <1>1, <2>1
  <2>3. e[i] = h
    BY <1>1
  <2> HIDE DEF e, h
  <2> DEFINE l == Len(s)
  <2>4. l \in Nat /\ e \in [1 .. l -> T]
    BY <1>1, <2>2
  <2> HIDE DEF l
  <2>5. e \in Seq(T) /\ Len(e) = l
    BY <2>4
  <2> QED BY <2>3, <2>5 DEF l
<1>6. e[i + 1] = IF i + 1 = Len(s) THEN s[i + 1] ELSE s[i + 1] \o Separator
  BY <1>1
<1>7. Joined(s) = FlattenSeq(e)
  BY Zenon DEF Joined
<1>8. Occurs(w, h \o s[i + 1])
  OBVIOUS
<1> HIDE DEF e, h
<1>9. Occurs(w, h \o e[i + 1])
  <2>1. CASE i + 1 = Len(s)
    BY <1>6, <1>8, <2>1
  <2>2. CASE i + 1 # Len(s)
    <3> DEFINE x == s[i + 1]
    <3>1. x \in T
      BY <1>1, <1>2
    <3>2. h \in Seq(Letters) /\ x \in Seq(Letters) /\ Separator \in Seq(Letters)
      BY <1>0, <1>4, <3>1 DEF T
    <3>3. Occurs(w, h \o x)
      BY <1>8
    <3>4. e[i + 1] = x \o Separator
      BY <1>6, <2>2
    <3> HIDE DEF x
    <3>5. Occurs(w, h \o (x \o Separator))
      BY <3>2, <3>3, OccursBefore
    <3> QED BY <3>4, <3>5
  <2> QED BY <2>1, <2>2
<1>10. e \in Seq(Seq(Letters)) /\ i \in 1 .. (Len(e) - 1)
  BY <1>1, <1>5 DEF T
<1>11. Occurs(w, e[i] \o e[i + 1])
  BY <1>5, <1>9
<1> QED BY <1>7, <1>10, <1>11, OccursInNeighbours

(* What passes as a whole passes in every two neighbours.                 *)
LEMMA NeighboursPass ==
  ASSUME chain \in Seq(Judges), NEW s \in Seq(Seq(Letters)), Accepted(Joined(s)),
         NEW i \in 1 .. (Len(s) - 1)
  PROVE  Passes(chain, s[i] \o Separator \o s[i + 1])
<1>1. Passes(chain, Joined(s))
  BY AcceptedPasses
<1>2. ASSUME NEW v \in DOMAIN chain, Occurs(chain[v].needle, s[i] \o Separator \o s[i + 1]) PROVE FALSE
  <2> DEFINE w == chain[v].needle
  <2>1. Needle(w, Letters)
    <3>1. chain[v] \in Judges
      BY LenProperties
    <3> QED BY <3>1, JudgesNeedles
  <2>2. Occurs(w, s[i] \o Separator \o s[i + 1])
    BY <1>2
  <2>3. ~Occurs(w, Joined(s))
    BY <1>1 DEF Passes
  <2> HIDE DEF w
  <2> QED BY <2>1, <2>2, <2>3, OccursInJoined
<1> QED BY <1>2, Zenon DEF Passes

(* An allowed context has no refused neighbours, in either order.         *)
LEMMA KeptPass ==
  ASSUME chain \in Seq(Judges), parts \in Seq(Seq(Letters)), Len(parts) # 0,
         Accepted(Joined(KeptEntries)), Accepted(Joined(Reverse(KeptEntries)))
  PROVE  \A i \in OldestKept(parts) .. (Len(parts) - 1) :
           Passes(chain, parts[i] \o Separator \o parts[i + 1]) /\ Passes(chain, parts[i + 1] \o Separator \o parts[i])
<1> DEFINE T == Seq(Letters)
           o == OldestKept(parts)
           l == Len(parts)
           k == KeptEntries
           n == (l - o) + 1
<1> HIDE DEF T
<1>0. l \in Nat \ {0} /\ o \in 1 .. l /\ parts \in Seq(T)
  BY OldestKeptFacts, LenProperties DEF T
<1>1. /\ k \in Seq(T) /\ Len(k) = n
      /\ \A j \in 1 .. n : k[j] = parts[o + j - 1]
  <2>1. k = SubSeq(parts, o, l)
    BY DEF KeptEntries
  <2> HIDE DEF k, o, l
  <2>2. /\ k \in Seq(T)
        /\ Len(k) = IF o <= l THEN (l - o) + 1 ELSE 0
        /\ \A j \in 1 .. (l - o) + 1 : k[j] = parts[o + j - 1]
    <3>1. l \in 1 .. Len(parts) /\ o \in 1 .. Len(parts)
      BY <1>0 DEF l
    <3> QED BY <1>0, <2>1, <3>1, SubSeqProperties
  <2> QED BY <1>0, <2>2
<1> HIDE DEF k, o, l, n
<1>2. n \in Nat /\ n = (l - o) + 1
  BY <1>0 DEF n
<1> DEFINE r == Reverse(k)
<1>3. r \in Seq(T) /\ Len(r) = n /\ \A j \in 1 .. n : r[j] = k[(n - j) + 1]
  BY <1>1, ReverseFacts
<1> HIDE DEF r
<1>4. ASSUME NEW j \in 1 .. (n - 1) PROVE Passes(chain, k[j] \o Separator \o k[j + 1]) /\ Passes(chain, r[j] \o Separator \o r[j + 1])
  <2>1. Accepted(Joined(k)) /\ Accepted(Joined(r))
    BY DEF k, r
  <2>2. k \in Seq(Seq(Letters)) /\ r \in Seq(Seq(Letters)) /\ j \in 1 .. (Len(k) - 1) /\ j \in 1 .. (Len(r) - 1)
    BY <1>1, <1>3 DEF T
  <2> QED BY <2>1, <2>2, NeighboursPass
<1>5. ASSUME NEW i \in o .. (l - 1)
      PROVE  Passes(chain, parts[i] \o Separator \o parts[i + 1]) /\ Passes(chain, parts[i + 1] \o Separator \o parts[i])
  <2> DEFINE j == (i - o) + 1
             q == n - j
  <2>1. /\ j \in 1 .. (n - 1) /\ j \in 1 .. n /\ j + 1 \in 1 .. n /\ o + j - 1 = i /\ o + (j + 1) - 1 = i + 1
        /\ q \in 1 .. (n - 1) /\ q \in 1 .. n /\ q + 1 \in 1 .. n
        /\ (n - q) + 1 = j + 1 /\ (n - (q + 1)) + 1 = j
    BY <1>0, <1>2
  <2> HIDE DEF j, q
  <2>2. k[j] = parts[i] /\ k[j + 1] = parts[i + 1]
    BY <1>1, <2>1
  <2>3. r[q] = k[j + 1] /\ r[q + 1] = k[j]
    BY <1>3, <2>1
  <2>4. Passes(chain, k[j] \o Separator \o k[j + 1]) /\ Passes(chain, r[q] \o Separator \o r[q + 1])
    BY <1>4, <2>1
  <2> QED BY <2>2, <2>3, <2>4
<1> QED BY <1>5 DEF o, l
-----------------------------------------------------------------------------
(* No reference to a dirty body is found late enough to be left out.      *)
LEMMA DirtyIsFound ==
  ASSUME NEW D, derived \in Seq(D), raw \in [Refs -> {"none", "clean", "dirty"}], MaxRescans \in Nat,
         ~Laundered, NEW i \in 1 .. Len(derived), i <= MaxRescans, derived[i] \in Refs
  PROVE  raw[derived[i]] # "dirty"
<1> SUFFICES ASSUME raw[derived[i]] = "dirty" PROVE FALSE
  OBVIOUS
<1>0. Len(derived) \in Nat /\ DOMAIN derived = 1 .. Len(derived)
  BY LenProperties
<1> DEFINE x == derived[i]
           I == {j \in 1 .. Len(derived) : derived[j] = x}
<1>1. I \in SUBSET Nat /\ I # {} /\ i \in I
  OBVIOUS
<1>2. PICK f \in I : \A j \in I : f <= j
  <2> HIDE DEF I
  <2> QED BY <1>1, LeastNumber
<1>3. f \in 1 .. Len(derived) /\ derived[f] = x /\ f <= i
  BY <1>1, <1>2
<1>4. x \notin ToSet(SubSeq(derived, 1, f - 1))
  <2> DEFINE b == SubSeq(derived, 1, f - 1)
  <2>1. /\ \A k \in 1 .. Len(b) : b[k] = derived[k]
        /\ Len(b) = f - 1 /\ DOMAIN b = 1 .. Len(b)
    BY <1>0, <1>3
  <2> HIDE DEF b
  <2>2. ASSUME NEW k \in 1 .. Len(b), b[k] = x PROVE FALSE
    <3>1. k \in I /\ ~(f <= k)
      BY <1>0, <1>3, <2>1, <2>2
    <3> QED BY <1>2, <3>1
  <2> QED BY <2>1, <2>2 DEF ToSet, b
<1> HIDE DEF I
<1>5. f \in Rescannable
  <2>1. derived[f] \in DOMAIN raw /\ raw[derived[f]] # "none"
    BY <1>3
  <2> QED BY <1>0, <1>3, <1>4, <2>1 DEF Rescannable
<1>6. Cardinality({j \in Rescannable : j < f}) < MaxRescans
  <2> DEFINE E == {j \in Rescannable : j < f}
             B == 1 .. (f - 1)
  <2>1. E \subseteq B
    BY <1>0, <1>3 DEF Rescannable
  <2>2. IsFiniteSet(B) /\ Cardinality(B) = f - 1
    <3> DEFINE g == f - 1
    <3>1. 1 \in Int /\ g \in Int /\ (IF 1 > g THEN 0 ELSE g - 1 + 1) = f - 1
      BY <1>3
    <3> HIDE DEF g
    <3>2. IsFiniteSet(1 .. g) /\ Cardinality(1 .. g) = IF 1 > g THEN 0 ELSE g - 1 + 1
      BY <3>1, FS_Interval
    <3> QED BY <3>1, <3>2 DEF g
  <2> HIDE DEF E, B
  <2>3. Cardinality(E) <= Cardinality(B) /\ Cardinality(E) \in Nat
    BY <2>1, <2>2, FS_Subset, FS_CardinalityType
  <2>4. f - 1 < MaxRescans
    BY <1>0, <1>3
  <2>5. Cardinality(E) < MaxRescans
    BY <1>3, <2>2, <2>3, <2>4
  <2> QED BY <2>5 DEF E
<1> QED BY <1>3, <1>5, <1>6 DEF Laundered
-----------------------------------------------------------------------------
(* What is let through is what was accepted, ...                          *)
PassedOf(c, p) == {t \in ToSet(p) : Passes(c, t)}

(* ... or what was accepted as it came, and the rest cleared.             *)
Through(c, p, s, n) ==
  /\ Len(s) = n
  /\ \A i \in 1 .. n : (Passes(c, p[i]) /\ s[i] = p[i]) \/ (~Passes(c, p[i]) /\ Cleared(c, p[i], s[i]))

(* The types; a memory that is written is one part.                       *)
PartTypes ==
  /\ form \in Retrievals \cup Writes \cup {"call", "context"}
  /\ chain \in Seq(Judges) /\ parts \in Seq(Texts) /\ Len(parts) # 0
  /\ form \in Writes => Len(parts) = 1
  /\ derived \in Seq(Refs \cup {"user"})
  /\ raw \in [Refs -> {"none", "clean", "dirty"}]
  /\ judged \in 0 .. Len(parts)
  /\ decision \in {"open", "allow", "block"}

(* A retrieval, so far: ...                                               *)
DropsRefused ==
  form \in {"drop", "block-all"} /\ decision # "block" =>
    survivors = Kept(parts, PassedOf(chain, parts))[judged]

(* ... one that redacts, ...                                              *)
RedactsRefused ==
  form = "redact" => survivors \in Seq(Seq(Letters)) /\ Through(chain, parts, survivors, judged)

(* ... and a call.                                                        *)
CallsRefused ==
  form = "call" /\ decision # "block" => \A i \in 1 .. judged : i \in deep \/ Passes(chain, parts[i])

(* An end comes when all parts are judged.                                *)
AllIsJudged ==
  form \in Retrievals \cup {"call"} /\ decision = "allow" => judged = Len(parts)

(* A memory that is stored.                                               *)
MemoryIsClean ==
  form \in Writes /\ decision = "allow" =>
    /\ form = "block-write" => survivors = Kept(parts, PassedOf(chain, parts))[1]
    /\ form = "redact-write" => Through(chain, parts, survivors, 1)
    /\ \A i \in 1 .. Len(derived) : i <= MaxRescans /\ derived[i] \in Refs => raw[derived[i]] # "dirty"

(* A context that is allowed.                                             *)
ContextPasses ==
  form = "context" /\ decision = "allow" =>
    \A i \in OldestKept(parts) .. (Len(parts) - 1) :
      Passes(chain, parts[i] \o Separator \o parts[i + 1]) /\ Passes(chain, parts[i + 1] \o Separator \o parts[i])

(* Together they are inductive.                                           *)
PartsInv ==
  /\ PartTypes /\ DropsRefused /\ RedactsRefused /\ CallsRefused /\ AllIsJudged
  /\ MemoryIsClean /\ ContextPasses

(* The parts are texts of letters, the next one too.                      *)
LEMMA PartsAreTexts ==
  ASSUME PartTypes
  PROVE  /\ parts \in Seq(Seq(Letters)) /\ Len(parts) \in Nat \ {0} /\ judged \in Nat
         /\ \A i \in 1 .. Len(parts) : parts[i] \in Seq(Letters)
<1>1. Texts \subseteq Seq(Letters)
  <2> SUFFICES ASSUME NEW t \in Texts PROVE t \in Seq(Letters)
    OBVIOUS
  <2>1. t \in Seq(STRING) /\ STRING \subseteq Letters
    BY CompositesAssumption DEF Letters
  <2> QED BY <2>1, SeqMonotonic
<1>2. parts \in Seq(Seq(Letters))
  <2> DEFINE S == Seq(Letters)
  <2> HIDE DEF S
  <2>1. Texts \subseteq S
    BY <1>1 DEF S
  <2>2. parts \in Seq(S)
    BY <2>1, SeqMonotonic DEF PartTypes
  <2> QED BY <2>2 DEF S
<1>3. Len(parts) \in Nat \ {0} /\ judged \in Nat
  BY LenProperties DEF PartTypes
<1>4. \A i \in 1 .. Len(parts) : parts[i] \in Seq(Letters)
  <2> DEFINE S == Seq(Letters)
  <2> HIDE DEF S
  <2>1. parts \in Seq(S)
    BY <1>2 DEF S
  <2>2. \A i \in 1 .. Len(parts) : parts[i] \in S
    BY <2>1, LenProperties
  <2> QED BY <2>2 DEF S
<1> QED BY <1>2, <1>3, <1>4

(* Nothing has been judged at first.                                      *)
LEMMA PartsInvInit == ASSUME CompositesInit PROVE PartsInv
<1>1. chain \in Seq(Judges)
  <2>1. PICK n \in Nat : n = 2
    OBVIOUS
  <2>2. chain \in [1 .. n -> Judges]
    BY <2>1 DEF CompositesInit
  <2> QED BY <2>2
<1>2. PICK n \in 1 .. (IF form \in Writes THEN 1 ELSE MaxParts) : parts \in [1 .. n -> Texts]
  <2> DEFINE N == 1 .. (IF form \in Writes THEN 1 ELSE MaxParts)
  <2>1. parts \in UNION {[1 .. n -> Texts] : n \in N}
    BY DEF CompositesInit
  <2> HIDE DEF N
  <2>2. \E n \in N : parts \in [1 .. n -> Texts]
    BY <2>1, Zenon
  <2> QED BY <2>2 DEF N
<1>3. n \in Nat \ {0} /\ (form \in Writes => n = 1)
  BY <1>2, CompositesAssumption
<1>4. parts \in Seq(Texts) /\ Len(parts) = n
  BY <1>2, <1>3
<1>5. derived \in Seq(Refs \cup {"user"})
  <2> DEFINE D == Refs \cup {"user"}
  <2> HIDE DEF D
  <2>1. CASE form \in Writes
    <3>1. derived \in SeqOf(D, 3)
      BY <2>1 DEF CompositesInit, D
    <3>2. PICK k \in 0 .. 3 : derived \in [1 .. k -> D]
      BY <3>1, Zenon DEF SeqOf
    <3>3. k \in Nat
      BY <3>2
    <3> QED BY <3>2, <3>3 DEF D
  <2>2. CASE form \notin Writes
    <3>1. derived = <<>>
      BY <2>2 DEF CompositesInit
    <3> QED BY <3>1
  <2> QED BY <2>1, <2>2
<1>6. /\ form \in Retrievals \cup Writes \cup {"call", "context"}
      /\ judged = 0 /\ survivors = <<>> /\ decision = "open"
      /\ raw \in [Refs -> {"none", "clean", "dirty"}]
  BY DEF CompositesInit
<1>7. PartTypes
  BY <1>1, <1>3, <1>4, <1>5, <1>6 DEF PartTypes
<1>8. DropsRefused
  <2>1. Kept(parts, PassedOf(chain, parts))[0] = <<>>
    BY <1>3, <1>4, KeptStep
  <2> QED BY <1>6, <2>1 DEF DropsRefused
<1>9. RedactsRefused
  <2>1. Len(<<>>) = 0 /\ <<>> \in Seq(Seq(Letters)) /\ \A i \in 1 .. 0 : FALSE
    OBVIOUS
  <2> QED BY <1>6, <2>1 DEF RedactsRefused, Through
<1>10. CallsRefused
  <2>1. \A i \in 1 .. 0 : FALSE
    OBVIOUS
  <2> QED BY <1>6, <2>1 DEF CallsRefused
<1> QED BY <1>6, <1>7, <1>8, <1>9, <1>10 DEF PartsInv, AllIsJudged, MemoryIsClean, ContextPasses

(* A body that comes in is no concern of a memory that is not yet written.*)
LEMMA PutRawStep ==
  ASSUME PartsInv, NEW r \in Refs, NEW body \in {"clean", "dirty"}, PutRaw(r, body)
  PROVE  PartsInv'
<1>1. /\ form \in Writes /\ decision = "open" /\ raw' = [raw EXCEPT ![r] = body]
      /\ form' = form /\ chain' = chain /\ parts' = parts /\ derived' = derived
      /\ judged' = judged /\ decision' = decision
  BY DEF PutRaw
<1>2. form \notin Retrievals /\ form # "call" /\ form # "context" /\ form # "redact" /\ form \notin {"drop", "block-all"}
  BY <1>1 DEF Writes, Retrievals
<1>3. PartTypes'
  BY <1>1 DEF PartsInv, PartTypes
<1> QED BY <1>1, <1>2, <1>3 DEF PartsInv, DropsRefused, RedactsRefused, CallsRefused, AllIsJudged,
                               MemoryIsClean, ContextPasses

(* A document that is judged.                                             *)
LEMMA JudgeDocumentStep == ASSUME PartsInv, JudgeDocument PROVE PartsInv'
<1> DEFINE n == judged + 1
           t == parts[n]
           S == PassedOf(chain, parts)
<1>1. /\ form \in Retrievals /\ decision = "open" /\ judged < Len(parts)
      /\ form' = form /\ chain' = chain /\ parts' = parts /\ derived' = derived /\ raw' = raw
  BY DEF JudgeDocument
<1>2. /\ judged \in Nat /\ n \in 1 .. Len(parts) /\ n \in 0 .. Len(parts) /\ n - 1 = judged
      /\ Len(parts) \in Nat \ {0} /\ Len(parts) \in 0 .. Len(parts)
      /\ t \in Seq(Letters) /\ parts \in Seq(Seq(Letters))
  <2>1. /\ parts \in Seq(Seq(Letters)) /\ Len(parts) \in Nat \ {0} /\ judged \in Nat
        /\ \A i \in 1 .. Len(parts) : parts[i] \in Seq(Letters)
    BY PartsAreTexts DEF PartsInv
  <2>2. n \in 1 .. Len(parts)
    BY <1>1, <2>1
  <2> QED BY <2>1, <2>2
<1>3. t \in S <=> Passes(chain, t)
  <2>1. t \in ToSet(parts)
    BY <1>2, ToSetType
  <2> QED BY <2>1 DEF PassedOf
<1>4. Accepted(t) <=> Passes(chain, t)
  BY AcceptedPasses
<1>5. Kept(parts, S)[n] = IF t \in S THEN Append(Kept(parts, S)[judged], t) ELSE Kept(parts, S)[judged]
  <2> HIDE DEF S
  <2>1. Kept(parts, S)[n] = IF t \in S THEN Append(Kept(parts, S)[n - 1], t) ELSE Kept(parts, S)[n - 1]
    BY <1>2, KeptStep
  <2> QED BY <1>2, <2>1
<1>6. form \notin Writes /\ form # "call" /\ form # "context"
  BY <1>1 DEF Retrievals, Writes
<1> HIDE DEF t, n, S
<1>7. \/ /\ Passes(chain, t) /\ judged' = n /\ survivors' = Append(survivors, t)
         /\ decision' = "open"
      \/ /\ ~Passes(chain, t) /\ form = "drop" /\ judged' = n /\ survivors' = survivors
         /\ decision' = "open"
      \/ /\ ~Accepted(t) /\ form = "redact" /\ judged' = n /\ survivors' = Append(survivors, Redaction(t))
         /\ decision' = "open"
      \/ /\ form = "block-all" /\ judged' = Len(parts) /\ survivors' = <<>> /\ decision' = "block"
  BY <1>1, <1>4, Zenon DEF JudgeDocument, t, n
<1>8. PartTypes'
  <2>1. judged' \in 0 .. Len(parts) /\ decision' \in {"open", "allow", "block"}
    BY <1>2, <1>7
  <2> QED BY <1>1, <2>1 DEF PartsInv, PartTypes
<1>9. DropsRefused'
  <2> SUFFICES ASSUME form \in {"drop", "block-all"}, decision' # "block"
               PROVE  survivors' = Kept(parts, S)[judged']
    BY <1>1 DEF DropsRefused, S
  <2>1. survivors = Kept(parts, S)[judged]
    BY <1>1 DEF PartsInv, DropsRefused, S
  <2> QED BY <1>3, <1>5, <1>7, <2>1
<1>10. RedactsRefused'
  <2> SUFFICES ASSUME form = "redact"
               PROVE  survivors' \in Seq(Seq(Letters)) /\ Through(chain, parts, survivors', judged')
    BY <1>1 DEF RedactsRefused
  <2> DEFINE x == IF Passes(chain, t) THEN t ELSE Redaction(t)
             T == Seq(Letters)
  <2>1. survivors \in Seq(T) /\ Through(chain, parts, survivors, judged)
    BY DEF PartsInv, RedactsRefused
  <2>2. x \in T /\ ((Passes(chain, t) /\ x = t) \/ (~Passes(chain, t) /\ Cleared(chain, t, x)))
    <3>1. CASE Passes(chain, t)
      BY <1>2, <3>1
    <3>2. CASE ~Passes(chain, t)
      <4>1. ~Accepted(t) /\ chain \in Seq(Judges)
        BY <1>4, <3>2 DEF PartsInv, PartTypes
      <4> QED BY <1>2, <3>2, <4>1, RedactionIsCleared
    <3> QED BY <3>1, <3>2
  <2>3. judged' = n /\ survivors' = Append(survivors, x)
    BY <1>4, <1>7
  <2> DEFINE s == Append(survivors, x)
  <2> HIDE DEF x, T
  <2>4. s \in Seq(T) /\ Len(s) = Len(survivors) + 1
    BY <2>1, <2>2, AppendProperties
  <2>5. s[Len(survivors) + 1] = x /\ \A i \in 1 .. Len(survivors) : s[i] = survivors[i]
    BY <2>1, <2>2, AppendedLast
  <2>6. Len(survivors) = judged /\ judged + 1 = n
    BY <2>1 DEF Through, n
  <2> HIDE DEF s
  <2>7. \A i \in 1 .. n : i \in 1 .. judged \/ i = n
    BY <1>2, <2>6
  <2>8. ASSUME NEW i \in 1 .. n
        PROVE  (Passes(chain, parts[i]) /\ s[i] = parts[i]) \/ (~Passes(chain, parts[i]) /\ Cleared(chain, parts[i], s[i]))
    <3>1. CASE i \in 1 .. judged
      <4>1. s[i] = survivors[i]
        BY <2>5, <2>6, <3>1
      <4> QED BY <2>1, <3>1, <4>1 DEF Through
    <3>2. CASE i = n
      <4>1. s[i] = x /\ parts[i] = t
        BY <2>5, <2>6, <3>2 DEF t
      <4> QED BY <2>2, <4>1
    <3> QED BY <2>7, <3>1, <3>2
  <2>9. Through(chain, parts, s, n)
    BY <2>4, <2>6, <2>8 DEF Through
  <2> QED BY <2>3, <2>4, <2>9 DEF s, T
<1>11. AllIsJudged'
  BY <1>7 DEF AllIsJudged
<1> QED BY <1>1, <1>6, <1>8, <1>9, <1>10, <1>11 DEF PartsInv, CallsRefused, MemoryIsClean, ContextPasses

(* An argument that is judged.                                            *)
LEMMA JudgeArgumentStep == ASSUME PartsInv, JudgeArgument PROVE PartsInv'
<1> DEFINE n == judged + 1
<1>1. /\ form = "call" /\ judged < Len(parts) /\ judged' = n
      /\ decision' = IF n \in deep \/ Accepted(parts[n]) THEN decision ELSE "block"
      /\ form' = form /\ chain' = chain /\ parts' = parts /\ derived' = derived /\ raw' = raw
      /\ deep' = deep
  BY DEF JudgeArgument
<1>2. judged \in Nat /\ Len(parts) \in Nat
  BY PartsAreTexts DEF PartsInv
<1>3. n \in 0 .. Len(parts) /\ judged # Len(parts) /\ \A i \in 1 .. n : i \in 1 .. judged \/ i = n
  BY <1>1, <1>2
<1>4. Accepted(parts[n]) <=> Passes(chain, parts[n])
  BY AcceptedPasses
<1> HIDE DEF n
<1>5. decision' \in {"open", "block"}
  <2>1. decision # "allow"
    BY <1>1, <1>3 DEF PartsInv, AllIsJudged
  <2>2. decision \in {"open", "allow", "block"}
    BY DEF PartsInv, PartTypes
  <2> QED BY <1>1, <2>1, <2>2
<1>6. PartTypes'
  BY <1>1, <1>3, <1>5 DEF PartsInv, PartTypes
<1>7. CallsRefused'
  <2> SUFFICES ASSUME decision' # "block", NEW i \in 1 .. n
               PROVE  i \in deep \/ Passes(chain, parts[i])
    BY <1>1 DEF CallsRefused
  <2>1. decision # "block" /\ (n \in deep \/ Passes(chain, parts[n]))
    BY <1>1, <1>4
  <2>2. \A j \in 1 .. judged : j \in deep \/ Passes(chain, parts[j])
    BY <1>1, <2>1 DEF PartsInv, CallsRefused
  <2> QED BY <1>3, <2>1, <2>2
<1>8. form \notin Writes /\ form \notin {"drop", "block-all", "redact", "context"}
  BY <1>1 DEF Writes
<1> QED BY <1>1, <1>5, <1>6, <1>7, <1>8 DEF PartsInv, DropsRefused, RedactsRefused, AllIsJudged,
                                        MemoryIsClean, ContextPasses

(* The end, after the last part.                                          *)
LEMMA EndOfPartsStep == ASSUME PartsInv, EndOfParts PROVE PartsInv'
<1>1. /\ form \in Retrievals \cup {"call"} /\ decision = "open" /\ judged = Len(parts)
      /\ decision' = "allow" /\ judged' = judged /\ survivors' = survivors
      /\ form' = form /\ chain' = chain /\ parts' = parts /\ derived' = derived /\ raw' = raw
      /\ deep' = deep
  BY DEF EndOfParts
<1>2. form \notin Writes /\ form # "context"
  BY <1>1 DEF Retrievals, Writes
<1>3. PartTypes'
  BY <1>1 DEF PartsInv, PartTypes
<1> QED BY <1>1, <1>2, <1>3 DEF PartsInv, DropsRefused, RedactsRefused, CallsRefused, AllIsJudged,
                               MemoryIsClean, ContextPasses

(* A memory that is judged.                                               *)
LEMMA JudgeMemoryStep == ASSUME PartsInv, JudgeMemory PROVE PartsInv'
<1> DEFINE t == parts[1]
           S == PassedOf(chain, parts)
<1>1. /\ form \in Writes /\ decision = "open"
      /\ form' = form /\ chain' = chain /\ parts' = parts /\ derived' = derived /\ raw' = raw
      /\ judged' = judged
  BY DEF JudgeMemory
<1>2. /\ parts \in Seq(Seq(Letters)) /\ Len(parts) = 1 /\ t \in Seq(Letters) /\ 1 \in 1 .. Len(parts)
  <2>1. /\ parts \in Seq(Seq(Letters)) /\ \A i \in 1 .. Len(parts) : parts[i] \in Seq(Letters)
    BY PartsAreTexts DEF PartsInv
  <2>2. Len(parts) = 1
    BY <1>1 DEF PartsInv, PartTypes
  <2> QED BY <2>1, <2>2
<1>3. t \in S <=> Passes(chain, t)
  <2>1. t \in ToSet(parts)
    BY <1>2, ToSetType
  <2> QED BY <2>1 DEF PassedOf
<1>4. Accepted(t) <=> Passes(chain, t)
  BY AcceptedPasses
<1>5. t \in S => Kept(parts, S)[1] = <<t>>
  <2> HIDE DEF S
  <2>1. Kept(parts, S)[1] = IF t \in S THEN <<t>> ELSE <<>>
    BY <1>2, KeptOfOne
  <2> QED BY <2>1
<1>6. form \notin Retrievals /\ form \notin {"drop", "block-all", "redact", "call", "context"}
  BY <1>1 DEF Retrievals, Writes
<1> HIDE DEF t, S
<1>7. \/ Passes(chain, t) /\ ~Laundered /\ survivors' = <<t>> /\ decision' = "allow"
      \/ /\ ~Accepted(t) /\ ~Laundered /\ form = "redact-write"
         /\ survivors' = <<Redaction(t)>> /\ decision' = "allow"
      \/ decision' = "block"
  BY <1>4, Zenon DEF JudgeMemory, t
<1>8. decision' \in {"open", "allow", "block"}
  BY <1>7
<1>9. PartTypes'
  BY <1>1, <1>8 DEF PartsInv, PartTypes
<1>10. MemoryIsClean'
  <2> SUFFICES ASSUME decision' = "allow"
               PROVE  /\ form = "block-write" => survivors' = Kept(parts, S)[1]
                      /\ form = "redact-write" => Through(chain, parts, survivors', 1)
                      /\ \A i \in 1 .. Len(derived) :
                           i <= MaxRescans /\ derived[i] \in Refs => raw[derived[i]] # "dirty"
    BY <1>1 DEF MemoryIsClean, S
  <2>1. ~Laundered
    BY <1>7
  <2>2. ASSUME NEW i \in 1 .. Len(derived), i <= MaxRescans, derived[i] \in Refs
        PROVE  raw[derived[i]] # "dirty"
    <3>1. /\ derived \in Seq(Refs \cup {"user"}) /\ raw \in [Refs -> {"none", "clean", "dirty"}]
          /\ MaxRescans \in Nat
      BY CompositesAssumption DEF PartsInv, PartTypes
    <3> QED BY <2>1, <2>2, <3>1, DirtyIsFound
  <2>3. form = "block-write" => survivors' = Kept(parts, S)[1]
    BY <1>3, <1>5, <1>7
  <2>4. PICK x : survivors' = <<x>> /\ ((Passes(chain, t) /\ x = t) \/ (~Passes(chain, t) /\ Cleared(chain, t, x)))
    <3>1. CASE Passes(chain, t) /\ survivors' = <<t>>
      BY <3>1
    <3>2. CASE ~Accepted(t) /\ survivors' = <<Redaction(t)>>
      <4>1. chain \in Seq(Judges)
        BY DEF PartsInv, PartTypes
      <4>2. Cleared(chain, t, Redaction(t))
        BY <1>2, <3>2, <4>1, RedactionIsCleared
      <4> QED BY <1>4, <3>2, <4>2
    <3> QED BY <1>7, <3>1, <3>2
  <2>5. Through(chain, parts, survivors', 1)
    <3> DEFINE s == <<x>>
    <3>1. Len(s) = 1 /\ s[1] = x /\ \A i \in 1 .. 1 : i = 1
      OBVIOUS
    <3> HIDE DEF s
    <3>2. survivors' = s
      BY <2>4 DEF s
    <3>3. Through(chain, parts, s, 1)
      BY <2>4, <3>1, Zenon DEF Through, t
    <3> QED BY <3>2, <3>3
  <2> QED BY <2>2, <2>3, <2>5
<1> QED BY <1>1, <1>6, <1>9, <1>10 DEF PartsInv, DropsRefused, RedactsRefused, CallsRefused, AllIsJudged,
                                      ContextPasses

(* A context that is judged.                                              *)
LEMMA JudgeContextStep == ASSUME PartsInv, JudgeContext PROVE PartsInv'
<1>1. /\ form = "context"
      /\ form' = form /\ chain' = chain /\ parts' = parts /\ derived' = derived /\ raw' = raw
      /\ judged' = judged
      /\ decision' = IF Accepted(Joined(KeptEntries)) /\ Accepted(Joined(Reverse(KeptEntries)))
                     THEN "allow" ELSE "block"
  BY DEF JudgeContext
<1>2. form \notin Writes /\ form \notin Retrievals /\ form \notin {"drop", "block-all", "redact", "call"}
  BY <1>1 DEF Retrievals, Writes
<1>3. decision' \in {"open", "allow", "block"}
  BY <1>1
<1>4. PartTypes'
  BY <1>1, <1>3 DEF PartsInv, PartTypes
<1>5. ContextPasses'
  <2> SUFFICES ASSUME decision' = "allow"
               PROVE  \A i \in OldestKept(parts) .. (Len(parts) - 1) :
                        Passes(chain, parts[i] \o Separator \o parts[i + 1]) /\ Passes(chain, parts[i + 1] \o Separator \o parts[i])
    BY <1>1 DEF ContextPasses
  <2>1. Accepted(Joined(KeptEntries)) /\ Accepted(Joined(Reverse(KeptEntries)))
    BY <1>1
  <2>2. chain \in Seq(Judges) /\ parts \in Seq(Seq(Letters)) /\ Len(parts) # 0
    BY PartsAreTexts DEF PartsInv, PartTypes
  <2> QED BY <2>1, <2>2, KeptPass
<1> QED BY <1>1, <1>2, <1>4, <1>5 DEF PartsInv, DropsRefused, RedactsRefused, CallsRefused, AllIsJudged,
                                      MemoryIsClean

(* What the invariant says of an allowed structure is the property.       *)
LEMMA PartsInvSuffices == ASSUME PartsInv PROVE NothingRefusedSurvives
<1> SUFFICES ASSUME decision = "allow"
             PROVE  /\ form \in {"drop", "block-all", "block-write"} =>
                         survivors = Filter(parts, {t \in ToSet(parts) : Accepted(t)})
                    /\ form \in {"redact", "redact-write"} =>
                         /\ Len(survivors) = Len(parts)
                         /\ \A i \in DOMAIN parts :
                              survivors[i] # parts[i] \/ ~Accepted(parts[i])
                              => ~Bears(survivors[i],
                                        {v.needle : v \in ToSet(Redactors)} \cup ToSet(Shown(parts[i])))
                    /\ form \in Writes => \A i \in 1..Len(derived) :
                         i <= MaxRescans /\ derived[i] \in Refs => raw[derived[i]] # "dirty"
                    /\ form = "call" => \A i \in DOMAIN parts \ deep : Accepted(parts[i])
                    /\ form = "context" => \A i \in OldestKept(parts)..(Len(parts) - 1) :
                         /\ Accepted(parts[i] \o Separator \o parts[i + 1])
                         /\ Accepted(parts[i + 1] \o Separator \o parts[i])
  BY DEF NothingRefusedSurvives
<1> DEFINE S == PassedOf(chain, parts)
<1>0. /\ DOMAIN parts = 1 .. Len(parts) /\ chain \in Seq(Judges)
      /\ form \in Writes => Len(parts) = 1
  BY LenProperties DEF PartsInv, PartTypes
<1>1. S = {t \in ToSet(parts) : Accepted(t)}
  BY AcceptedPasses DEF PassedOf
<1>2. Filter(parts, S) = Kept(parts, S)[Len(parts)]
  BY FilterIsKept
<1> HIDE DEF S
<1>3. form \in {"drop", "block-all"} => survivors = Kept(parts, S)[Len(parts)]
  BY DEF PartsInv, DropsRefused, AllIsJudged, Retrievals, S
<1>4. form = "block-write" => survivors = Kept(parts, S)[Len(parts)]
  BY <1>0 DEF PartsInv, MemoryIsClean, Writes, S
<1>5. ASSUME form \in {"redact", "redact-write"} PROVE Through(chain, parts, survivors, Len(parts))
  <2>1. CASE form = "redact"
    BY <2>1 DEF PartsInv, RedactsRefused, AllIsJudged, Retrievals
  <2>2. CASE form = "redact-write"
    BY <1>0, <2>2 DEF PartsInv, MemoryIsClean, Writes
  <2> QED BY <1>5, <2>1, <2>2
<1>6. ASSUME form \in {"redact", "redact-write"}, NEW i \in DOMAIN parts,
             survivors[i] # parts[i] \/ ~Accepted(parts[i])
      PROVE  ~Bears(survivors[i], {v.needle : v \in ToSet(Redactors)} \cup ToSet(Shown(parts[i])))
  <2>1. i \in 1 .. Len(parts)
    BY <1>0
  <2>2. \/ Passes(chain, parts[i]) /\ survivors[i] = parts[i]
        \/ ~Passes(chain, parts[i]) /\ Cleared(chain, parts[i], survivors[i])
    BY <1>5, <1>6, <2>1 DEF Through
  <2>3. ~Accepted(parts[i]) /\ Cleared(chain, parts[i], survivors[i])
    <3>1. Accepted(parts[i]) <=> Passes(chain, parts[i])
      BY AcceptedPasses
    <3> QED BY <1>6, <2>2, <3>1
  <2> QED BY <1>0, <2>3, ClearedBearsNothing
<1>7. form \in {"redact", "redact-write"} => Len(survivors) = Len(parts)
  BY <1>5 DEF Through
<1>8. form \in Writes => \A i \in 1 .. Len(derived) :
        i <= MaxRescans /\ derived[i] \in Refs => raw[derived[i]] # "dirty"
  BY DEF PartsInv, MemoryIsClean
<1>9. ASSUME form = "call", NEW i \in DOMAIN parts \ deep PROVE Accepted(parts[i])
  <2>1. i \in 1 .. judged
    BY <1>0, <1>9 DEF PartsInv, AllIsJudged
  <2>2. Passes(chain, parts[i])
    BY <1>9, <2>1 DEF PartsInv, CallsRefused
  <2> QED BY <2>2, AcceptedPasses
<1>10. ASSUME form = "context", NEW i \in OldestKept(parts) .. (Len(parts) - 1)
       PROVE  Accepted(parts[i] \o Separator \o parts[i + 1]) /\ Accepted(parts[i + 1] \o Separator \o parts[i])
  <2>1. Passes(chain, parts[i] \o Separator \o parts[i + 1]) /\ Passes(chain, parts[i + 1] \o Separator \o parts[i])
    BY <1>10 DEF PartsInv, ContextPasses
  <2> QED BY <2>1, AcceptedPasses
<1>11. form \in {"drop", "block-all", "block-write"} =>
         survivors = Filter(parts, {t \in ToSet(parts) : Accepted(t)})
  BY <1>1, <1>2, <1>3, <1>4
<1>12. form = "call" => \A i \in DOMAIN parts \ deep : Accepted(parts[i])
  BY <1>9
<1> QED BY <1>6, <1>7, <1>8, <1>10, <1>11, <1>12

(* What a chain refuses gets through in no disguise, whatever the texts,    *)
(* the chain and the bounds: a document, a memory or an argument of a call  *)
(* that is let through was accepted, or is cleared of what a redaction      *)
(* removes, which of a long match is its beginning; no memory of a dirty    *)
(* body is stored; and no needle lies in two neighbours of an allowed       *)
(* context and the blank line between them (runValidatorChain,              *)
(* applyRedaction, rescanLaunderedProvenance, selectEntriesNewestFirst).    *)
THEOREM NothingRefusedEverSurvives == CompositesSpec => []NothingRefusedSurvives
<1>1. CompositesInit => PartsInv
  BY PartsInvInit
<1>2. PartsInv /\ [CompositesNext]_compositesVars => PartsInv'
  <2> SUFFICES ASSUME PartsInv, [CompositesNext]_compositesVars PROVE PartsInv'
    OBVIOUS
  <2>1. CASE JudgeDocument
    BY <2>1, JudgeDocumentStep
  <2>2. CASE JudgeArgument
    BY <2>2, JudgeArgumentStep
  <2>3. CASE EndOfParts
    BY <2>3, EndOfPartsStep
  <2>4. CASE JudgeMemory
    BY <2>4, JudgeMemoryStep
  <2>5. CASE JudgeContext
    BY <2>5, JudgeContextStep
  <2>6. ASSUME NEW r \in Refs, NEW body \in {"clean", "dirty"}, PutRaw(r, body) PROVE PartsInv'
    BY <2>6, PutRawStep
  <2>7. CASE UNCHANGED compositesVars
    BY <2>7 DEF compositesVars, PartsInv, PartTypes, DropsRefused, RedactsRefused, CallsRefused,
                AllIsJudged, MemoryIsClean, ContextPasses
  <2> QED BY <2>1, <2>2, <2>3, <2>4, <2>5, <2>6, <2>7 DEF CompositesNext
<1>3. PartsInv => NothingRefusedSurvives
  BY PartsInvSuffices
<1> QED BY <1>1, <1>2, <1>3, PTL DEF CompositesSpec
=============================================================================
