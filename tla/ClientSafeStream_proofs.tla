---------------------- MODULE ClientSafeStream_proofs ----------------------
(***************************************************************************)
(* Proofs about streaming, for every kind of chunk, length of stream,      *)
(* limit, buffer size and schedule, when the caller's onBlocked callback   *)
(* does not throw.  First the stream validator by itself, in both          *)
(* lifecycles: what is handed out was allowed, a refusal is final, and the *)
(* schedule of the legacy lifecycle has no hole.  Then the client-safe     *)
(* gate over it, which implements ValidateBeforeRelease.                   *)
(***************************************************************************)
EXTENDS ClientSafeStream, SequenceTheorems, TLAPS

(* The handler of a block does not throw.                                   *)
Quiet == OnBlockedThrows = FALSE

(* The types of the stream validator, with the count of its chunks.         *)
StreamTypes ==
  /\ accumulated \in Seq(Numbered) /\ pending \in Seq(Numbered)
  /\ released \in Seq(Numbered) /\ covered \in Seq(Numbered)
  /\ chunkCount = Len(accumulated)
  /\ fed \in Nat
  /\ mode \in {"none", "legacy", "gated"}

(* The lifecycle that was chosen owns the buffers: outside the gated one    *)
(* nothing is held or handed out, before either nothing has come.           *)
LifecycleOwns ==
  /\ mode # "gated" => pending = <<>> /\ released = <<>>
  /\ mode = "none" => accumulated = <<>> /\ covered = <<>>
  /\ op \in {"process", "finalize", "disposing"} => mode # "gated"
  /\ Gated => mode = "gated"

(* While the stream is open, what was handed out and what is held make up   *)
(* the content that the engine is asked about.                              *)
NothingAside ==
  /\ mode = "gated" /\ ~blocked => released \o pending = accumulated
  /\ accumulated = <<>> /\ ~blocked => covered = <<>>

(* The invariant of the stream validator.                                   *)
StreamInv ==
  /\ StreamTypes
  /\ op \in {"idle", "process", "finalize", "disposing", "processForClient",
             "finalizeForClient"}
  /\ LifecycleOwns
  /\ NothingAside
  /\ op # "idle" => ~blocked
  /\ ReleasedWasAllowed
  /\ RefusedIsBlocked
  /\ ScheduleCovers

(* A sequence begins with nothing and with itself.                          *)
LEMMA PrefixOfItself ==
  ASSUME NEW S, NEW s \in Seq(S)
  PROVE  IsPrefix(s, s) /\ IsPrefix(<<>>, s)
BY DEF IsPrefix

(* A new validator.                                                         *)
LEMMA StreamInvInit == StreamInit => StreamInv
<1> SUFFICES ASSUME StreamInit PROVE StreamInv
  OBVIOUS
<1>1. <<>> \in Seq(Numbered) /\ 0 \in Nat /\ Len(<<>>) = 0
  OBVIOUS
<1>2. ReleasedWasAllowed
  BY <1>1, PrefixOfItself DEF StreamInit, ReleasedWasAllowed
<1>3. StreamTypes
  BY <1>1, Zenon DEF StreamInit, StreamTypes
<1> QED BY <1>2, <1>3 DEF StreamInit, StreamInv, LifecycleOwns, NothingAside,
                          RefusedIsBlocked, ScheduleCovers, Gated

(* The accumulator takes a chunk.                                           *)
LEMMA Accumulated ==
  ASSUME StreamInv, NEW c \in Chunks, Feed, Accumulate(c)
  PROVE  /\ accumulated' \in Seq(Numbered)
         /\ chunkCount' = Len(accumulated') /\ chunkCount' \in Nat \ {0}
         /\ accumulated' # <<>>
         /\ fed' \in Nat
         /\ [n |-> fed', is |-> c] \in Numbered
         /\ accumulated' = Append(accumulated, [n |-> fed', is |-> c])
<1> DEFINE x == [n |-> fed', is |-> c]
<1>1. fed' \in 1..MaxChunks
  BY StreamAssumption DEF StreamInv, StreamTypes, Feed
<1>2. x \in Numbered
  BY <1>1 DEF Numbered
<1>3. accumulated' = Append(accumulated, x) /\ chunkCount' = chunkCount + 1
  BY DEF Accumulate
<1> HIDE DEF x
<1>4. accumulated \in Seq(Numbered) /\ chunkCount = Len(accumulated)
  BY DEF StreamInv, StreamTypes
<1>5. accumulated' \in Seq(Numbered) /\ Len(accumulated') = Len(accumulated) + 1
  BY <1>2, <1>3, <1>4
<1>6. chunkCount' = Len(accumulated') /\ chunkCount' \in Nat \ {0} /\ accumulated' # <<>>
  BY <1>3, <1>4, <1>5
<1> QED BY <1>1, <1>2, <1>3, <1>5, <1>6 DEF x

(* process(chunk).                                                          *)
LEMMA ProcessStep ==
  ASSUME StreamInv, NEW c \in Chunks, Process(c)
  PROVE  StreamInv'
<1>1. /\ op = "idle" /\ mode # "gated" /\ mode' = "legacy" /\ Feed
      /\ UNCHANGED <<pending, released, covered, refused>>
  BY DEF Process
<1>2. ReleasedWasAllowed'
  BY <1>1 DEF StreamInv, ReleasedWasAllowed
<1>3. pending' = <<>> /\ released' = <<>>
  BY <1>1 DEF StreamInv, LifecycleOwns
<1>4. CASE ~blocked /\ Accumulate(c) /\ op' = IF OnSchedule(chunkCount') THEN "process" ELSE "idle"
  <2>1. ~blocked' /\ ~refused
    BY <1>4 DEF Accumulate, StreamInv, RefusedIsBlocked
  <2>2. /\ accumulated' \in Seq(Numbered) /\ chunkCount' = Len(accumulated')
        /\ chunkCount' \in Nat \ {0} /\ accumulated' # <<>> /\ fed' \in Nat
    BY <1>1, <1>4, Accumulated
  <2>3. StreamTypes'
    BY <1>1, <2>2 DEF StreamInv, StreamTypes
  <2>4. chunkCount' > 0
    BY <2>2
  <2>5. op' \in {"idle", "process"} /\ (op' = "idle" => ~OnSchedule(chunkCount'))
    BY <1>4, Zenon
  <2>6. op' = "idle" => HasUnvalidatedTail'
    BY <2>1, <2>4, <2>5, Zenon DEF HasUnvalidatedTail, OnSchedule
  <2>7. LifecycleOwns' /\ NothingAside'
    BY <1>1, <1>3, <2>2, <2>5 DEF LifecycleOwns, NothingAside, Gated
  <2>8. ScheduleCovers'
    BY <2>6 DEF ScheduleCovers
  <2>9. RefusedIsBlocked'
    BY <1>1, <2>1 DEF RefusedIsBlocked
  <2> QED BY <1>2, <2>1, <2>3, <2>5, <2>7, <2>8, <2>9 DEF StreamInv
<1>5. CASE (blocked \/ Overflows(c)) /\ UNCHANGED <<state, op>>
  <2>1. fed' \in Nat
    BY <1>1 DEF Feed, StreamInv, StreamTypes
  <2>2. StreamTypes'
    BY <1>1, <1>5, <2>1 DEF StreamInv, StreamTypes, state
  <2>3. LifecycleOwns' /\ NothingAside'
    BY <1>1, <1>3, <1>5 DEF StreamInv, LifecycleOwns, NothingAside, Gated, state
  <2>4. RefusedIsBlocked'
    BY <1>1, <1>5 DEF StreamInv, RefusedIsBlocked, state
  <2>5. HasUnvalidatedTail' = HasUnvalidatedTail /\ blocked' = blocked
    BY <1>5 DEF HasUnvalidatedTail, state
  <2>6. mode = "legacy" \/ accumulated = covered \/ mode \notin {"none", "legacy"}
    BY DEF StreamInv, LifecycleOwns
  <2>7. mode \in {"none", "legacy"}
    BY <1>1 DEF StreamInv, StreamTypes
  <2>8. ScheduleCovers'
    BY <1>1, <1>5, <2>5, <2>6, <2>7 DEF StreamInv, ScheduleCovers, state
  <2> QED BY <1>1, <1>2, <1>5, <2>2, <2>3, <2>4, <2>8 DEF StreamInv, state
<1> QED BY <1>4, <1>5 DEF Process

(* processForClient(chunk) up to its await.                                 *)
LEMMA ProcessForClientStep ==
  ASSUME StreamInv, NEW c \in Chunks, ProcessForClient(c)
  PROVE  StreamInv'
<1>1. /\ op = "idle" /\ mode # "legacy" /\ mode' = "gated" /\ Feed
      /\ UNCHANGED <<released, covered, refused>>
  BY DEF ProcessForClient
<1>2. ReleasedWasAllowed' /\ ScheduleCovers'
  BY <1>1 DEF StreamInv, ReleasedWasAllowed, ScheduleCovers
<1>3. mode \in {"none", "gated"}
  BY <1>1 DEF StreamInv, StreamTypes
<1>4. /\ accumulated \in Seq(Numbered) /\ pending \in Seq(Numbered) /\ released \in Seq(Numbered)
  BY DEF StreamInv, StreamTypes
<1>5. ~blocked => released \o pending = accumulated
  <2>1. CASE mode = "none"
    BY <2>1 DEF StreamInv, LifecycleOwns
  <2>2. CASE mode = "gated"
    BY <2>2 DEF StreamInv, NothingAside
  <2> QED BY <1>3, <2>1, <2>2
<1>6. CASE /\ ~blocked /\ Accumulate(c)
           /\ pending' = Append(pending, [n |-> fed', is |-> c])
           /\ op' = IF ShouldRelease(pending') THEN "processForClient" ELSE "idle"
  <2> DEFINE x == [n |-> fed', is |-> c]
  <2>1. ~blocked' /\ ~refused
    BY <1>6 DEF Accumulate, StreamInv, RefusedIsBlocked
  <2>2. /\ accumulated' \in Seq(Numbered) /\ chunkCount' = Len(accumulated')
        /\ accumulated' # <<>> /\ fed' \in Nat /\ x \in Numbered
        /\ accumulated' = Append(accumulated, x) /\ pending' = Append(pending, x)
    BY <1>1, <1>6, Accumulated
  <2>3. op' \in {"idle", "processForClient"}
    BY <1>6, Zenon
  <2> HIDE DEF x
  <2>4. pending' \in Seq(Numbered) /\ released \o pending' = accumulated'
    BY <1>4, <1>5, <1>6, <2>2, SMTT(40)
  <2>5. StreamTypes'
    BY <1>1, <2>2, <2>4 DEF StreamInv, StreamTypes
  <2>6. LifecycleOwns' /\ NothingAside' /\ RefusedIsBlocked'
    BY <1>1, <2>1, <2>2, <2>3, <2>4 DEF LifecycleOwns, NothingAside, RefusedIsBlocked, Gated
  <2> QED BY <1>2, <2>1, <2>3, <2>5, <2>6 DEF StreamInv
<1>7. CASE (blocked \/ Overflows(c)) /\ UNCHANGED <<state, pending, op>>
  <2>1. fed' \in Nat
    BY <1>1 DEF Feed, StreamInv, StreamTypes
  <2>2. StreamTypes'
    BY <1>1, <1>7, <2>1 DEF StreamInv, StreamTypes, state
  <2>3. LifecycleOwns' /\ NothingAside' /\ RefusedIsBlocked'
    BY <1>1, <1>5, <1>7
       DEF StreamInv, LifecycleOwns, NothingAside, RefusedIsBlocked, Gated, state
  <2> QED BY <1>1, <1>2, <1>7, <2>2, <2>3 DEF StreamInv
<1> QED BY <1>6, <1>7 DEF ProcessForClient

(* A call that only sets flags and, when it has something to judge, awaits  *)
(* the engine.                                                              *)
LEMMA Awaiting ==
  ASSUME StreamInv, op = "idle",
         UNCHANGED <<state, mode, pending, fed, released, covered, refused>>,
         \/ op' = "idle"
         \/ op' \in {"finalize", "disposing"} /\ mode # "gated" /\ ~blocked
         \/ op' = "finalizeForClient" /\ pending # <<>> /\ ~blocked
  PROVE  StreamInv'
<1>1. StreamTypes' /\ RefusedIsBlocked' /\ ReleasedWasAllowed' /\ NothingAside'
  BY DEF StreamInv, StreamTypes, RefusedIsBlocked, ReleasedWasAllowed, NothingAside, state
<1>2. LifecycleOwns'
  BY DEF StreamInv, LifecycleOwns, Gated, state
<1>3. HasUnvalidatedTail' = HasUnvalidatedTail
  BY DEF HasUnvalidatedTail, state
<1>4. ScheduleCovers'
  BY <1>3 DEF StreamInv, ScheduleCovers, state
<1> QED BY <1>1, <1>2, <1>4 DEF StreamInv, state

(* finalize(), finalizeForClient() and asyncDispose.                        *)
LEMMA ClosingStep ==
  ASSUME StreamInv, Finalize \/ FinalizeForClient \/ Dispose
  PROVE  StreamInv'
<1>1. ASSUME StartFlush
      PROVE  op' = "idle" \/ (op' = "finalizeForClient" /\ pending # <<>> /\ ~blocked)
  BY <1>1 DEF StartFlush, HasText
<1>2. CASE Finalize
  BY <1>2, Awaiting DEF Finalize, StartFinalize, HasUnvalidatedTail
<1>3. CASE FinalizeForClient
  BY <1>1, <1>3, Awaiting DEF FinalizeForClient
<1>4. CASE Dispose
  BY <1>1, <1>4, Awaiting DEF Dispose, HasUnvalidatedTail
<1> QED BY <1>2, <1>3, <1>4

(* The engine's verdict on the accumulator.                                 *)
LEMMA AnswerStep ==
  ASSUME StreamInv, Quiet, NEW verdict \in Verdict, EngineAnswers(verdict)
  PROVE  StreamInv'
<1>1. op # "idle" /\ ~blocked /\ ~refused /\ op' = "idle" /\ UNCHANGED <<mode, fed>>
  BY DEF EngineAnswers, StreamInv, RefusedIsBlocked
<1>2. /\ accumulated \in Seq(Numbered) /\ pending \in Seq(Numbered)
      /\ released \in Seq(Numbered) /\ covered \in Seq(Numbered) /\ fed \in Nat
      /\ chunkCount = Len(accumulated) /\ mode \in {"none", "legacy", "gated"}
  BY DEF StreamInv, StreamTypes
<1>3. CASE Allowed
  <2>1. covered' = accumulated /\ UNCHANGED <<state, refused>>
    BY <1>3 DEF Allowed
  <2>2. CASE Gated
    <3>1. mode = "gated" /\ released' = released \o pending /\ pending' = <<>>
      BY <1>3, <2>2 DEF Allowed, StreamInv, LifecycleOwns
    <3>2. released' = accumulated
      BY <1>1, <3>1 DEF StreamInv, NothingAside
    <3>3. /\ released' \in Seq(Numbered) /\ pending' \in Seq(Numbered)
          /\ released' \o pending' = accumulated
      BY <1>2, <3>1, <3>2
    <3>4. ReleasedWasAllowed'
      BY <1>2, <2>1, <3>2, PrefixOfItself DEF ReleasedWasAllowed
    <3>5. StreamTypes'
      BY <1>1, <1>2, <2>1, <3>3 DEF StreamTypes, state
    <3>6. LifecycleOwns' /\ NothingAside'
      BY <1>1, <2>1, <3>1, <3>3 DEF LifecycleOwns, NothingAside, Gated, state
    <3>7. RefusedIsBlocked' /\ ScheduleCovers'
      BY <1>1, <2>1 DEF RefusedIsBlocked, ScheduleCovers, state
    <3> QED BY <1>1, <3>4, <3>5, <3>6, <3>7 DEF StreamInv
  <2>3. CASE ~Gated
    <3>1. mode # "gated" /\ UNCHANGED <<released, pending>>
      BY <1>1, <1>3, <2>3 DEF Allowed, StreamInv, LifecycleOwns, Gated
    <3>2. pending = <<>> /\ released = <<>>
      BY <3>1 DEF StreamInv, LifecycleOwns
    <3>3. ReleasedWasAllowed'
      BY <1>2, <2>1, <3>1, <3>2, PrefixOfItself DEF ReleasedWasAllowed
    <3>4. StreamTypes'
      BY <1>1, <1>2, <2>1, <3>1 DEF StreamTypes, state
    <3>5. mode = "none" => accumulated = <<>>
      BY DEF StreamInv, LifecycleOwns
    <3>6. LifecycleOwns' /\ NothingAside'
      BY <1>1, <2>1, <3>1, <3>2, <3>5 DEF LifecycleOwns, NothingAside, Gated, state
    <3>7. RefusedIsBlocked' /\ ScheduleCovers'
      BY <1>1, <2>1 DEF RefusedIsBlocked, ScheduleCovers, state
    <3> QED BY <1>1, <3>3, <3>4, <3>6, <3>7 DEF StreamInv
  <2> QED BY <2>2, <2>3
<1>4. CASE Refused(verdict)
  <2>1. /\ blocked' = TRUE /\ accumulated' = <<>> /\ chunkCount' = 0
        /\ UNCHANGED <<released, covered>>
    BY <1>4 DEF Refused, MarkBlocked, Quiet
  <2>2. pending' = <<>>
    <3>1. CASE Gated
      BY <1>4, <3>1 DEF Refused
    <3>2. CASE ~Gated
      <4>1. mode # "gated" /\ pending' = pending
        BY <1>1, <1>4, <3>2 DEF Refused, StreamInv, LifecycleOwns, Gated
      <4> QED BY <4>1 DEF StreamInv, LifecycleOwns
    <3> QED BY <3>1, <3>2
  <2>3. <<>> \in Seq(Numbered) /\ Len(<<>>) = 0
    OBVIOUS
  <2>4. StreamTypes'
    BY <1>1, <1>2, <2>1, <2>2, <2>3 DEF StreamTypes
  <2>5. LifecycleOwns'
    BY <1>1, <2>1, <2>2 DEF StreamInv, LifecycleOwns, Gated
  <2>6. NothingAside' /\ RefusedIsBlocked' /\ ScheduleCovers'
    BY <2>1, <2>2 DEF NothingAside, RefusedIsBlocked, ScheduleCovers
  <2>7. ReleasedWasAllowed'
    BY <2>1 DEF StreamInv, ReleasedWasAllowed
  <2> QED BY <1>1, <2>4, <2>5, <2>6, <2>7 DEF StreamInv
<1> QED BY <1>3, <1>4 DEF EngineAnswers

(* Every step of the validator keeps the invariant.                         *)
LEMMA StreamInvStep ==
  ASSUME StreamInv, Quiet, [StreamNext]_streamVars
  PROVE  StreamInv'
<1>1. CASE StreamNext
  BY <1>1, ProcessStep, ProcessForClientStep, ClosingStep, AnswerStep DEF StreamNext
<1>2. CASE UNCHANGED streamVars
  <2>1. UNCHANGED <<accumulated, byteSize, chunkCount, blocked, mode, op, pending, fed,
                    released, covered, refused>>
    BY <1>2 DEF streamVars, state, lifecycle
  <2>2. HasUnvalidatedTail' = HasUnvalidatedTail
    BY <2>1 DEF HasUnvalidatedTail
  <2> QED BY <2>1, <2>2
          DEF StreamInv, StreamTypes, LifecycleOwns, NothingAside, Gated, ReleasedWasAllowed,
              RefusedIsBlocked, ScheduleCovers
<1> QED BY <1>1, <1>2

(* The invariant holds throughout.                                          *)
LEMMA StreamInvariant ==
  ASSUME Quiet
  PROVE  StreamSpec => []StreamInv
<1>1. StreamInv /\ [StreamNext]_streamVars => StreamInv'
  BY StreamInvStep
<1> QED BY <1>1, StreamInvInit, PTL DEF StreamSpec

(* Whatever the order of the calls, what has been handed out is the         *)
(* beginning of a content the engine has allowed as a whole                 *)
(* (stream-validator.ts:580-584).                                           *)
THEOREM ReleasedWasAllowedTheorem ==
  ASSUME OnBlockedThrows = FALSE
  PROVE  StreamSpec => []ReleasedWasAllowed
<1>1. Quiet
  BY DEF Quiet
<1>2. StreamInv => ReleasedWasAllowed
  BY DEF StreamInv
<1> QED BY <1>1, <1>2, StreamInvariant, PTL

(* A refused stream stays blocked, keeps no content and hands out no more   *)
(* (stream-validator.ts:564-567).                                           *)
THEOREM RefusedIsBlockedTheorem ==
  ASSUME OnBlockedThrows = FALSE
  PROVE  StreamSpec => []RefusedIsBlocked
<1>1. Quiet
  BY DEF Quiet
<1>2. StreamInv => RefusedIsBlocked
  BY DEF StreamInv
<1> QED BY <1>1, <1>2, StreamInvariant, PTL

(* The schedule of the legacy lifecycle has no hole, for every interval     *)
(* (stream-validator.ts:208-215, 526).                                      *)
THEOREM ScheduleCoversTheorem ==
  ASSUME OnBlockedThrows = FALSE
  PROVE  StreamSpec => []ScheduleCovers
<1>1. Quiet
  BY DEF Quiet
<1>2. StreamInv => ScheduleCovers
  BY DEF StreamInv
<1> QED BY <1>1, <1>2, StreamInvariant, PTL
-----------------------------------------------------------------------------
(* What an open gate knows: the held chunks complete the delivered ones,    *)
(* the accumulator has the text of all that arrived, and what has not been  *)
(* judged yet is pending, which is the text of the held chunks.             *)
OpenGate ==
  /\ delivered \o held = arrived
  /\ ToSet(accumulated) = ToSet(arrived) \cap Bearing
  /\ ToSet(arrived) \cap Bearing \subseteq ToSet(covered) \cup ToSet(pending)
  /\ ToSet(held) \cap Bearing = ToSet(pending)

(* The types of the gate over it.                                           *)
GateTypes ==
  /\ accumulated \in Seq(Numbered) /\ pending \in Seq(Numbered) /\ covered \in Seq(Numbered)
  /\ held \in Seq(Numbered) /\ arrived \in Seq(Numbered) /\ delivered \in Seq(Numbered)
  /\ fed \in Nat /\ finished \in BOOLEAN /\ finalisedForClient \in BOOLEAN

(* The invariant of the gate: until it blocks, nothing is lost or doubled on *)
(* the way from the caller to the client.                                   *)
GateInv ==
  /\ GateTypes
  /\ op \in {"idle", "processForClient", "finalizeForClient"}
  /\ op # "idle" => ~GateBlocked
  /\ finalisedForClient => finished
  /\ ~GateBlocked => OpenGate

(* The elements of a sequence with one more behind, ...                     *)
LEMMA ToSetAppend ==
  ASSUME NEW S, NEW s \in Seq(S), NEW x \in S
  PROVE  Append(s, x) \in Seq(S) /\ ToSet(Append(s, x)) = ToSet(s) \cup {x}
<1> DEFINE a == Append(s, x)
<1>1. /\ a \in Seq(S) /\ Len(s) \in Nat /\ DOMAIN a = 1..(Len(s) + 1) /\ DOMAIN s = 1..Len(s)
      /\ \A i \in 1..Len(s) : a[i] = s[i]
      /\ a[Len(s) + 1] = x
  OBVIOUS
<1> HIDE DEF a
<1>2. ASSUME NEW i \in DOMAIN a PROVE a[i] \in ToSet(s) \cup {x}
  BY <1>1 DEF ToSet
<1>3. ASSUME NEW i \in DOMAIN s PROVE s[i] \in ToSet(a)
  BY <1>1 DEF ToSet
<1>4. x \in ToSet(a)
  BY <1>1 DEF ToSet
<1>5. ToSet(a) \subseteq ToSet(s) \cup {x} /\ ToSet(s) \subseteq ToSet(a)
  BY <1>2, <1>3 DEF ToSet
<1> QED BY <1>1, <1>4, <1>5 DEF a

(* ... of the empty one, ...                                                *)
LEMMA ToSetEmpty == ToSet(<<>>) = {}
BY DEF ToSet

(* ... and how sequences with one more, ...                                 *)
LEMMA AppendToConcat ==
  ASSUME NEW S, NEW s \in Seq(S), NEW t \in Seq(S), NEW x \in S
  PROVE  s \o Append(t, x) = Append(s \o t, x)
OBVIOUS

(* ... or with none, behind are put together.                               *)
LEMMA ConcatEmpty ==
  ASSUME NEW S, NEW s \in Seq(S)
  PROVE  s \o <<>> = s
OBVIOUS

(* The two values of a step's flag are equal when both are false.           *)
LEMMA StillOpen ==
  ASSUME ~GateBlocked, ~GateBlocked'
  PROVE  GateBlocked' = GateBlocked
BY DEF GateBlocked

(* The chunk at hand.                                                       *)
LEMMA NewChunk ==
  ASSUME GateInv, NEW c \in Chunks, Feed
  PROVE  /\ [n |-> fed', is |-> c] \in Numbered
         /\ [n |-> fed', is |-> c] \in Bearing <=> Units(c) # 0
         /\ fed' \in Nat
<1>1. fed' \in 1..MaxChunks
  BY StreamAssumption DEF GateInv, GateTypes, Feed
<1>2. [n |-> fed', is |-> c] \in Numbered
  BY <1>1 DEF Numbered
<1> QED BY <1>1, <1>2 DEF Bearing

(* A new gate has the invariant.                                            *)
LEMMA GateInvInit == ClientInit => GateInv
<1> SUFFICES ASSUME ClientInit PROVE GateInv
  OBVIOUS
<1>1. GateTypes
  <2>1. <<>> \in Seq(Numbered) /\ 0 \in Nat
    OBVIOUS
  <2> QED BY <2>1, Zenon DEF ClientInit, StreamInit, GateTypes
<1>2. OpenGate
  BY ToSetEmpty DEF ClientInit, StreamInit, OpenGate
<1> QED BY <1>1, <1>2 DEF ClientInit, StreamInit, GateInv

(* A chunk without text arrives.                                            *)
LEMMA PushTextFreeStep ==
  ASSUME GateInv, NEW c \in Chunks, Push(c), PushTextFree(c)
  PROVE  GateInv' /\ Promise!Arrive
<1> DEFINE x == [n |-> fed', is |-> c]
<1>1. x \in Numbered /\ x \notin Bearing /\ fed' \in Nat
  BY NewChunk DEF PushTextFree
<1>2. /\ arrived' = Append(arrived, x) /\ held' = Append(held, x)
      /\ UNCHANGED <<delivered, errored, finished, state, lifecycle, pending, covered>>
  BY DEF Push, PushTextFree, Hold
<1> HIDE DEF x
<1>3. ~GateBlocked /\ ~GateBlocked'
  BY <1>2 DEF Push, GateBlocked, state
<1>4. /\ arrived \in Seq(Numbered) /\ held \in Seq(Numbered) /\ delivered \in Seq(Numbered)
      /\ OpenGate
  BY <1>3 DEF GateInv, GateTypes
<1>5. /\ arrived' \in Seq(Numbered) /\ ToSet(arrived') = ToSet(arrived) \cup {x}
      /\ held' \in Seq(Numbered) /\ ToSet(held') = ToSet(held) \cup {x}
      /\ delivered' \o held' = Append(delivered \o held, x)
  BY <1>1, <1>2, <1>4, ToSetAppend, AppendToConcat
<1>6. OpenGate'
  BY <1>1, <1>2, <1>4, <1>5 DEF OpenGate, state
<1>7. GateInv'
  BY <1>1, <1>2, <1>3, <1>5, <1>6 DEF GateInv, GateTypes, state, lifecycle
<1>8. Promise!Arrive
  BY <1>1, <1>2, <1>3, StillOpen DEF Promise!Arrive
<1> QED BY <1>7, <1>8

(* A chunk with text arrives, or does not fit and closes the gate.          *)
LEMMA PushTextStep ==
  ASSUME GateInv, NEW c \in Chunks, Push(c), PushText(c)
  PROVE  GateInv' /\ (Promise!Arrive \/ Promise!Stop)
<1> DEFINE x == [n |-> fed', is |-> c]
<1>1. x \in Numbered /\ x \in Bearing /\ fed' \in Nat
  BY NewChunk DEF PushText, ProcessForClient
<1>2. ~GateBlocked /\ ~blocked /\ ~errored
  BY DEF Push, GateBlocked
<1>3. /\ arrived' = Append(arrived, x)
      /\ UNCHANGED <<delivered, finished, finalisedForClient, covered>>
  BY DEF Push, PushText, ProcessForClient
<1>4. /\ arrived \in Seq(Numbered) /\ held \in Seq(Numbered) /\ delivered \in Seq(Numbered)
      /\ accumulated \in Seq(Numbered) /\ pending \in Seq(Numbered) /\ covered \in Seq(Numbered)
      /\ OpenGate /\ op \in {"idle", "processForClient", "finalizeForClient"}
      /\ finalisedForClient => finished
  BY <1>2 DEF GateInv, GateTypes
<1>5. CASE Overflows(c)
  <2>1. errored' = TRUE /\ held' = <<>> /\ UNCHANGED <<state, pending, op>>
    BY <1>5 DEF PushText, ProcessForClient, Accumulate
  <2>2. GateBlocked' /\ op' = "idle"
    BY <2>1 DEF GateBlocked, PushText, ProcessForClient
  <2> HIDE DEF x
  <2>3. GateInv'
    BY <1>1, <1>3, <1>4, <2>1, <2>2, ToSetAppend DEF GateInv, GateTypes, state
  <2>4. Promise!Stop
    BY <1>1, <1>2, <1>3, <2>2 DEF Promise!Stop
  <2> QED BY <2>3, <2>4
<1>6. CASE ~Overflows(c)
  <2>1. /\ accumulated' = Append(accumulated, x) /\ pending' = Append(pending, x)
        /\ UNCHANGED <<blocked, errored>> /\ held' = Append(held, x)
        /\ op' \in {"idle", "processForClient", "finalizeForClient"}
    BY <1>2, <1>6 DEF PushText, ProcessForClient, Accumulate, Hold
  <2> HIDE DEF x
  <2>2. ~GateBlocked'
    BY <1>2, <2>1 DEF GateBlocked
  <2>3. /\ arrived' \in Seq(Numbered) /\ ToSet(arrived') = ToSet(arrived) \cup {x}
        /\ held' \in Seq(Numbered) /\ ToSet(held') = ToSet(held) \cup {x}
        /\ accumulated' \in Seq(Numbered) /\ ToSet(accumulated') = ToSet(accumulated) \cup {x}
        /\ pending' \in Seq(Numbered) /\ ToSet(pending') = ToSet(pending) \cup {x}
        /\ delivered' \o held' = Append(delivered \o held, x)
    BY <1>1, <1>3, <1>4, <2>1, ToSetAppend, AppendToConcat, SMTT(40)
  <2>4. OpenGate'
    BY <1>1, <1>3, <1>4, <2>3 DEF OpenGate
  <2>5. GateInv'
    BY <1>1, <1>3, <1>4, <2>1, <2>2, <2>3, <2>4 DEF GateInv, GateTypes
  <2>6. Promise!Arrive
    BY <1>1, <1>2, <1>3, <2>2, StillOpen DEF Promise!Arrive
  <2> QED BY <2>5, <2>6
<1> QED BY <1>5, <1>6

(* The gate is drained.                                                     *)
LEMMA ForwardFacts ==
  ASSUME GateInv, ~GateBlocked, Forward
  PROVE  /\ delivered' = arrived /\ held' = <<>>
         /\ arrived \in Seq(Numbered) /\ held' \in Seq(Numbered)
         /\ arrived \o <<>> = arrived
<1>1. delivered \o held = arrived /\ arrived \in Seq(Numbered)
  BY DEF GateInv, GateTypes, OpenGate
<1> QED BY <1>1, ConcatEmpty DEF Forward

(* The end of the caller's stream hands the rest on, or nothing.            *)
LEMMA FinishStep ==
  ASSUME GateInv, Finish
  PROVE  GateInv' /\ (Promise!DeliverRest \/ UNCHANGED Promise!releaseVars)
<1>1. op = "idle" /\ finished' = TRUE /\ UNCHANGED <<errored, arrived>>
  BY DEF Finish
<1>2. CASE GateBlocked
  <2>1. held' = <<>> /\ UNCHANGED <<delivered, streamVars>>
    BY <1>2 DEF Finish, Drop
  <2> QED BY <1>1, <1>2, <2>1
          DEF GateInv, GateTypes, GateBlocked, OpenGate, streamVars, state, lifecycle, Promise!releaseVars
<1>3. CASE ~GateBlocked
  <2>1. /\ UNCHANGED <<state, pending, fed, covered>> /\ finalisedForClient' = TRUE
        /\ op' = IF ~finalisedForClient /\ ~blocked /\ HasText(pending)
                 THEN "finalizeForClient" ELSE "idle"
        /\ IF op' = "idle" THEN Forward ELSE UNCHANGED <<held, delivered>>
    BY <1>3 DEF Finish, FinalizeForClient, StartFlush
  <2>2. ~GateBlocked' /\ UNCHANGED <<accumulated, blocked>>
    BY <1>1, <1>3, <2>1 DEF GateBlocked, state
  <2>3. CASE op' # "idle"
    <3>1. UNCHANGED <<held, delivered>> /\ op' = "finalizeForClient"
      BY <2>1, <2>3
    <3> QED BY <1>1, <1>3, <2>1, <2>2, <3>1
            DEF GateInv, GateTypes, OpenGate, Promise!releaseVars, GateBlocked
  <2>4. CASE op' = "idle"
    <3>1. /\ delivered' = arrived /\ held' = <<>> /\ arrived \in Seq(Numbered)
          /\ held' \in Seq(Numbered) /\ arrived \o <<>> = arrived
      BY <1>3, <2>1, <2>4, ForwardFacts
    <3>2. ~HasText(pending)
      BY <1>1, <1>3, <2>1, <2>4 DEF GateInv, GateTypes, GateBlocked, Finish
    <3>3. ToSet(pending) = {}
      <4>1. \A y \in ToSet(pending) : Units(y.is) # 0
        BY <1>3 DEF GateInv, OpenGate, Bearing
      <4>2. \A y \in ToSet(pending) : Units(y.is) = 0
        BY <3>2 DEF HasText, ToSet
      <4> QED BY <4>1, <4>2
    <3>4. OpenGate
      BY <1>3 DEF GateInv, GateTypes
    <3>5. OpenGate'
      BY <1>1, <2>1, <2>2, <3>1, <3>3, <3>4, ToSetEmpty DEF OpenGate
    <3>6. GateInv'
      BY <1>1, <2>1, <2>2, <2>4, <3>1, <3>5 DEF GateInv, GateTypes
    <3>7. ToSet(arrived) \cap Bearing \subseteq ToSet(covered)
      BY <3>3, <3>4 DEF OpenGate
    <3>8. Promise!DeliverRest
      BY <1>1, <1>3, <2>1, <2>2, <3>1, <3>7, StillOpen
         DEF Promise!DeliverRest, Promise!ToJudge, Promise!ToSet, ToSet
    <3> QED BY <3>6, <3>8
  <2> QED BY <2>3, <2>4
<1> QED BY <1>2, <1>3

(* A verdict releases what is held or stops the stream.                     *)
LEMMA ResumeStep ==
  ASSUME GateInv, ~OnBlockedThrows, NEW verdict \in Verdict, Resume(verdict)
  PROVE  GateInv' /\ (Promise!Release \/ Promise!Stop)
<1>1. /\ op \in {"processForClient", "finalizeForClient"} /\ op' = "idle"
      /\ UNCHANGED <<finished, errored, arrived, finalisedForClient, fed>>
  BY DEF GateInv, GateTypes, Resume, EngineAnswers
<1>2. ~GateBlocked /\ OpenGate /\ Gated
  BY <1>1 DEF GateInv, GateTypes, Gated
<1>3. CASE verdict = "allow"
  <2>1. /\ covered' = accumulated /\ pending' = <<>> /\ UNCHANGED state /\ Forward
    BY <1>2, <1>3 DEF Resume, EngineAnswers, Allowed
  <2>2. /\ delivered' = arrived /\ held' = <<>> /\ arrived \in Seq(Numbered)
        /\ held' \in Seq(Numbered) /\ arrived \o <<>> = arrived
    BY <1>2, <2>1, ForwardFacts
  <2>3. ~GateBlocked' /\ UNCHANGED <<accumulated, blocked>>
    BY <1>1, <1>2, <2>1 DEF GateBlocked, state
  <2>4. OpenGate'
    BY <1>1, <1>2, <2>1, <2>2, <2>3, ToSetEmpty DEF OpenGate
  <2>5. GateInv'
    BY <1>1, <2>1, <2>2, <2>3, <2>4 DEF GateInv, GateTypes
  <2>6. ToSet(covered') = ToSet(arrived) \cap Bearing
    BY <1>2, <2>1 DEF OpenGate
  <2>7. Promise!Release
    BY <1>1, <1>2, <2>2, <2>3, <2>6, StillOpen
       DEF Promise!Release, Promise!ToJudge, Promise!ToSet, ToSet
  <2> QED BY <2>5, <2>7
<1>4. CASE verdict # "allow"
  <2>1. /\ blocked' = TRUE /\ accumulated' = <<>> /\ pending' = <<>> /\ held' = <<>>
        /\ UNCHANGED <<covered, delivered>>
    BY <1>2, <1>4 DEF Resume, EngineAnswers, Refused, MarkBlocked, Drop
  <2>2. GateBlocked'
    BY <2>1 DEF GateBlocked
  <2>3. GateInv'
    BY <1>1, <2>1, <2>2 DEF GateInv, GateTypes
  <2>4. Promise!Stop
    BY <1>1, <1>2, <2>1, <2>2 DEF Promise!Stop
  <2> QED BY <2>3, <2>4
<1> QED BY <1>3, <1>4

(* So every step keeps the invariant and is one of the promise, or none that *)
(* it sees.                                                                 *)
LEMMA GateStep ==
  ASSUME GateInv, ~OnBlockedThrows, [ClientNext]_clientVars
  PROVE  GateInv' /\ [Promise!ReleaseNext]_(Promise!releaseVars)
<1>1. ASSUME NEW c \in Chunks, Push(c) PROVE GateInv' /\ Promise!ReleaseNext
  <2>1. PushTextFree(c) \/ PushText(c)
    BY <1>1 DEF Push
  <2> QED BY <1>1, <2>1, PushTextFreeStep, PushTextStep DEF Promise!ReleaseNext
<1>2. CASE Finish
  BY <1>2, FinishStep DEF Promise!ReleaseNext
<1>3. ASSUME NEW verdict \in Verdict, Resume(verdict) PROVE GateInv' /\ Promise!ReleaseNext
  BY <1>3, ResumeStep DEF Promise!ReleaseNext
<1>4. CASE UNCHANGED clientVars
  BY <1>4 DEF clientVars, streamVars, gateVars, state, lifecycle, GateInv, GateTypes, OpenGate,
              GateBlocked, Promise!releaseVars
<1> QED BY <1>1, <1>2, <1>3, <1>4 DEF ClientNext

(* The invariant holds throughout, if the handler of a block does not throw. *)
LEMMA GateInvAlways == ~OnBlockedThrows => (ClientSpec => []GateInv)
<1> SUFFICES ASSUME ~OnBlockedThrows PROVE ClientSpec => []GateInv
  OBVIOUS
<1>1. GateInv /\ [ClientNext]_clientVars => GateInv'
  BY GateStep
<1> QED BY <1>1, GateInvInit, PTL DEF ClientSpec

(* Validate before release: every behaviour of the gate is one of           *)
(* ValidateBeforeRelease (client-safe-stream.ts:17-22).                     *)
THEOREM GateValidatesBeforeRelease == ~OnBlockedThrows => (ClientSpec => ValidatesBeforeRelease)
<1> SUFFICES ASSUME ~OnBlockedThrows PROVE ClientSpec => ValidatesBeforeRelease
  OBVIOUS
<1>1. ClientInit => Promise!ReleaseInit
  BY ToSetEmpty DEF ClientInit, StreamInit, GateBlocked, Promise!ReleaseInit
<1>2. GateInv /\ [ClientNext]_clientVars => [Promise!ReleaseNext]_(Promise!releaseVars)
  BY GateStep
<1> QED BY <1>1, <1>2, GateInvAlways, PTL
        DEF ClientSpec, ValidatesBeforeRelease, Promise!ReleaseSpec

(* No chunk of an open gate is lost, doubled or reordered.                  *)
THEOREM GateLosesNothing == ~OnBlockedThrows => (ClientSpec => []NoChunkLost)
<1>1. GateInv => NoChunkLost
  BY DEF GateInv, GateTypes, OpenGate, NoChunkLost
<1> QED BY <1>1, GateInvAlways, PTL

(* The text of the held chunks is what the validator's gate holds.          *)
THEOREM GateMirrorsPending == ~OnBlockedThrows => (ClientSpec => []HeldMirrorsPending)
<1>1. GateInv => HeldMirrorsPending
  BY DEF GateInv, GateTypes, OpenGate, HeldMirrorsPending
<1> QED BY <1>1, GateInvAlways, PTL
=============================================================================
