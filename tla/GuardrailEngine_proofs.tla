----------------------- MODULE GuardrailEngine_proofs -----------------------
(***************************************************************************)
(* Proofs about the engine, for every set of components and calls, every   *)
(* configuration and every bound.  First its breaker: types and what       *)
(* state, count and times say together are inductive.  Then the engine's   *)
(* steps are steps of EngineBreaker, so what was proved of the breaker     *)
(* holds in the engine.  Then the registry: an inductive invariant that    *)
(* says where each component that a call owes an answer to is, and from it *)
(* FailClosed.  Last the callbacks: what is told of a call is a beginning  *)
(* of what is registered.                                                  *)
(***************************************************************************)
EXTENDS GuardrailEngine, FoldLemmas

(* The breaker's invariant.                                                 *)
BreakerInv == BreakerTypeOK /\ CountTracksState

(* A breaker starts with it.                                                *)
LEMMA BreakerInvInit == BreakerInit => BreakerInv
  BY BreakerAssumption DEF BreakerInit, BreakerInv, BreakerTypeOK,
     CountTracksState, BreakerState, Never

(* Each method keeps the invariant while the clock stands still.            *)
LEMMA IsOpenKeepsInv ==
  ASSUME BreakerInv, NEW answer, IsOpen(answer), UNCHANGED clock
  PROVE  BreakerInv'
  BY BreakerAssumption DEF BreakerInv, BreakerTypeOK, CountTracksState,
     BreakerState, Never, IsOpen, Expired, breakerVars

(* A violation counts, and may open it.                                     *)
LEMMA RecordViolationKeepsInv ==
  ASSUME BreakerInv, RecordViolation, UNCHANGED clock
  PROVE  BreakerInv'
  BY BreakerAssumption DEF BreakerInv, BreakerTypeOK, CountTracksState,
     BreakerState, Never, RecordViolation, Trips

(* A call that goes through closes it if it was half open.                  *)
LEMMA ResetKeepsInv ==
  ASSUME BreakerInv, ResetIfRecovering, UNCHANGED clock
  PROVE  BreakerInv'
  BY BreakerAssumption DEF BreakerInv, BreakerTypeOK, CountTracksState,
     BreakerState, Never, ResetIfRecovering, breakerVars

(* Time passes.                                                             *)
LEMMA TickKeepsInv ==
  ASSUME BreakerInv, Tick, UNCHANGED breakerVars
  PROVE  BreakerInv'
  BY BreakerAssumption DEF BreakerInv, BreakerTypeOK, CountTracksState,
     BreakerState, Never, Tick, breakerVars

(* So every step of the breaker keeps it.                                   *)
LEMMA BreakerNextKeepsInv ==
  ASSUME BreakerInv, [BreakerNext]_engineBreakerVars
  PROVE  BreakerInv'
<1>1. CASE \E answer \in BOOLEAN : IsOpen(answer) /\ UNCHANGED clock
  BY <1>1, IsOpenKeepsInv
<1>2. CASE RecordViolation /\ UNCHANGED clock
  BY <1>2, RecordViolationKeepsInv
<1>3. CASE ResetIfRecovering /\ UNCHANGED clock
  BY <1>3, ResetKeepsInv
<1>4. CASE Tick /\ UNCHANGED breakerVars
  BY <1>4, TickKeepsInv
<1>5. CASE UNCHANGED engineBreakerVars
  BY <1>5 DEF BreakerInv, BreakerTypeOK, CountTracksState, engineBreakerVars,
     breakerVars
<1> QED  BY <1>1, <1>2, <1>3, <1>4, <1>5 DEF BreakerNext

(* Type correctness and the agreement of state, count and times hold in     *)
(* every reachable state of the breaker (CircuitBreaker.ts:42-116).         *)
THEOREM BreakerInvariant == BreakerSpec => [](BreakerTypeOK /\ CountTracksState)
<1>1. BreakerInit => BreakerInv
  BY BreakerInvInit
<1>2. BreakerInv /\ [BreakerNext]_engineBreakerVars => BreakerInv'
  BY BreakerNextKeepsInv
<1> QED  BY <1>1, <1>2, PTL DEF BreakerSpec, BreakerInv

(* An OPEN breaker is left only for HALF_OPEN and only one timeout after    *)
(* the newest violation, and CLOSED never leads to HALF_OPEN.               *)
THEOREM OpenLastsATimeout == BreakerSpec => LeavesOpenLate
<1> DEFINE A == /\ (breaker = "OPEN" /\ breaker' # "OPEN") =>
                     breaker' = "HALF_OPEN" /\ clock >= lastViolationTime + TimeoutMs
                /\ breaker = "CLOSED" => breaker' # "HALF_OPEN"
<1>1. ASSUME BreakerInv, [BreakerNext]_engineBreakerVars
      PROVE  [A]_engineBreakerVars
  BY <1>1, BreakerAssumption DEF BreakerInv, BreakerTypeOK, CountTracksState,
     BreakerState, BreakerNext, IsOpen, Expired, RecordViolation, Trips,
     ResetIfRecovering, Tick, engineBreakerVars, breakerVars
<1>2. BreakerSpec => []BreakerInv
  BY BreakerInvariant, PTL DEF BreakerInv
<1> QED  BY <1>1, <1>2, PTL DEF BreakerSpec, LeavesOpenLate
-----------------------------------------------------------------------------
(* The engine drives the breaker.                                           *)

(* A step of the engine is one of the breaker, or leaves it alone.          *)
LEMMA StepDrivesBreaker ==
  ASSUME [Next]_vars
  PROVE  [BreakerNext]_engineBreakerVars
<1> USE DEF BreakerNext, engineBreakerVars, breakerVars
<1>1. ASSUME NEW c \in Calls, NEW k \in Kinds, Enter(c, k)
      PROVE  [BreakerNext]_engineBreakerVars
  BY <1>1 DEF Enter, RefusedByBreaker, BypassedByToken, Admitted
<1>2. ASSUME NEW c \in Calls, NEW resets, Conclude(c, resets), UNCHANGED clock
      PROVE  [BreakerNext]_engineBreakerVars
  BY <1>2 DEF Conclude
<1>3. ASSUME NEW c \in Calls, CallStep(c)
      PROVE  [BreakerNext]_engineBreakerVars
  <2>1. CASE \E who \in Component, answer \in Answer :
               \/ ValidatorAnswers(c, who, answer)
               \/ ParallelAnswers(c, who, answer)
               \/ GuardAnswers(c, who, answer)
    BY <2>1 DEF ValidatorAnswers, ParallelAnswers, GuardAnswers, LoopAnswers
  <2>2. CASE EndValidators(c)
    <3>1. CASE ShortCircuits(c)
      BY <2>2, <3>1, <1>2 DEF EndValidators, ShortCircuits
    <3>2. CASE StartGuards(c)
      BY <2>2, <3>2 DEF EndValidators, StartGuards
    <3> QED  BY <2>2, <3>1, <3>2 DEF EndValidators
  <2>3. CASE EndGuards(c)
    BY <2>3, <1>2 DEF EndGuards
  <2> QED  BY <1>3, <2>1, <2>2, <2>3 DEF CallStep
<1>4. ASSUME NEW c \in Calls, NEW rs, NotifyCached(c, rs)
      PROVE  [BreakerNext]_engineBreakerVars
  BY <1>4 DEF NotifyCached
<1>5. CASE \/ RunCallback
           \/ \E f \in Callbacks : OnIntercept(f)
           \/ \E v \in Validators : AddValidator(v)
           \/ \E g \in Guards : AddGuard(g)
           \/ \E p \in DOMAIN validators : RemoveValidator(p)
           \/ \E p \in DOMAIN guards : RemoveGuard(p)
  BY <1>5 DEF RunCallback, OnIntercept, AddValidator, AddGuard, RemoveValidator,
     RemoveGuard, Splice
<1>6. CASE BufferOverflow \/ QueryBreaker \/ TimePasses
  BY <1>6 DEF BufferOverflow, QueryBreaker, TimePasses
<1>7. CASE UNCHANGED vars
  BY <1>7 DEF vars
<1> QED  BY <1>1, <1>3, <1>4, <1>5, <1>6, <1>7 DEF Next

(* So the engine's behaviours are the breaker's, whatever calls are in       *)
(* flight.                                                                  *)
LEMMA EngineDrivesBreaker == Spec => BreakerSpec
<1>1. Init => BreakerInit
  BY DEF Init
<1> QED  BY <1>1, StepDrivesBreaker, PTL DEF Spec, BreakerSpec

(* The breaker's invariant therefore holds in the engine.                   *)
THEOREM EngineBreakerInvariant == Spec => [](BreakerTypeOK /\ CountTracksState)
  BY EngineDrivesBreaker, BreakerInvariant, PTL

(* CircuitBreaker.ts:106-116: for any registry, calls, threshold and        *)
(* timeout, the breaker closes only from HALF_OPEN and not before a full    *)
(* timeout after the newest violation, although every call asks it before   *)
(* its awaits and resets it after them.                                     *)
THEOREM EngineClosesLate == Spec => ClosesLate
<1> DEFINE Closing ==
  breaker # "CLOSED" /\ breaker' = "CLOSED" =>
    breaker = "HALF_OPEN" /\ clock >= lastViolationTime + TimeoutMs
<1>1. CountTracksState /\ [BreakerNext]_engineBreakerVars => Closing
  <2> SUFFICES ASSUME CountTracksState, breaker # "CLOSED", breaker' = "CLOSED",
                      [BreakerNext]_engineBreakerVars
               PROVE  breaker = "HALF_OPEN" /\ clock >= lastViolationTime + TimeoutMs
    OBVIOUS
  <2>1. breaker' = breaker => FALSE
    OBVIOUS
  <2>2. CASE \E answer \in BOOLEAN : IsOpen(answer)
    BY <2>1, <2>2 DEF IsOpen, breakerVars
  <2>3. CASE RecordViolation
    BY <2>1, <2>3 DEF RecordViolation
  <2>4. CASE ResetIfRecovering
    BY <2>1, <2>4 DEF ResetIfRecovering, CountTracksState, breakerVars
  <2>5. CASE UNCHANGED breakerVars
    BY <2>1, <2>5 DEF breakerVars
  <2> QED  BY <2>2, <2>3, <2>4, <2>5 DEF BreakerNext, engineBreakerVars, breakerVars
<1>2. BreakerTypeOK /\ CountTracksState /\ [Next]_vars => [Closing]_vars
  BY <1>1, StepDrivesBreaker
<1>3. ClosesLate <=> [][Closing]_vars
  BY DEF ClosesLate
<1> HIDE DEF Closing
<1> QED  BY <1>2, <1>3, EngineBreakerInvariant, PTL DEF Spec

-----------------------------------------------------------------------------
(* Facts about the sequences of the registry.                               *)

(* A new element at the end keeps a sequence without repetitions.           *)
LEMMA AppendKeepsInjective ==
  ASSUME NEW S, NEW s \in Seq(S), NEW e \in S, IsInjective(s), e \notin ToSet(s)
  PROVE  IsInjective(Append(s, e))
<1>1. /\ Len(s) \in Nat /\ DOMAIN s = 1..Len(s)
      /\ \A k \in 1..Len(s) : s[k] # e
  BY DEF ToSet
<1>2. /\ DOMAIN Append(s, e) = 1..(Len(s) + 1)
      /\ \A k \in 1..Len(s) : Append(s, e)[k] = s[k]
      /\ Append(s, e)[Len(s) + 1] = e
  BY AppendProperties
<1> QED  BY <1>1, <1>2 DEF IsInjective

(* What is registered at first is a sequence without repetitions.           *)
LEMMA RegistrationIsSeq ==
  ASSUME NEW S, IsFiniteSet(S), NEW s \in SetToAllKPermutations(S)
  PROVE  s \in Seq(S) /\ IsInjective(s)
<1>1. PICK T \in SUBSET S : s \in SetToSeqs(T)
  BY DEF SetToAllKPermutations
<1>2. Cardinality(T) \in Nat
  BY FS_Subset, FS_CardinalityType
<1>3. s \in [1..Cardinality(T) -> T] /\ IsInjective(s)
  BY <1>1 DEF SetToSeqs, IsInjective
<1> QED  BY <1>2, <1>3
-----------------------------------------------------------------------------
(* Each action keeps the types.                                             *)

(* Scheduling the callbacks keeps the type of the queue of microtasks.      *)
LEMMA InterceptType ==
  ASSUME TypeOK, NEW c \in Calls, Intercept(c)
  PROVE  microtasks' \in Seq(Callbacks \X Calls)
<1> DEFINE new == [i \in DOMAIN callbacks |-> <<callbacks[i], c>>]
<1>1. callbacks \in Seq(Callbacks) /\ microtasks \in Seq(Callbacks \X Calls)
  BY DEF TypeOK
<1>2. new \in Seq(Callbacks \X Calls)
  <2>1. Len(callbacks) \in Nat /\ DOMAIN callbacks = 1..Len(callbacks)
        /\ \A i \in 1..Len(callbacks) : callbacks[i] \in Callbacks
    BY <1>1
  <2>2. new \in [1..Len(callbacks) -> Callbacks \X Calls]
    BY <2>1
  <2> QED  BY <2>1, <2>2
<1> HIDE DEF new
<1>3. microtasks \o new \in Seq(Callbacks \X Calls)
  BY <1>1, <1>2, ConcatProperties
<1> QED  BY <1>3 DEF Intercept, new

(* The least element of a nonempty finite set is one of its elements.       *)
LEMMA FirstOfType ==
  ASSUME NEW S, NEW s \in Seq(S)
  PROVE  FirstOf(s) \in SUBSET S
  BY DEF FirstOf

(* The engine starts with the types.                                        *)
LEMMA InitType == Init => TypeOK
<1> SUFFICES ASSUME Init PROVE TypeOK
  OBVIOUS
<1>1. IsFiniteSet(Validators) /\ IsFiniteSet(Guards)
  BY EngineAssumption, FS_Subset DEF Component
<1>2. validators \in Seq(Validators) /\ IsInjective(validators)
  BY <1>1, RegistrationIsSeq DEF Init
<1>3. guards \in Seq(Guards) /\ IsInjective(guards)
  BY <1>1, RegistrationIsSeq DEF Init
<1>4. BreakerTypeOK
  BY BreakerInvInit DEF Init, BreakerInv
<1> QED  BY <1>2, <1>3, <1>4 DEF Init, TypeOK, CallKind, BreakerState

(* A call that ends keeps the types, ...                                    *)
LEMMA ConcludeKeepsType ==
  ASSUME TypeOK, BreakerTypeOK', NEW c \in Calls, NEW resets,
         Conclude(c, resets), UNCHANGED registry
  PROVE  TypeOK'
<1>1. microtasks' \in Seq(Callbacks \X Calls)
  BY InterceptType DEF Conclude
<1> QED  BY <1>1 DEF TypeOK, Conclude, AggregatedVerdict, registry, history

(* ... so does one that starts, ...                                         *)
LEMMA EnterKeepsType ==
  ASSUME TypeOK, BreakerTypeOK', NEW c \in Calls, NEW k \in CallKind, Enter(c, k)
  PROVE  TypeOK'
<1> USE DEF Enter, TypeOK, registry, history, audit
<1>1. CASE RefusedByBreaker(c, k)
  <2>1. microtasks' \in Seq(Callbacks \X Calls)
    BY <1>1, InterceptType DEF RefusedByBreaker
  <2> QED  BY <1>1, <2>1 DEF RefusedByBreaker
<1>2. CASE BypassedByToken(c, k)
  BY <1>2 DEF BypassedByToken
<1>3. CASE Admitted(c, k)
  <2>1. /\ ToSet(validators) \subseteq Component /\ ToSet(guards) \subseteq Component
        /\ FirstOf(validators) \subseteq Component
    BY FirstOfType DEF ToSet, Component
  <2>2. breaker' \in BreakerState
    BY DEF BreakerTypeOK
  <2>3. waiting' \in [Calls -> SUBSET Component] /\ idx' \in [Calls -> Nat]
    <3>1. CASE /\ waiting' = [waiting EXCEPT ![c] = ToSet(validators)]
               /\ UNCHANGED idx
      BY <3>1, <2>1
    <3>2. CASE /\ waiting' = [waiting EXCEPT ![c] = FirstOf(validators)]
               /\ idx' = [idx EXCEPT ![c] = 1]
      BY <3>2, <2>1
    <3> QED  BY <1>3, <3>1, <3>2 DEF Admitted
  <2>4. expected' \in [Calls -> SUBSET Component] /\ era' \in [Calls -> BreakerState]
    BY <1>3, <2>1, <2>2 DEF Admitted
  <2>5. /\ pc' = [pc EXCEPT ![c] = "validators"] /\ kind' = [kind EXCEPT ![c] = k]
        /\ UNCHANGED <<results, verdict, overtaken, microtasks, delivered, registry>>
        /\ pc[c] = "idle"
    BY <1>3 DEF Admitted
  <2> QED  BY <2>3, <2>4, <2>5
<1> QED  BY <1>1, <1>2, <1>3

(* ... one that gets an answer, ...                                         *)
LEMMA AnswerKeepsType ==
  ASSUME TypeOK, NEW c \in Calls, NEW who \in Component, NEW answer \in Answer,
         \/ ValidatorAnswers(c, who, answer)
         \/ ParallelAnswers(c, who, answer)
         \/ GuardAnswers(c, who, answer)
  PROVE  TypeOK'
<1> USE DEF TypeOK, registry, history, audit, engineBreakerVars, breakerVars
<1>1. [who |-> who, answer |-> answer] \in Result
  BY DEF Result
<1>2. ASSUME NEW list, list \in Seq(Component), LoopAnswers(c, list, who, answer)
      PROVE  TypeOK'
  <2>1. idx[c] + 1 \in 1..Len(list) => list[idx[c] + 1] \in Component
    BY <1>2
  <2>2. idx[c] \in Nat /\ Len(list) \in Nat
    BY <1>2
  <2>3. results' \in [Calls -> SUBSET Result]
    BY <1>1, <1>2 DEF LoopAnswers
  <2>4. waiting' \in [Calls -> SUBSET Component] /\ idx' \in [Calls -> Nat]
    <3>1. CASE EndsLoop(c, answer) \/ idx[c] >= Len(list)
      BY <1>2, <3>1 DEF LoopAnswers
    <3>2. CASE ~(EndsLoop(c, answer) \/ idx[c] >= Len(list))
      <4>1. list[idx[c] + 1] \in Component
        BY <2>1, <2>2, <3>2
      <4>2. /\ waiting' = [waiting EXCEPT ![c] = {list[idx[c] + 1]}]
            /\ idx' = [idx EXCEPT ![c] = idx[c] + 1]
        BY <1>2, <3>2 DEF LoopAnswers
      <4> QED  BY <4>1, <4>2, <2>2
    <3> QED  BY <3>1, <3>2
  <2>5. UNCHANGED <<engineBreakerVars, registry, pc, kind, verdict, history, audit>>
    BY <1>2 DEF LoopAnswers
  <2> QED  BY <2>3, <2>4, <2>5 DEF BreakerTypeOK
<1>3. validators \in Seq(Component) /\ guards \in Seq(Component)
  BY SeqMonotonic DEF Component
<1>4. CASE ParallelAnswers(c, who, answer)
  BY <1>1, <1>4 DEF ParallelAnswers, BreakerTypeOK
<1> QED  BY <1>2, <1>3, <1>4 DEF ValidatorAnswers, GuardAnswers

(* ... one that ends a phase, ...                                           *)
LEMMA EndKeepsType ==
  ASSUME TypeOK, BreakerTypeOK', NEW c \in Calls, EndValidators(c) \/ EndGuards(c)
  PROVE  TypeOK'
<1>1. UNCHANGED registry
  BY DEF EndValidators, EndGuards
<1>2. CASE \E resets : Conclude(c, resets)
  BY <1>1, <1>2, ConcludeKeepsType
<1>3. CASE pc[c] = "validators" /\ StartGuards(c)
  <2>1. FirstOf(guards) \subseteq Component
    BY FirstOfType DEF TypeOK, Component
  <2> QED  BY <1>1, <1>3, <2>1 DEF StartGuards, TypeOK, history, audit, registry
<1> QED  BY <1>2, <1>3 DEF EndValidators, EndGuards, ShortCircuits

(* ... and one that is answered from a cache.                               *)
LEMMA CachedKeepsType ==
  ASSUME TypeOK, BreakerTypeOK', NEW c \in Calls, NEW rs, NotifyCached(c, rs)
  PROVE  TypeOK'
<1>1. microtasks' \in Seq(Callbacks \X Calls)
  BY InterceptType DEF NotifyCached
<1> QED  BY <1>1 DEF TypeOK, NotifyCached, AggregatedVerdict, registry, history, CallKind

(* Changing the registry keeps the types.                                   *)
LEMMA RegistryKeepsType ==
  ASSUME TypeOK, BreakerTypeOK',
         \/ \E f \in Callbacks : OnIntercept(f)
         \/ \E v \in Validators : AddValidator(v)
         \/ \E g \in Guards : AddGuard(g)
         \/ \E p \in DOMAIN validators : RemoveValidator(p)
         \/ \E p \in DOMAIN guards : RemoveGuard(p)
  PROVE  TypeOK'
<1> USE DEF callVars, history, audit
<1>1. CASE \E f \in Callbacks : OnIntercept(f)
  <2>1. callbacks' \in Seq(Callbacks)
    BY <1>1, AppendProperties DEF OnIntercept, TypeOK
  <2> QED  BY <1>1, <2>1 DEF OnIntercept, TypeOK
<1>2. CASE \E v \in Validators : AddValidator(v)
  <2>1. validators' \in Seq(Validators) /\ IsInjective(validators')
    BY <1>2, AppendProperties, AppendKeepsInjective DEF AddValidator, TypeOK
  <2> QED  BY <1>2, <2>1 DEF AddValidator, TypeOK
<1>3. CASE \E g \in Guards : AddGuard(g)
  <2>1. guards' \in Seq(Guards) /\ IsInjective(guards')
    BY <1>3, AppendProperties, AppendKeepsInjective DEF AddGuard, TypeOK
  <2> QED  BY <1>3, <2>1 DEF AddGuard, TypeOK
<1>4. ASSUME NEW p, NEW list, NEW who, NEW phase, Splice(p, list, who, phase)
      PROVE  /\ expected' \in [Calls -> SUBSET Component]
             /\ overtaken' \in [Calls -> BOOLEAN]
  BY <1>4 DEF Splice, TypeOK
<1>5. CASE \E p \in DOMAIN validators : RemoveValidator(p)
  <2>1. PICK p \in DOMAIN validators : RemoveValidator(p)
    BY <1>5
  <2>2. validators' \in Seq(Validators) /\ IsInjective(validators')
    BY <2>1, SpliceFacts, SpliceKeepsInjective DEF RemoveValidator, TypeOK
  <2>3. expected' \in [Calls -> SUBSET Component] /\ overtaken' \in [Calls -> BOOLEAN]
    BY <1>4, <2>1 DEF RemoveValidator
  <2> QED  BY <2>1, <2>2, <2>3 DEF RemoveValidator, Splice, TypeOK
<1>6. CASE \E p \in DOMAIN guards : RemoveGuard(p)
  <2>1. PICK p \in DOMAIN guards : RemoveGuard(p)
    BY <1>6
  <2>2. guards' \in Seq(Guards) /\ IsInjective(guards')
    BY <2>1, SpliceFacts, SpliceKeepsInjective DEF RemoveGuard, TypeOK
  <2>3. expected' \in [Calls -> SUBSET Component] /\ overtaken' \in [Calls -> BOOLEAN]
    BY <1>4, <2>1 DEF RemoveGuard
  <2> QED  BY <2>1, <2>2, <2>3 DEF RemoveGuard, Splice, TypeOK
<1> QED  BY <1>1, <1>2, <1>3, <1>5, <1>6

(* So every step keeps them.                                                *)
LEMMA NextKeepsType ==
  ASSUME TypeOK, BreakerTypeOK', [Next]_vars
  PROVE  TypeOK'
<1> USE DEF callVars, registry, history, audit
<1>1. ASSUME NEW c \in Calls, CallStep(c)
      PROVE  TypeOK'
  BY <1>1, AnswerKeepsType, EndKeepsType DEF CallStep
<1>2. ASSUME NEW c \in Calls, NEW k \in Kinds, Enter(c, k)
      PROVE  TypeOK'
  BY <1>2, EnterKeepsType, EngineAssumption
<1>3. ASSUME NEW c \in Calls, NEW rs, NotifyCached(c, rs)
      PROVE  TypeOK'
  BY <1>3, CachedKeepsType
<1>4. CASE RunCallback
  <2>1. /\ microtasks' \in Seq(Callbacks \X Calls)
        /\ Head(microtasks) \in Callbacks \X Calls
    BY <1>4, HeadTailProperties DEF RunCallback, TypeOK
  <2>2. delivered' \in Seq(Callbacks \X Calls)
    BY <1>4, <2>1, AppendProperties DEF RunCallback, TypeOK
  <2> QED  BY <1>4, <2>1, <2>2 DEF RunCallback, TypeOK
<1>5. CASE BufferOverflow \/ QueryBreaker \/ TimePasses \/ UNCHANGED vars
  BY <1>5 DEF BufferOverflow, QueryBreaker, TimePasses, vars, TypeOK
<1>6. CASE \/ \E f \in Callbacks : OnIntercept(f)
           \/ \E v \in Validators : AddValidator(v)
           \/ \E g \in Guards : AddGuard(g)
           \/ \E p \in DOMAIN validators : RemoveValidator(p)
           \/ \E p \in DOMAIN guards : RemoveGuard(p)
  BY <1>6, RegistryKeepsType
<1> QED  BY <1>1, <1>2, <1>3, <1>4, <1>5, <1>6 DEF Next

(* Every variable of the engine keeps its type, and a call has a verdict    *)
(* exactly when it is over.                                                 *)
THEOREM EngineTypeCorrect == Spec => []TypeOK
<1>1. TypeOK /\ BreakerTypeOK' /\ [Next]_vars => TypeOK'
  BY NextKeepsType
<1>2. Spec => []BreakerTypeOK
  BY EngineBreakerInvariant, PTL
<1> QED  BY InitType, <1>1, <1>2, PTL DEF Spec

(* GuardrailEngine.ts:434: no call gets past the breaker within one timeout *)
(* of a violation that reached the threshold.                               *)
THEOREM EngineQuietPeriod == Spec => QuietPeriod
<1> DEFINE A == \A c \in Calls :
       pc[c] = "idle" /\ pc'[c] # "idle" /\ kind'[c] # "cached" /\ verdict'[c] # "block"
         => violationCount < Threshold \/ clock >= lastViolationTime + TimeoutMs
<1> DEFINE Quiet == violationCount < Threshold \/ clock >= lastViolationTime + TimeoutMs
<1>1. ASSUME TypeOK, CountTracksState, Next
      PROVE  A
  <2>0. pc \in [Calls -> {"idle", "validators", "guards", "done"}]
        /\ kind \in [Calls -> CallKind]
        /\ verdict \in [Calls -> {"none", "allow", "block"}]
    BY <1>1 DEF TypeOK
  <2>1. ASSUME NEW c \in Calls, NEW k, Enter(c, k)
        PROVE  A
    <3>1. IsOpen(FALSE) => Quiet
      BY <1>1, BreakerAssumption DEF IsOpen, Expired, CountTracksState, TypeOK,
         BreakerTypeOK, BreakerState, Never
    <3>2. IsOpen(FALSE) \/ verdict'[c] = "block"
      BY <2>0, <2>1 DEF Enter, RefusedByBreaker, BypassedByToken, Admitted
    <3>3. pc' \in {[pc EXCEPT ![c] = "done"], [pc EXCEPT ![c] = "validators"]}
      BY <2>1 DEF Enter, RefusedByBreaker, BypassedByToken, Admitted
    <3> QED  BY <2>0, <3>1, <3>2, <3>3
  <2>2. ASSUME NEW c \in Calls, CallStep(c)
        PROVE  A
    <3>1. pc[c] # "idle"
      BY <2>0, <2>2 DEF CallStep, ValidatorAnswers, ParallelAnswers, GuardAnswers,
         EndValidators, EndGuards
    <3>2. pc' \in {pc, [pc EXCEPT ![c] = "done"], [pc EXCEPT ![c] = "guards"]}
      BY <2>2 DEF CallStep, ValidatorAnswers, ParallelAnswers, GuardAnswers,
         LoopAnswers, EndValidators, EndGuards, ShortCircuits, StartGuards, Conclude
    <3> QED  BY <2>0, <3>1, <3>2
  <2>3. ASSUME NEW c \in Calls, NEW rs, NotifyCached(c, rs)
        PROVE  A
    <3>1. pc' = [pc EXCEPT ![c] = "done"] /\ kind' = [kind EXCEPT ![c] = "cached"]
      BY <2>3 DEF NotifyCached
    <3> QED  BY <2>0, <3>1
  <2>4. CASE UNCHANGED pc
    BY <2>4
  <2>5. CASE \/ RunCallback
             \/ \E f \in Callbacks : OnIntercept(f)
             \/ \E v \in Validators : AddValidator(v)
             \/ \E g \in Guards : AddGuard(g)
             \/ \E p \in DOMAIN validators : RemoveValidator(p)
             \/ \E p \in DOMAIN guards : RemoveGuard(p)
             \/ BufferOverflow
             \/ QueryBreaker
             \/ TimePasses
    BY <2>4, <2>5 DEF RunCallback, OnIntercept, AddValidator, AddGuard, RemoveValidator,
       RemoveGuard, Splice, BufferOverflow, QueryBreaker, TimePasses, callVars
  <2> QED  BY <1>1, <2>1, <2>2, <2>3, <2>5 DEF Next
<1>2. TypeOK /\ CountTracksState /\ [Next]_vars => [A]_vars
  BY <1>1
<1> QED  BY <1>2, EngineTypeCorrect, EngineBreakerInvariant, PTL DEF Spec, QuietPeriod
-----------------------------------------------------------------------------
(* The coverage argument, call by call.  Cover(c) is what CoverInv says of  *)
(* one call.                                                                *)

(* What CoverInv says of one call.                                          *)
Cover(c) ==
  /\ InFlight(c) /\ ~overtaken[c] => \A w \in expected[c] : Owed(c, w)
  /\ AllowedByRunning(c) /\ ~Forced /\ ~overtaken[c] =>
       AnsweredForAll(c) /\ ~Blocked(results[c])

(* CoverInv says it of every call.                                          *)
LEMMA CoverInvByCall == CoverInv <=> \A c \in Calls : Cover(c)
  BY DEF CoverInv, FailClosed, Cover

(* A step that leaves a call and the registry alone leaves its cover alone. *)
SameCall(d) ==
  /\ pc'[d] = pc[d] /\ kind'[d] = kind[d] /\ idx'[d] = idx[d]
  /\ waiting'[d] = waiting[d] /\ results'[d] = results[d]
  /\ verdict'[d] = verdict[d] /\ expected'[d] = expected[d]
  /\ overtaken'[d] = overtaken[d]

(* A step that leaves a call and the registry alone keeps its cover.        *)
LEMMA SameCallKeepsCover ==
  ASSUME NEW d \in Calls, Cover(d), SameCall(d), UNCHANGED <<validators, guards>>
  PROVE  Cover(d)'
  BY DEF Cover, SameCall, InFlight, Owed, Answered, Pending, Ahead, Sequential,
     AllowedByRunning, AnsweredForAll, Blocked

(* The first component of a loop is asked, the others are ahead.            *)
LEMMA LoopStart ==
  ASSUME NEW S, NEW list \in Seq(S), NEW w \in ToSet(list)
  PROVE  /\ FirstOf(list) # {}
         /\ w \in FirstOf(list) \/ \E k \in DOMAIN list : k > 1 /\ list[k] = w
  BY DEF FirstOf, ToSet

(* A call that is admitted owes an answer to what is registered.            *)
LEMMA AdmittedCover ==
  ASSUME TypeOK, NEW c \in Calls, NEW k \in CallKind, Enter(c, k), Admitted(c, k)
  PROVE  Cover(c)'
<1>1. /\ pc'[c] = "validators" /\ kind'[c] = k /\ UNCHANGED <<validators, guards>>
      /\ expected'[c] = ToSet(validators) \cup ToSet(guards)
  BY DEF Enter, Admitted, TypeOK, registry
<1>2. SUFFICES ASSUME NEW w \in ToSet(validators)
               PROVE  Pending(c, validators, w)'
  BY <1>1 DEF Cover, Owed, InFlight, AllowedByRunning
<1>3. CASE Parallel /\ k = "content"
  BY <1>1, <1>3 DEF Admitted, Pending, TypeOK
<1>4. CASE ~(Parallel /\ k = "content")
  <2>1. waiting'[c] = FirstOf(validators) /\ idx'[c] = 1
    BY <1>4 DEF Admitted, TypeOK
  <2>2. /\ FirstOf(validators) # {}
        /\ w \in FirstOf(validators) \/ \E i \in DOMAIN validators : i > 1 /\ validators[i] = w
    BY LoopStart DEF TypeOK
  <2> QED  BY <1>1, <1>4, <2>1, <2>2 DEF Pending, Sequential, Ahead
<1> QED  BY <1>3, <1>4

(* A loop of a call: the answer counts for its component, and what was      *)
(* ahead is now asked or still ahead.                                       *)
LEMMA LoopKeepsPending ==
  ASSUME TypeOK, NEW c \in Calls, NEW who \in Component, NEW answer \in Answer,
         NEW list \in Seq(Component), LoopAnswers(c, list, who, answer),
         NEW w, w \in waiting[c] \/ Ahead(c, list, w)
  PROVE  \/ Blocked(results[c])'
         \/ Answered(c, w)'
         \/ waiting'[c] # {} /\ (w \in waiting'[c] \/ \E k \in DOMAIN list : k > idx'[c] /\ list[k] = w)
<1>1. [who |-> who, answer |-> answer] \in results'[c]
  BY DEF LoopAnswers, TypeOK
<1>2. waiting[c] = {who} /\ idx[c] \in Nat
  BY DEF LoopAnswers, TypeOK
<1>3. CASE w = who
  BY <1>1, <1>3 DEF Answered
<1>4. CASE EndsLoop(c, answer)
  <2>1. answer # "allow"
    BY <1>4 DEF EndsLoop
  <2> QED  BY <1>1, <2>1 DEF Blocked
<1>5. CASE w # who /\ ~EndsLoop(c, answer)
  <2>1. PICK k \in DOMAIN list : k > idx[c] /\ list[k] = w
    BY <1>2, <1>5 DEF Ahead
  <2>2. k \in 1..Len(list) /\ Len(list) \in Nat /\ ~(idx[c] >= Len(list))
    BY <1>2, <2>1
  <2>3. waiting'[c] = {list[idx[c] + 1]} /\ idx'[c] = idx[c] + 1
    BY <1>5, <2>2 DEF LoopAnswers, TypeOK
  <2>4. k = idx[c] + 1 \/ k > idx[c] + 1
    BY <1>2, <2>1, <2>2
  <2> QED  BY <2>1, <2>3, <2>4
<1> QED  BY <1>3, <1>4, <1>5

(* An answer takes its component off what is owed.                          *)
LEMMA AnswerKeepsCover ==
  ASSUME TypeOK, NEW c \in Calls, Cover(c), NEW who \in Component, NEW answer \in Answer,
         \/ ValidatorAnswers(c, who, answer)
         \/ ParallelAnswers(c, who, answer)
         \/ GuardAnswers(c, who, answer)
  PROVE  Cover(c)'
<1>1. /\ pc'[c] = pc[c] /\ kind'[c] = kind[c] /\ InFlight(c)
      /\ expected'[c] = expected[c] /\ overtaken'[c] = overtaken[c]
      /\ UNCHANGED <<validators, guards>>
      /\ results[c] \subseteq results'[c]
      /\ [who |-> who, answer |-> answer] \in results'[c]
  BY DEF ValidatorAnswers, ParallelAnswers, GuardAnswers, LoopAnswers, InFlight,
     TypeOK, registry, history
<1>2. SUFFICES ASSUME ~overtaken[c], NEW w \in expected[c]
               PROVE  Owed(c, w)'
  BY <1>1 DEF Cover, InFlight, AllowedByRunning
<1>3. Owed(c, w)
  BY <1>1, <1>2 DEF Cover
<1>4. CASE Blocked(results[c]) \/ Answered(c, w)
  BY <1>1, <1>4 DEF Owed, Blocked, Answered
<1>5. CASE pc[c] = "validators" /\ w \in ToSet(guards)
  BY <1>1, <1>5 DEF Owed
<1>6. validators \in Seq(Component) /\ guards \in Seq(Component)
  BY SeqMonotonic DEF TypeOK, Component
<1>7. CASE pc[c] = "validators" /\ Pending(c, validators, w)
  <2>1. CASE ParallelAnswers(c, who, answer)
    <3>1. w \in waiting[c]
      BY <1>7, <2>1 DEF Pending, ParallelAnswers
    <3>2. CASE w = who
      BY <1>1, <3>2 DEF Owed, Answered
    <3>3. CASE w # who
      <4>1. w \in waiting'[c]
        BY <2>1, <3>1, <3>3 DEF ParallelAnswers, TypeOK
      <4> QED  BY <1>1, <1>7, <4>1 DEF Owed, Pending
    <3> QED  BY <3>2, <3>3
  <2>2. CASE ValidatorAnswers(c, who, answer)
    <3>1. LoopAnswers(c, validators, who, answer) /\ Sequential(c)
      BY <2>2 DEF ValidatorAnswers
    <3>2. Sequential(c)'
      BY <1>1, <3>1 DEF Sequential
    <3> QED  BY <1>1, <1>6, <1>7, <3>1, <3>2, LoopKeepsPending DEF Owed, Pending, Ahead
  <2> QED  BY <1>7, <2>1, <2>2 DEF GuardAnswers
<1>8. CASE pc[c] = "guards" /\ waiting[c] # {} /\ (w \in waiting[c] \/ Ahead(c, guards, w))
  <2>1. LoopAnswers(c, guards, who, answer)
    BY <1>8 DEF ValidatorAnswers, ParallelAnswers, GuardAnswers
  <2> QED  BY <1>1, <1>6, <1>8, <2>1, LoopKeepsPending DEF Owed, Ahead
<1> QED  BY <1>3, <1>4, <1>5, <1>7, <1>8 DEF Owed

(* A call that ends has heard from everyone it owes, or is blocked.         *)
LEMMA ConcludeCover ==
  ASSUME TypeOK, NEW c \in Calls, Cover(c), InFlight(c), waiting[c] = {},
         pc[c] = "guards" \/ Blocked(results[c]),
         NEW resets, Conclude(c, resets)
  PROVE  Cover(c)'
<1>1. /\ pc'[c] = "done" /\ UNCHANGED <<results, expected, overtaken>>
      /\ verdict'[c] = AggregatedVerdict(results[c])
  BY DEF Conclude, TypeOK, history
<1>2. SUFFICES ASSUME verdict'[c] = "allow", ~Forced, ~overtaken[c],
                      NEW w \in expected[c]
               PROVE  [who |-> w, answer |-> "allow"] \in results[c] /\ ~Blocked(results[c])
  BY <1>1 DEF Cover, InFlight, AllowedByRunning, AnsweredForAll, AggregatedVerdict
<1>3. ~Blocked(results[c])
  BY <1>1, <1>2 DEF AggregatedVerdict
<1>4. Owed(c, w)
  BY <1>2 DEF Cover
<1>5. PICK a \in Answer : [who |-> w, answer |-> a] \in results[c]
  BY <1>3, <1>4 DEF Owed, Answered
<1>6. a = "allow"
  BY <1>3, <1>5 DEF Blocked
<1> QED  BY <1>3, <1>5, <1>6

(* The second phase starts with all guards owed.                            *)
LEMMA StartGuardsCover ==
  ASSUME TypeOK, NEW c \in Calls, Cover(c), EndValidators(c), StartGuards(c)
  PROVE  Cover(c)'
<1>1. /\ pc[c] = "validators" /\ pc'[c] = "guards" /\ waiting[c] = {}
      /\ waiting'[c] = FirstOf(guards) /\ idx'[c] = 1
      /\ UNCHANGED <<results, expected, overtaken, guards>>
  BY DEF EndValidators, StartGuards, TypeOK, registry, history
<1>2. SUFFICES ASSUME ~overtaken[c], NEW w \in expected[c]
               PROVE  Owed(c, w)'
  BY <1>1 DEF Cover, AllowedByRunning
<1>3. Blocked(results[c]) \/ Answered(c, w) \/ w \in ToSet(guards)
  BY <1>1, <1>2 DEF Cover, InFlight, Owed, Pending
<1>4. CASE w \in ToSet(guards)
  <2>1. /\ FirstOf(guards) # {}
        /\ w \in FirstOf(guards) \/ \E k \in DOMAIN guards : k > 1 /\ guards[k] = w
    BY <1>4, LoopStart DEF TypeOK
  <2> QED  BY <1>1, <2>1 DEF Owed, Ahead
<1> QED  BY <1>1, <1>3, <1>4 DEF Owed, Answered, Blocked

(* A splice leaves every other element that is ahead of an index ahead of   *)
(* it, unless it closes the gap from behind.                                *)
LEMMA SpliceKeepsAhead ==
  ASSUME NEW S, NEW s \in Seq(S), NEW p \in DOMAIN s, NEW i \in Nat, NEW k \in DOMAIN s,
         k > i, s[k] # s[p], ~(p <= i /\ i < Len(s))
  PROVE  \E j \in DOMAIN RemoveAt(s, p) : j > i /\ RemoveAt(s, p)[j] = s[k]
<1> DEFINE r == RemoveAt(s, p)
<1>1. /\ r \in Seq(S) /\ Len(r) = Len(s) - 1
      /\ \A j \in 1..(Len(s) - 1) : r[j] = IF j < p THEN s[j] ELSE s[j + 1]
  BY SpliceFacts, Zenon
<1> HIDE DEF r
<1>2. /\ p \in 1..Len(s) /\ k \in 1..Len(s) /\ Len(s) \in Nat /\ p # k
      /\ DOMAIN r = 1..(Len(s) - 1) /\ p > i
  BY <1>1
<1>3. CASE k < p
  <2>1. k \in DOMAIN r /\ r[k] = s[k]
    BY <1>1, <1>2, <1>3
  <2> QED  BY <2>1 DEF r
<1>4. CASE k > p
  <2>1. k - 1 \in DOMAIN r /\ k - 1 > i /\ ~(k - 1 < p) /\ k - 1 + 1 = k
    BY <1>2, <1>4
  <2>2. r[k - 1] = s[k]
    BY <1>1, <1>2, <2>1
  <2> QED  BY <2>1, <2>2 DEF r
<1> QED  BY <1>2, <1>3, <1>4

(* A removal keeps the other elements, ...                                  *)
LEMMA SpliceKeepsOthers ==
  ASSUME NEW S, NEW s \in Seq(S), NEW p \in DOMAIN s, NEW w \in ToSet(s), w # s[p]
  PROVE  w \in ToSet(RemoveAt(s, p))
<1>1. PICK k \in DOMAIN s : s[k] = w
  BY DEF ToSet
<1>2. k > 0 /\ ~(p <= 0 /\ 0 < Len(s))
  OBVIOUS
<1>3. \E j \in DOMAIN RemoveAt(s, p) : j > 0 /\ RemoveAt(s, p)[j] = s[k]
  BY <1>1, <1>2, SpliceKeepsAhead
<1> QED  BY <1>1, <1>3 DEF ToSet

(* ... and an addition keeps them all.                                      *)
LEMMA AppendKeepsElements ==
  ASSUME NEW S, NEW s \in Seq(S), NEW e \in S
  PROVE  /\ DOMAIN s \subseteq DOMAIN Append(s, e)
         /\ \A k \in DOMAIN s : Append(s, e)[k] = s[k]
         /\ ToSet(s) \subseteq ToSet(Append(s, e))
<1>1. /\ DOMAIN s \subseteq DOMAIN Append(s, e)
      /\ \A k \in DOMAIN s : Append(s, e)[k] = s[k]
  BY AppendProperties
<1> QED  BY <1>1 DEF ToSet

(* Components come: no call owes more or has less ahead of it.              *)
LEMMA RegistrationKeepsCover ==
  ASSUME TypeOK, NEW d \in Calls, Cover(d),
         \/ \E f \in Callbacks : OnIntercept(f)
         \/ \E v \in Validators : AddValidator(v)
         \/ \E g \in Guards : AddGuard(g)
  PROVE  Cover(d)'
<1>1. UNCHANGED callVars
  BY DEF OnIntercept, AddValidator, AddGuard
<1>2. /\ DOMAIN validators \subseteq DOMAIN validators'
      /\ \A k \in DOMAIN validators : validators'[k] = validators[k]
  <2>1. CASE UNCHANGED validators
    BY <2>1
  <2>2. CASE \E v \in Validators : AddValidator(v)
    BY <2>2, AppendKeepsElements DEF AddValidator, TypeOK
  <2> QED  BY <2>1, <2>2 DEF OnIntercept, AddGuard
<1>3. /\ DOMAIN guards \subseteq DOMAIN guards'
      /\ \A k \in DOMAIN guards : guards'[k] = guards[k]
      /\ ToSet(guards) \subseteq ToSet(guards')
  <2>1. CASE UNCHANGED guards
    BY <2>1
  <2>2. CASE \E g \in Guards : AddGuard(g)
    BY <2>2, AppendKeepsElements DEF AddGuard, TypeOK
  <2> QED  BY <2>1, <2>2 DEF OnIntercept, AddValidator
<1> DEFINE OwedIn(w) ==
      \/ Blocked(results[d])
      \/ Answered(d, w)
      \/ pc[d] = "validators" /\ (w \in ToSet(guards') \/ Pending(d, validators', w))
      \/ pc[d] = "guards" /\ waiting[d] # {} /\ (w \in waiting[d] \/ Ahead(d, guards', w))
<1>4. ASSUME NEW w, Owed(d, w)
      PROVE  OwedIn(w)
  <2>1. Ahead(d, validators, w) => Ahead(d, validators', w)
    BY <1>2 DEF Ahead
  <2>2. Ahead(d, guards, w) => Ahead(d, guards', w)
    BY <1>3 DEF Ahead
  <2> QED  BY <1>3, <1>4, <2>1, <2>2 DEF Owed, Pending
<1>5. \A w : Owed(d, w)' <=> OwedIn(w)
  BY <1>1 DEF callVars, history, Owed, Answered, Pending, Ahead, Blocked, Sequential
<1> HIDE DEF OwedIn
<1> QED  BY <1>1, <1>4, <1>5 DEF Cover, InFlight, AllowedByRunning, AnsweredForAll,
            Blocked, callVars, history

(* Components go: what a call still owes an answer to is where it was, or   *)
(* one nearer; otherwise the call is marked overtaken.                      *)
LEMMA RemovalKeepsCover ==
  ASSUME TypeOK, NEW d \in Calls, Cover(d),
         \/ \E p \in DOMAIN validators : RemoveValidator(p)
         \/ \E p \in DOMAIN guards : RemoveGuard(p)
  PROVE  Cover(d)'
<1>1. /\ UNCHANGED <<pc, kind, idx, waiting, results, verdict>>
      /\ expected'[d] \subseteq expected[d]
      /\ ~overtaken'[d] => ~overtaken[d]
  BY DEF RemoveValidator, RemoveGuard, Splice
<1>2. SUFFICES ASSUME InFlight(d), ~overtaken'[d], NEW w \in expected'[d]
               PROVE  Owed(d, w)'
  BY <1>1 DEF Cover, InFlight, AllowedByRunning, AnsweredForAll, Blocked
<1>3. Owed(d, w)
  BY <1>1, <1>2 DEF Cover
<1>4. CASE Blocked(results[d]) \/ Answered(d, w)
  BY <1>1, <1>4 DEF Owed, Blocked, Answered
<1>5. idx[d] \in Nat /\ validators \in Seq(Validators) /\ guards \in Seq(Guards)
  BY DEF TypeOK
<1>6. ASSUME NEW p \in DOMAIN validators, RemoveValidator(p)
      PROVE  Owed(d, w)'
  <2>1. /\ w # validators[p] /\ validators' = RemoveAt(validators, p) /\ guards' = guards
        /\ pc[d] = "validators" /\ Sequential(d) /\ waiting[d] # {}
             => ~(p <= idx[d] /\ idx[d] < Len(validators))
    BY <1>2, <1>6 DEF RemoveValidator, Splice
  <2>2. CASE pc[d] = "validators" /\ Sequential(d) /\ waiting[d] # {} /\ Ahead(d, validators, w)
    <3>1. PICK k \in DOMAIN validators : k > idx[d] /\ validators[k] = w
      BY <2>2 DEF Ahead
    <3>2. \E j \in DOMAIN validators' : j > idx[d] /\ validators'[j] = w
      BY <1>5, <2>1, <2>2, <3>1, SpliceKeepsAhead
    <3> QED  BY <1>1, <2>2, <3>2 DEF Owed, Pending, Ahead, Sequential
  <2>3. CASE pc[d] = "validators" /\ (w \in ToSet(guards) \/ (waiting[d] # {} /\ w \in waiting[d]))
    BY <1>1, <2>1, <2>3 DEF Owed, Pending
  <2>4. CASE pc[d] = "guards" /\ waiting[d] # {} /\ (w \in waiting[d] \/ Ahead(d, guards, w))
    BY <1>1, <2>1, <2>4 DEF Owed, Ahead
  <2>5. \/ Blocked(results[d]) \/ Answered(d, w)
        \/ pc[d] = "validators" /\ (w \in ToSet(guards) \/ Pending(d, validators, w))
        \/ pc[d] = "guards" /\ waiting[d] # {} /\ (w \in waiting[d] \/ Ahead(d, guards, w))
    BY <1>3 DEF Owed
  <2>6. Pending(d, validators, w) =>
          \/ waiting[d] # {} /\ w \in waiting[d]
          \/ Sequential(d) /\ waiting[d] # {} /\ Ahead(d, validators, w)
    BY DEF Pending
  <2> QED  BY <1>4, <2>2, <2>3, <2>4, <2>5, <2>6
<1>7. ASSUME NEW p \in DOMAIN guards, RemoveGuard(p)
      PROVE  Owed(d, w)'
  <2>1. /\ w # guards[p] /\ guards' = RemoveAt(guards, p) /\ validators' = validators
        /\ pc[d] = "guards" /\ waiting[d] # {}
             => ~(p <= idx[d] /\ idx[d] < Len(guards))
    BY <1>2, <1>7 DEF RemoveGuard, Splice
  <2>2. CASE pc[d] = "guards" /\ waiting[d] # {} /\ Ahead(d, guards, w)
    <3>1. PICK k \in DOMAIN guards : k > idx[d] /\ guards[k] = w
      BY <2>2 DEF Ahead
    <3>2. \E j \in DOMAIN guards' : j > idx[d] /\ guards'[j] = w
      BY <1>5, <2>1, <2>2, <3>1, SpliceKeepsAhead
    <3> QED  BY <1>1, <2>2, <3>2 DEF Owed, Ahead
  <2>3. CASE pc[d] = "guards" /\ waiting[d] # {} /\ w \in waiting[d]
    BY <1>1, <2>3 DEF Owed
  <2>4. CASE pc[d] = "validators" /\ w \in ToSet(guards)
    <3>1. w \in ToSet(guards')
      BY <1>5, <2>1, <2>4, SpliceKeepsOthers
    <3> QED  BY <1>1, <2>4, <3>1 DEF Owed
  <2>5. CASE pc[d] = "validators" /\ Pending(d, validators, w)
    BY <1>1, <2>1, <2>5 DEF Owed, Pending, Ahead, Sequential
  <2> QED  BY <1>3, <1>4, <2>2, <2>3, <2>4, <2>5 DEF Owed
<1> QED  BY <1>6, <1>7

(* A call's own step, and a call's entry.                                   *)
LEMMA CallStepKeepsCover ==
  ASSUME TypeOK, NEW c \in Calls, Cover(c), CallStep(c)
  PROVE  Cover(c)'
<1>1. CASE \E who \in Component, answer \in Answer :
             \/ ValidatorAnswers(c, who, answer)
             \/ ParallelAnswers(c, who, answer)
             \/ GuardAnswers(c, who, answer)
  BY <1>1, AnswerKeepsCover
<1>2. CASE EndValidators(c)
  <2>1. CASE ShortCircuits(c)
    BY <1>2, <2>1, ConcludeCover DEF EndValidators, ShortCircuits, InFlight
  <2>2. CASE StartGuards(c)
    BY <1>2, <2>2, StartGuardsCover
  <2> QED  BY <1>2, <2>1, <2>2 DEF EndValidators
<1>3. CASE EndGuards(c)
  BY <1>3, ConcludeCover DEF EndGuards, InFlight
<1> QED  BY <1>1, <1>2, <1>3 DEF CallStep

(* A call that enters is covered.                                           *)
LEMMA EntryCover ==
  ASSUME TypeOK, NEW c \in Calls,
         \/ \E k \in CallKind : Enter(c, k)
         \/ \E rs : NotifyCached(c, rs)
  PROVE  Cover(c)'
<1>1. ASSUME NEW k \in CallKind, Enter(c, k)
      PROVE  Cover(c)'
  <2>1. CASE RefusedByBreaker(c, k)
    BY <1>1, <2>1 DEF Enter, RefusedByBreaker, Cover, InFlight, AllowedByRunning, TypeOK
  <2>2. CASE BypassedByToken(c, k)
    BY <1>1, <2>2 DEF Enter, BypassedByToken, Cover, InFlight, AllowedByRunning, TypeOK
  <2>3. CASE Admitted(c, k)
    BY <1>1, <2>3, AdmittedCover
  <2> QED  BY <1>1, <2>1, <2>2, <2>3 DEF Enter
<1>2. ASSUME NEW rs, NotifyCached(c, rs)
      PROVE  Cover(c)'
  BY <1>2 DEF NotifyCached, Cover, InFlight, AllowedByRunning, TypeOK
<1> QED  BY <1>1, <1>2

(* A step of one call is not a step of another.                             *)
LEMMA OneCallMoves ==
  ASSUME TypeOK, NEW c \in Calls, NEW d \in Calls, d # c,
         \/ CallStep(c)
         \/ \E k \in CallKind : Enter(c, k)
         \/ \E rs : NotifyCached(c, rs)
  PROVE  SameCall(d) /\ UNCHANGED <<validators, guards>>
<1> USE DEF SameCall, registry, history, TypeOK
<1>1. ASSUME NEW k \in CallKind, Enter(c, k)
      PROVE  SameCall(d) /\ UNCHANGED <<validators, guards>>
  BY <1>1 DEF Enter, RefusedByBreaker, BypassedByToken, Admitted
<1>2. ASSUME NEW rs, NotifyCached(c, rs)
      PROVE  SameCall(d) /\ UNCHANGED <<validators, guards>>
  BY <1>2 DEF NotifyCached
<1>3. CASE CallStep(c)
  <2>1. ASSUME NEW who \in Component, NEW answer \in Answer,
               \/ ValidatorAnswers(c, who, answer)
               \/ ParallelAnswers(c, who, answer)
               \/ GuardAnswers(c, who, answer)
        PROVE  SameCall(d) /\ UNCHANGED <<validators, guards>>
    BY <2>1 DEF ValidatorAnswers, ParallelAnswers, GuardAnswers, LoopAnswers
  <2>2. CASE EndValidators(c) \/ EndGuards(c)
    BY <2>2 DEF EndValidators, EndGuards, ShortCircuits, StartGuards, Conclude
  <2> QED  BY <1>3, <2>1, <2>2 DEF CallStep
<1> QED  BY <1>1, <1>2, <1>3

(* So every step keeps the cover.                                           *)
LEMMA NextKeepsCover ==
  ASSUME TypeOK, CoverInv, [Next]_vars
  PROVE  CoverInv'
<1>0. \A c \in Calls : Cover(c)
  BY CoverInvByCall
<1>1. ASSUME NEW c \in Calls,
             \/ CallStep(c)
             \/ \E k \in CallKind : Enter(c, k)
             \/ \E rs : NotifyCached(c, rs)
      PROVE  \A d \in Calls : Cover(d)'
  <2>1. Cover(c)'
    BY <1>0, <1>1, CallStepKeepsCover, EntryCover
  <2>2. ASSUME NEW d \in Calls, d # c
        PROVE  Cover(d)'
    BY <1>0, <1>1, <2>2, OneCallMoves, SameCallKeepsCover
  <2> QED  BY <2>1, <2>2
<1>2. ASSUME \/ \E f \in Callbacks : OnIntercept(f)
             \/ \E v \in Validators : AddValidator(v)
             \/ \E g \in Guards : AddGuard(g)
      PROVE  \A d \in Calls : Cover(d)'
  BY <1>0, <1>2, RegistrationKeepsCover
<1>3. ASSUME \/ \E p \in DOMAIN validators : RemoveValidator(p)
             \/ \E p \in DOMAIN guards : RemoveGuard(p)
      PROVE  \A d \in Calls : Cover(d)'
  BY <1>0, <1>3, RemovalKeepsCover
<1>4. ASSUME RunCallback \/ BufferOverflow \/ QueryBreaker \/ TimePasses \/ UNCHANGED vars
      PROVE  \A d \in Calls : Cover(d)'
  <2>1. UNCHANGED <<callVars, validators, guards>>
    BY <1>4 DEF RunCallback, BufferOverflow, QueryBreaker, TimePasses, vars, registry
  <2>2. \A d \in Calls : SameCall(d)
    BY <2>1 DEF SameCall, callVars, history
  <2> QED  BY <1>0, <2>1, <2>2, SameCallKeepsCover
<1>5. Kinds \subseteq CallKind
  BY EngineAssumption
<1>6. \A d \in Calls : Cover(d)'
  BY <1>1, <1>2, <1>3, <1>4, <1>5 DEF Next
<1> QED  BY <1>6 DEF CoverInv, FailClosed, Cover

(* An allowed verdict covers every component registered for the whole call, *)
(* whatever came, went, answered or threw while it ran.                     *)
THEOREM EngineFailClosed == Spec => [](CoverInv /\ FailClosed)
<1>1. Init => CoverInv
  BY DEF Init, CoverInv, FailClosed, InFlight, AllowedByRunning
<1>2. TypeOK /\ CoverInv /\ [Next]_vars => CoverInv'
  BY NextKeepsCover
<1>3. CoverInv => FailClosed
  BY DEF CoverInv
<1> QED  BY <1>1, <1>2, <1>3, EngineTypeCorrect, PTL DEF Spec
-----------------------------------------------------------------------------
(* What is told of a call pairs the first callbacks with it.                *)
AuditInv ==
  \A c \in Calls :
    /\ Len(ToldOf(c)) <= Len(callbacks)
    /\ \A i \in 1 .. Len(ToldOf(c)) : ToldOf(c)[i] = <<callbacks[i], c>>
    /\ ToldOf(c) # <<>> => pc[c] = "done" /\ ~(kind[c] = "bypass" /\ verdict[c] = "allow")
    /\ InFlight(c) => kind[c] # "bypass"

(* Callbacks are scheduled for calls.                                       *)
LEMMA ToldType ==
  ASSUME TypeOK, NEW c \in Calls
  PROVE  /\ delivered \o microtasks \in Seq(Callbacks \X Calls)
         /\ ToldOf(c) \in Seq(Callbacks \X Calls)
<1>1. delivered \o microtasks \in Seq(Callbacks \X Calls)
  BY DEF TypeOK
<1> QED BY <1>1, FilterFacts DEF ToldOf

(* A step that schedules no callback for a call that was not over leaves    *)
(* what is told as it is.                                                   *)
LEMMA SameTold ==
  ASSUME TypeOK, AuditInv, NEW c \in Calls, ToldOf(c)' = ToldOf(c),
         callbacks' = callbacks \/ \E f \in Callbacks : callbacks' = Append(callbacks, f),
         pc[c] = "done" => pc'[c] = "done" /\ kind'[c] = kind[c] /\ verdict'[c] = verdict[c]
  PROVE  /\ Len(ToldOf(c)') <= Len(callbacks')
         /\ \A i \in 1 .. Len(ToldOf(c)') : ToldOf(c)'[i] = <<callbacks'[i], c>>
         /\ ToldOf(c)' # <<>> => pc'[c] = "done" /\ ~(kind'[c] = "bypass" /\ verdict'[c] = "allow")
<1>1. callbacks \in Seq(Callbacks) /\ Len(callbacks) \in Nat
  BY LenProperties DEF TypeOK
<1>2. Len(callbacks) <= Len(callbacks') /\ \A i \in 1 .. Len(callbacks) : callbacks'[i] = callbacks[i]
  <2>1. ASSUME NEW f \in Callbacks, callbacks' = Append(callbacks, f)
        PROVE  Len(callbacks') = Len(callbacks) + 1 /\ \A i \in 1 .. Len(callbacks) : callbacks'[i] = callbacks[i]
    BY <1>1, <2>1, AppendProperties
  <2> QED BY <1>1, <2>1
<1>3. ToldOf(c) \in Seq(Callbacks \X Calls) /\ Len(ToldOf(c)) \in Nat
  BY ToldType, LenProperties
<1>4. /\ Len(ToldOf(c)) <= Len(callbacks)
      /\ \A i \in 1 .. Len(ToldOf(c)) : ToldOf(c)[i] = <<callbacks[i], c>>
      /\ ToldOf(c) # <<>> => pc[c] = "done" /\ ~(kind[c] = "bypass" /\ verdict[c] = "allow")
  BY DEF AuditInv
<1> DEFINE t == ToldOf(c)
<1>5. ToldOf(c)' = t
  OBVIOUS
<1> HIDE DEF t
<1>6. /\ t \in Seq(Callbacks \X Calls) /\ Len(t) \in Nat /\ Len(t) <= Len(callbacks)
      /\ \A i \in 1 .. Len(t) : t[i] = <<callbacks[i], c>>
      /\ t # <<>> => pc[c] = "done" /\ ~(kind[c] = "bypass" /\ verdict[c] = "allow")
  BY <1>3, <1>4 DEF t
<1>7. Len(callbacks') \in Nat
  <2>1. callbacks' \in Seq(Callbacks)
    BY <1>1, AppendProperties
  <2> QED BY <2>1, LenProperties
<1>8. Len(t) <= Len(callbacks') /\ \A i \in 1 .. Len(t) : t[i] = <<callbacks'[i], c>>
  BY <1>1, <1>2, <1>6, <1>7
<1> QED BY <1>5, <1>6, <1>8

(* A call that ends tells all callbacks there are, in their order.          *)
LEMMA InterceptTells ==
  ASSUME TypeOK, AuditInv, NEW c \in Calls, pc[c] # "done", Intercept(c), delivered' = delivered
  PROVE  /\ ToldOf(c)' = [i \in 1 .. Len(callbacks) |-> <<callbacks[i], c>>]
         /\ \A d \in Calls : d # c => ToldOf(d)' = ToldOf(d)
<1> DEFINE T == Callbacks \X Calls
           b == [i \in 1 .. Len(callbacks) |-> <<callbacks[i], c>>]
           q == delivered \o microtasks
<1>1. callbacks \in Seq(Callbacks) /\ Len(callbacks) \in Nat /\ DOMAIN callbacks = 1 .. Len(callbacks)
  BY LenProperties DEF TypeOK
<1>2. \A i \in 1 .. Len(callbacks) : callbacks[i] \in Callbacks
  BY <1>1, ElementOfSeq
<1>3. b \in Seq(T) /\ Len(b) = Len(callbacks)
  <2>1. b \in [1 .. Len(callbacks) -> T]
    BY <1>2
  <2> QED BY <1>1, <2>1, IsASeq, LenProperties
<1>4. microtasks' = microtasks \o b
  BY <1>1 DEF Intercept
<1>5. delivered \in Seq(T) /\ microtasks \in Seq(T) /\ q \in Seq(T)
  BY DEF TypeOK
<1>6. delivered' \o microtasks' = q \o b
  <2> HIDE DEF b, T
  <2> QED BY <1>3, <1>4, <1>5, SMTT(40) DEF q
<1>7. ToSet(b) = {<<callbacks[i], c>> : i \in 1 .. Len(callbacks)}
  BY <1>1, <1>3 DEF ToSet
<1>8. ASSUME NEW d \in Calls
      PROVE  ToldOf(d)' = ToldOf(d) \o Filter(b, Callbacks \X {d})
  <2>2. ToldOf(d) = Filter(q, Callbacks \X {d})
    BY DEF ToldOf
  <2>1. ToldOf(d)' = Filter(q \o b, Callbacks \X {d})
    BY <1>6 DEF ToldOf
  <2> DEFINE A == Callbacks \X {d}
  <2> HIDE DEF b, q, A, T
  <2>3. q \in Seq(T) /\ b \in Seq(T)
    BY <1>3, <1>5
  <2>4. Filter(q \o b, A) = Filter(q, A) \o Filter(b, A)
    BY <2>3, FilterConcat
  <2> QED BY <2>1, <2>2, <2>4 DEF A
<1>9. ToldOf(c) = <<>>
  BY DEF AuditInv
<1>10. Filter(b, Callbacks \X {c}) = b
  <2>1. \A x \in ToSet(b) : x \in Callbacks \X {c}
    BY <1>2, <1>7
  <2> HIDE DEF b
  <2> QED BY <2>1, <1>3, FilterAll
<1>11. ASSUME NEW d \in Calls, d # c PROVE Filter(b, Callbacks \X {d}) = <<>>
  <2>1. \A x \in ToSet(b) : x \notin Callbacks \X {d}
    BY <1>7, <1>11
  <2> HIDE DEF b
  <2> QED BY <2>1, <1>3, FilterNone
<1>12. ToldOf(c)' = b
  <2> HIDE DEF b
  <2>1. ToldOf(c)' = <<>> \o b
    BY <1>8, <1>9, <1>10
  <2>2. <<>> \o b = b
    BY <1>3
  <2> QED BY <2>1, <2>2
<1>13. ASSUME NEW d \in Calls, d # c PROVE ToldOf(d)' = ToldOf(d)
  <2> DEFINE t == ToldOf(d)
  <2>1. t \in Seq(T)
    BY ToldType
  <2>2. ToldOf(d)' = t \o <<>>
    BY <1>8, <1>11, <1>13
  <2> HIDE DEF t, T
  <2>3. t \o <<>> = t
    BY <2>1
  <2> QED BY <2>2, <2>3 DEF t
<1> QED BY <1>12, <1>13

(* A call that ends, other than by a token, keeps the audit in order.       *)
LEMMA ConcludedCallsAreTold ==
  ASSUME TypeOK, AuditInv, NEW c \in Calls, pc[c] # "done", Intercept(c),
         delivered' = delivered, callbacks' = callbacks,
         pc'[c] = "done", ~(kind'[c] = "bypass" /\ verdict'[c] = "allow"),
         \A d \in Calls : d # c => pc'[d] = pc[d] /\ kind'[d] = kind[d] /\ verdict'[d] = verdict[d]
  PROVE  AuditInv'
<1>1. callbacks \in Seq(Callbacks) /\ Len(callbacks) \in Nat
  BY LenProperties DEF TypeOK
<1> DEFINE b == [i \in 1 .. Len(callbacks) |-> <<callbacks[i], c>>]
<1>2. ToldOf(c)' = b
  BY InterceptTells
<1>3. Len(b) = Len(callbacks) /\ \A i \in 1 .. Len(b) : b[i] = <<callbacks[i], c>>
  BY <1>1
<1>4. ASSUME NEW d \in Calls, d # c
      PROVE  /\ Len(ToldOf(d)') <= Len(callbacks')
             /\ \A i \in 1 .. Len(ToldOf(d)') : ToldOf(d)'[i] = <<callbacks'[i], d>>
             /\ ToldOf(d)' # <<>> =>
                  pc'[d] = "done" /\ ~(kind'[d] = "bypass" /\ verdict'[d] = "allow")
  BY <1>4, InterceptTells, SameTold
<1> HIDE DEF b
<1>5. /\ Len(ToldOf(c)') <= Len(callbacks')
      /\ \A i \in 1 .. Len(ToldOf(c)') : ToldOf(c)'[i] = <<callbacks'[i], c>>
  BY <1>1, <1>2, <1>3
<1>6. \A d \in Calls : InFlight(d)' => kind'[d] # "bypass"
  BY DEF AuditInv, InFlight
<1> QED BY <1>4, <1>5, <1>6 DEF AuditInv

(* A step that tells nobody anything.                                       *)
LEMMA NothingTold ==
  ASSUME TypeOK, AuditInv,
         delivered' \o microtasks' = delivered \o microtasks,
         callbacks' = callbacks \/ \E f \in Callbacks : callbacks' = Append(callbacks, f),
         \A c \in Calls : pc[c] = "done" =>
           pc'[c] = "done" /\ kind'[c] = kind[c] /\ verdict'[c] = verdict[c],
         \A c \in Calls : InFlight(c)' => kind'[c] # "bypass"
  PROVE  AuditInv'
<1>1. \A c \in Calls : ToldOf(c)' = ToldOf(c)
  BY DEF ToldOf
<1> QED BY <1>1, SameTold DEF AuditInv

(* A callback that runs moves from what will be told to what was told.      *)
LEMMA CallbackStep ==
  ASSUME TypeOK, AuditInv, RunCallback
  PROVE  AuditInv'
<1> DEFINE T == Callbacks \X Calls
<1>1. delivered \in Seq(T) /\ microtasks \in Seq(T)
  BY DEF TypeOK
<1> HIDE DEF T
<1>2. ASSUME NEW d \in Seq(T), NEW m \in Seq(T), m # <<>>
      PROVE  Append(d, Head(m)) \o Tail(m) = d \o m
  <2>1. Head(m) = m[1] /\ Tail(m) \in Seq(T) /\ Len(Tail(m)) = Len(m) - 1 /\ Len(m) \in Nat \ {0}
        /\ Len(d) \in Nat /\ m[1] \in T /\ \A i \in 1 .. Len(m) - 1 : Tail(m)[i] = m[i + 1]
    BY <1>2
  <2> DEFINE t == Tail(m)  a == Append(d, m[1])
  <2>2. a \in Seq(T) /\ Len(a) = Len(d) + 1 /\ a[Len(d) + 1] = m[1]
        /\ \A i \in 1 .. Len(d) : a[i] = d[i]
    BY <2>1, AppendProperties
  <2> HIDE DEF t, a
  <2>3. /\ t \in Seq(T) /\ Len(t) = Len(m) - 1 /\ \A i \in 1 .. Len(m) - 1 : t[i] = m[i + 1]
    BY <2>1 DEF t
  <2>4. /\ a \o t \in Seq(T) /\ Len(a \o t) = Len(a) + Len(t)
        /\ \A i \in 1 .. Len(a) + Len(t) : (a \o t)[i] = IF i <= Len(a) THEN a[i] ELSE t[i - Len(a)]
    BY <2>2, <2>3, ConcatProperties
  <2>7. /\ d \o m \in Seq(T) /\ Len(d \o m) = Len(d) + Len(m)
        /\ \A i \in 1 .. Len(d) + Len(m) : (d \o m)[i] = IF i <= Len(d) THEN d[i] ELSE m[i - Len(d)]
    BY ConcatProperties
  <2> DEFINE at == a \o t  dm == d \o m
  <2>8. /\ at \in Seq(T) /\ Len(at) = Len(a) + Len(t)
        /\ \A i \in 1 .. Len(a) + Len(t) : at[i] = IF i <= Len(a) THEN a[i] ELSE t[i - Len(a)]
        /\ dm \in Seq(T) /\ Len(dm) = Len(d) + Len(m)
        /\ \A i \in 1 .. Len(d) + Len(m) : dm[i] = IF i <= Len(d) THEN d[i] ELSE m[i - Len(d)]
    BY <2>4, <2>7
  <2> HIDE DEF at, dm
  <2>9. Len(at) = Len(dm) /\ Len(dm) \in Nat
    BY <2>1, <2>2, <2>3, <2>8
  <2>5. ASSUME NEW i \in 1 .. Len(dm) PROVE at[i] = dm[i]
    <3>1. i \in 1 .. Len(d) + Len(m) /\ i \in 1 .. Len(a) + Len(t)
      BY <2>1, <2>8, <2>9
    <3>2. CASE i <= Len(d)
      BY <2>1, <2>2, <2>8, <3>1, <3>2, SMTT(40)
    <3>3. CASE i = Len(d) + 1
      BY <2>1, <2>2, <2>8, <3>1, <3>3
    <3>4. CASE i > Len(d) + 1
      <4>1. at[i] = t[i - Len(a)] /\ dm[i] = m[i - Len(d)]
        BY <2>1, <2>2, <2>8, <3>1, <3>4
      <4>2. i - Len(a) \in 1 .. Len(m) - 1 /\ (i - Len(a)) + 1 = i - Len(d)
        BY <2>1, <2>2, <3>1, <3>4
      <4>3. t[i - Len(a)] = m[(i - Len(a)) + 1]
        BY <2>3, <4>2
      <4> QED BY <4>1, <4>2, <4>3
    <3> QED BY <2>1, <3>1, <3>2, <3>3, <3>4
  <2>6. at = dm
    BY <2>5, <2>8, <2>9, SeqEqual
  <2> QED BY <2>1, <2>6 DEF a, t, at, dm
<1>3. delivered' \o microtasks' = delivered \o microtasks
  BY <1>1, <1>2 DEF RunCallback
<1>4. UNCHANGED <<callbacks, pc, kind, verdict>>
  BY DEF RunCallback, registry, callVars
<1>5. \A c \in Calls : InFlight(c)' => kind'[c] # "bypass"
  BY <1>4 DEF AuditInv, InFlight
<1> QED BY <1>3, <1>4, <1>5, NothingTold

(* Every step keeps the audit in order.                                     *)
LEMMA AuditInvStep ==
  ASSUME TypeOK, AuditInv, [Next]_vars
  PROVE  AuditInv'
<1> USE DEF callVars, registry, history, audit
<1>0. /\ pc \in [Calls -> {"idle", "validators", "guards", "done"}] /\ kind \in [Calls -> CallKind]
      /\ verdict \in [Calls -> {"none", "allow", "block"}]
  BY DEF TypeOK
<1>01. \A c \in Calls : InFlight(c) => kind[c] # "bypass"
  BY DEF AuditInv
<1>1. ASSUME NEW c \in Calls, NEW who \in Component, NEW answer \in Answer,
             ValidatorAnswers(c, who, answer) \/ ParallelAnswers(c, who, answer)
             \/ GuardAnswers(c, who, answer)
      PROVE  AuditInv'
  <2>1. UNCHANGED <<callbacks, pc, kind, verdict, microtasks, delivered>>
    BY <1>1 DEF ValidatorAnswers, ParallelAnswers, GuardAnswers, LoopAnswers
  <2> QED BY <1>01, <2>1, NothingTold DEF InFlight
<1>2. ASSUME NEW c \in Calls, NEW b, Conclude(c, b), InFlight(c), callbacks' = callbacks
      PROVE  AuditInv'
  <2>1. /\ pc[c] # "done" /\ Intercept(c) /\ delivered' = delivered /\ kind' = kind
        /\ pc' = [pc EXCEPT ![c] = "done"]
        /\ verdict' = [verdict EXCEPT ![c] = AggregatedVerdict(results[c])]
    BY <1>2 DEF Conclude, InFlight
  <2>2. pc'[c] = "done" /\ kind'[c] # "bypass"
    BY <1>0, <1>01, <1>2, <2>1
  <2>3. \A d \in Calls : d # c => pc'[d] = pc[d] /\ kind'[d] = kind[d] /\ verdict'[d] = verdict[d]
    BY <1>0, <2>1
  <2> QED BY <1>2, <2>1, <2>2, <2>3, ConcludedCallsAreTold
<1>3. ASSUME NEW c \in Calls, StartGuards(c), pc[c] = "validators", callbacks' = callbacks
      PROVE  AuditInv'
  <2>1. /\ UNCHANGED <<kind, verdict, microtasks, delivered>>
        /\ pc' = [pc EXCEPT ![c] = "guards"]
    BY <1>3 DEF StartGuards
  <2>2. \A d \in Calls : (pc[d] = "done" => pc'[d] = "done") /\ (InFlight(d)' => InFlight(d))
    BY <1>0, <1>3, <2>1 DEF InFlight
  <2> QED BY <1>01, <1>3, <2>1, <2>2, NothingTold
<1>4. ASSUME NEW c \in Calls, EndValidators(c) \/ EndGuards(c)
      PROVE  AuditInv'
  <2>1. callbacks' = callbacks /\ pc[c] \in {"validators", "guards"}
    BY <1>4 DEF EndValidators, EndGuards
  <2>2. \/ Conclude(c, kind[c] = "input") \/ Conclude(c, TRUE)
        \/ StartGuards(c) /\ pc[c] = "validators"
    BY <1>4 DEF EndValidators, EndGuards, ShortCircuits
  <2> QED BY <1>2, <1>3, <2>1, <2>2 DEF InFlight
<1>5. ASSUME NEW c \in Calls, NEW k \in Kinds, Enter(c, k)
      PROVE  AuditInv'
  <2>1. /\ pc[c] = "idle" /\ kind' = [kind EXCEPT ![c] = k] /\ callbacks' = callbacks
        /\ RefusedByBreaker(c, k) \/ BypassedByToken(c, k) \/ Admitted(c, k)
    BY <1>5 DEF Enter
  <2>2. k \in CallKind
    BY EngineAssumption
  <2>3. \A d \in Calls : d # c => kind'[d] = kind[d]
    BY <1>0, <2>1
  <2>4. CASE RefusedByBreaker(c, k)
    <3>1. /\ pc' = [pc EXCEPT ![c] = "done"] /\ verdict' = [verdict EXCEPT ![c] = "block"]
          /\ Intercept(c) /\ delivered' = delivered
      BY <2>4 DEF RefusedByBreaker
    <3>2. /\ pc'[c] = "done" /\ verdict'[c] = "block"
          /\ \A d \in Calls : d # c => pc'[d] = pc[d] /\ verdict'[d] = verdict[d]
      BY <1>0, <3>1
    <3> QED BY <2>1, <2>3, <3>1, <3>2, ConcludedCallsAreTold
  <2>5. CASE BypassedByToken(c, k)
    <3>1. /\ pc' = [pc EXCEPT ![c] = "done"] /\ verdict' = [verdict EXCEPT ![c] = "allow"]
          /\ UNCHANGED <<microtasks, delivered>>
      BY <2>5 DEF BypassedByToken
    <3>2. /\ pc'[c] = "done" /\ \A d \in Calls : d # c => pc'[d] = pc[d] /\ verdict'[d] = verdict[d]
      BY <1>0, <3>1
    <3>3. \A d \in Calls : InFlight(d)' => kind'[d] # "bypass"
      BY <1>01, <2>3, <3>2 DEF InFlight
    <3> QED BY <2>1, <2>3, <3>1, <3>2, <3>3, NothingTold
  <2>6. CASE Admitted(c, k)
    <3>1. /\ pc' = [pc EXCEPT ![c] = "validators"] /\ k # "bypass"
          /\ UNCHANGED <<verdict, microtasks, delivered>>
      BY <2>6 DEF Admitted
    <3>2. /\ kind'[c] = k /\ \A d \in Calls : d # c => pc'[d] = pc[d]
      BY <1>0, <2>1, <2>2, <3>1
    <3>3. \A d \in Calls : InFlight(d)' => kind'[d] # "bypass"
      BY <1>01, <2>3, <3>1, <3>2 DEF InFlight
    <3>4. \A d \in Calls : pc[d] = "done" => pc'[d] = "done" /\ kind'[d] = kind[d]
      BY <2>1, <2>3, <3>2
    <3> QED BY <2>1, <3>1, <3>3, <3>4, NothingTold
  <2> QED BY <2>1, <2>4, <2>5, <2>6
<1>6. ASSUME NEW c \in Calls, NEW rs, NotifyCached(c, rs)
      PROVE  AuditInv'
  <2>1. /\ pc[c] = "idle" /\ kind' = [kind EXCEPT ![c] = "cached"] /\ callbacks' = callbacks
        /\ pc' = [pc EXCEPT ![c] = "done"]
        /\ verdict' = [verdict EXCEPT ![c] = AggregatedVerdict(rs)]
        /\ Intercept(c) /\ delivered' = delivered
    BY <1>6 DEF NotifyCached
  <2>2. /\ pc'[c] = "done" /\ kind'[c] = "cached"
        /\ \A d \in Calls : d # c => pc'[d] = pc[d] /\ kind'[d] = kind[d] /\ verdict'[d] = verdict[d]
    BY <1>0, <2>1
  <2> QED BY <2>1, <2>2, ConcludedCallsAreTold
<1>7. ASSUME NEW f \in Callbacks, OnIntercept(f)
      PROVE  AuditInv'
  <2>1. callbacks' = Append(callbacks, f) /\ UNCHANGED <<pc, kind, verdict, microtasks, delivered>>
    BY <1>7 DEF OnIntercept
  <2> QED BY <1>01, <2>1, NothingTold DEF InFlight
<1>8. ASSUME \/ \E v \in Validators : AddValidator(v)
             \/ \E g \in Guards : AddGuard(g)
             \/ \E p \in DOMAIN validators : RemoveValidator(p)
             \/ \E p \in DOMAIN guards : RemoveGuard(p)
             \/ BufferOverflow \/ QueryBreaker \/ TimePasses \/ UNCHANGED vars
      PROVE  AuditInv'
  <2>1. UNCHANGED <<callbacks, pc, kind, verdict, microtasks, delivered>>
    BY <1>8 DEF AddValidator, AddGuard, RemoveValidator, RemoveGuard, Splice, BufferOverflow,
       QueryBreaker, TimePasses, vars
  <2> QED BY <1>01, <2>1, NothingTold DEF InFlight
<1>9. ASSUME NEW c \in Calls, CallStep(c)
      PROVE  AuditInv'
  BY <1>1, <1>4, <1>9 DEF CallStep
<1> QED BY <1>5, <1>6, <1>7, <1>8, <1>9, CallbackStep DEF Next

(* At first nobody was told anything.                                       *)
LEMMA AuditInvInit == Init => AuditInv
<1> SUFFICES ASSUME Init PROVE AuditInv
  OBVIOUS
<1>1. \A c \in Calls : ToldOf(c) = <<>>
  <2>1. delivered \o microtasks = <<>>
    BY DEF Init
  <2> QED BY <2>1, FilterOfNothing DEF ToldOf
<1>2. callbacks = <<>> /\ \A c \in Calls : ~InFlight(c)
  BY DEF Init, InFlight
<1> QED BY <1>1, <1>2 DEF AuditInv

(* The beginning told is the beginning registered.                          *)
LEMMA AuditInvSuffices == TypeOK /\ AuditInv => AuditInOrder
<1> SUFFICES ASSUME TypeOK, AuditInv, NEW c \in Calls
             PROVE  LET told == [i \in DOMAIN ToldOf(c) |-> ToldOf(c)[i][1]] IN
                    /\ IsPrefix(told, callbacks)
                    /\ told # <<>> => pc[c] = "done" /\ ~(kind[c] = "bypass" /\ verdict[c] = "allow")
  BY DEF AuditInOrder
<1> DEFINE t == ToldOf(c)
           told == [i \in DOMAIN t |-> t[i][1]]
<1>1. /\ t \in Seq(Callbacks \X Calls) /\ Len(t) \in Nat /\ DOMAIN t = 1 .. Len(t)
  BY ToldType, LenProperties
<1>2. callbacks \in Seq(Callbacks) /\ Len(callbacks) \in Nat
  BY LenProperties DEF TypeOK
<1>3. /\ Len(t) <= Len(callbacks) /\ \A i \in 1 .. Len(t) : t[i] = <<callbacks[i], c>>
      /\ t # <<>> => pc[c] = "done" /\ ~(kind[c] = "bypass" /\ verdict[c] = "allow")
  BY DEF AuditInv
<1> HIDE DEF t
<1>4. Len(told) = Len(t) /\ \A i \in 1 .. Len(t) : told[i] = callbacks[i]
  BY <1>1, <1>3
<1>5. told \in Seq(Callbacks)
  <2>1. \A i \in 1 .. Len(t) : told[i] \in Callbacks
    BY <1>2, <1>3, <1>4, ElementOfSeq
  <2> QED BY <1>1, <2>1
<1>6. IsPrefix(told, callbacks)
  <2> HIDE DEF told
  <2> QED BY <1>1, <1>2, <1>3, <1>4, <1>5 DEF IsPrefix
<1>7. told # <<>> => t # <<>>
  BY <1>1
<1> QED BY <1>3, <1>6, <1>7 DEF t

(* Whatever calls overlap, the callbacks told of a call are the first so    *)
(* many registered, in their order, and only of calls that are over         *)
(* (GuardrailEngine.ts:276-297).                                            *)
THEOREM EngineAuditInOrder == Spec => []AuditInOrder
<1>1. Init => AuditInv
  BY AuditInvInit
<1>2. TypeOK /\ AuditInv /\ [Next]_vars => AuditInv'
  BY AuditInvStep
<1>3. TypeOK /\ AuditInv => AuditInOrder
  BY AuditInvSuffices
<1> QED  BY <1>1, <1>2, <1>3, EngineTypeCorrect, PTL DEF Spec
=============================================================================
