-------------------------- MODULE GuardrailEngine --------------------------
(***************************************************************************)
(* One GuardrailEngine (packages/core/src/engine/GuardrailEngine.ts) and   *)
(* the calls in flight on it.  The engine runs on a JavaScript event loop: *)
(* what happens between two awaits is one step here, and at every await    *)
(* any other call, an addValidator / removeValidator / addGuard /          *)
(* removeGuard, a buffer violation or an intercept callback may come in.   *)
(* The loops of validate() and validateInput() iterate the LIVE arrays     *)
(* this.validators and this.guards, so an index kept over an await means   *)
(* something else after a splice.                                          *)
(***************************************************************************)
EXTENDS EngineBreaker, Filters, Sequences, FiniteSets, SequencesExt

CONSTANTS
  Validators,     \* validator instances that may be registered
  Guards,         \* guard instances that may be registered
  Callbacks,      \* functions that may be given to onIntercept
  Calls,          \* the calls made on the engine
  Kinds,          \* which entry points the calls use, a subset of CallKind
  ShortCircuit,   \* config.shortCircuit
  Parallel,       \* config.executionOrder = 'parallel'
  Forced,         \* config.action is 'log' or 'allow'
  Hung,           \* components whose promise never settles
  Removals        \* FALSE: this deployment never removes a component

(* validate(content), validate(content with a valid override token),       *)
(* validateInput(input), notifyCachedResult(results).                      *)
CallKind == {"content", "bypass", "input", "cached"}

Component == Validators \cup Guards

ASSUME EngineAssumption ==
  /\ Validators \cap Guards = {}
  /\ IsFiniteSet(Component)
  /\ Kinds \subseteq CallKind
  /\ Hung \subseteq Component
  /\ {ShortCircuit, Parallel, Forced, Removals} \subseteq BOOLEAN

VARIABLES
  validators,   \* this.validators
  guards,       \* this.guards
  callbacks,    \* this.interceptCallbacks
  pc,           \* where each call stands
  kind,         \* the entry point it came through
  idx,          \* elements its current for-of iterator has yielded
  waiting,      \* components whose answer it awaits
  results,      \* allResults
  verdict,      \* what it returned
  microtasks,   \* callback invocations scheduled and not yet started
  delivered,    \* history: callback invocations in the order they started
  expected,     \* history: components registered during the whole call
  overtaken,    \* history: its iterator lost an element it had passed
  era           \* history: the breaker's state when the call was admitted

history == <<expected, overtaken, era>>
callVars == <<pc, kind, idx, waiting, results, verdict, history>>
registry == <<validators, guards, callbacks>>
audit == <<microtasks, delivered>>
vars == <<engineBreakerVars, registry, callVars, audit>>

(* What a component answers; "error" is a validate() that threw, recorded  *)
(* by the catch block as createResult(false, CRITICAL).                    *)
Answer == {"allow", "block", "error"}
Result == [who : Component, answer : Answer]

Blocked(rs) == \E r \in rs : r.answer # "allow"

(* Mutants: a verdict that needs every component to object; no verdict for  *)
(* an empty list of results.                                                *)
UnanimousVerdict(rs) ==
  IF Forced \/ rs = {} \/ \E r \in rs : r.answer = "allow" THEN "allow" ELSE "block"
UndefinedVerdict(rs) ==
  IF rs = {} THEN "none" ELSE IF Forced \/ ~Blocked(rs) THEN "allow" ELSE "block"

(* aggregateResults: action 'log' and 'allow' override the findings.       *)
AggregatedVerdict(rs) == IF Forced \/ ~Blocked(rs) THEN "allow" ELSE "block"

Sequential(c) == ~(Parallel /\ kind[c] = "content")

InFlight(c) == pc[c] \in {"validators", "guards"}

TypeOK ==
  /\ BreakerTypeOK
  /\ validators \in Seq(Validators) /\ IsInjective(validators)
  /\ guards \in Seq(Guards) /\ IsInjective(guards)
  /\ callbacks \in Seq(Callbacks)
  /\ pc \in [Calls -> {"idle", "validators", "guards", "done"}]
  /\ kind \in [Calls -> CallKind]
  /\ idx \in [Calls -> Nat]
  /\ waiting \in [Calls -> SUBSET Component]
  /\ results \in [Calls -> SUBSET Result]
  /\ verdict \in [Calls -> {"none", "allow", "block"}]
  /\ \A c \in Calls : pc[c] = "done" <=> verdict[c] # "none"
  /\ microtasks \in Seq(Callbacks \X Calls)
  /\ delivered \in Seq(Callbacks \X Calls)
  /\ expected \in [Calls -> SUBSET Component]
  /\ overtaken \in [Calls -> BOOLEAN]
  /\ era \in [Calls -> BreakerState]

(* The constructor refuses an empty validator list (the empty list needs    *)
(* allowEmptyForTesting); the guard list may be empty.                      *)
Init ==
  /\ BreakerInit
  /\ validators \in {s \in SetToAllKPermutations(Validators) : s # <<>>}
  /\ guards \in SetToAllKPermutations(Guards)
  /\ callbacks = <<>>
  /\ pc = [c \in Calls |-> "idle"]
  /\ kind = [c \in Calls |-> "content"]
  /\ idx = [c \in Calls |-> 0]
  /\ waiting = [c \in Calls |-> {}]
  /\ results = [c \in Calls |-> {}]
  /\ verdict = [c \in Calls |-> "none"]
  /\ microtasks = <<>>
  /\ delivered = <<>>
  /\ expected = [c \in Calls |-> {}]
  /\ overtaken = [c \in Calls |-> FALSE]
  /\ era = [c \in Calls |-> "CLOSED"]

-----------------------------------------------------------------------------
(* invokeInterceptCallbacks: one microtask per registered callback, in      *)
(* registration order, nothing awaited.                                     *)
Intercept(c) ==
  microtasks' = microtasks \o [i \in DOMAIN callbacks |-> <<callbacks[i], c>>]

(* Mutant: any allowed call closes the breaker.                             *)
ConcludeAndClose(c, resets) ==
  /\ pc' = [pc EXCEPT ![c] = "done"]
  /\ verdict' = [verdict EXCEPT ![c] = AggregatedVerdict(results[c])]
  /\ breaker' = IF AggregatedVerdict(results[c]) = "allow" THEN "CLOSED" ELSE breaker
  /\ UNCHANGED <<violationCount, lastViolationTime, openUntil>>
  /\ Intercept(c)
  /\ UNCHANGED <<kind, idx, waiting, results, history, delivered>>

(* Both entry points end alike: aggregate, close a recovering breaker when  *)
(* the aggregate is allowed, tell the callbacks, return.                    *)
Conclude(c, resets) ==
  /\ pc' = [pc EXCEPT ![c] = "done"]
  /\ verdict' = [verdict EXCEPT ![c] = AggregatedVerdict(results[c])]
  /\ IF resets /\ AggregatedVerdict(results[c]) = "allow"
     THEN ResetIfRecovering ELSE UNCHANGED breakerVars
  /\ Intercept(c)
  /\ UNCHANGED <<kind, idx, waiting, results, history, delivered>>

(* A call enters.  Up to its first await it checks the breaker and, for     *)
(* validate(), the override token; then the iterator yields validator one,  *)
(* or Array.map calls all of them.                                          *)
RefusedByBreaker(c, k) ==
  /\ k \in {"content", "bypass", "input"}
  /\ IsOpen(TRUE)
  /\ pc' = [pc EXCEPT ![c] = "done"]
  /\ verdict' = [verdict EXCEPT ![c] = "block"]
  /\ Intercept(c)
  /\ UNCHANGED <<idx, waiting, results, history, delivered>>

BypassedByToken(c, k) ==
  /\ k = "bypass"
  /\ IsOpen(FALSE)
  /\ pc' = [pc EXCEPT ![c] = "done"]
  /\ verdict' = [verdict EXCEPT ![c] = "allow"]
  /\ UNCHANGED <<idx, waiting, results, history, audit>>

FirstOf(list) == IF list = <<>> THEN {} ELSE {list[1]}

Admitted(c, k) ==
  /\ k \in {"content", "input"}
  /\ IsOpen(FALSE)
  /\ pc' = [pc EXCEPT ![c] = "validators"]
  /\ expected' = [expected EXCEPT ![c] = ToSet(validators) \cup ToSet(guards)]
  /\ era' = [era EXCEPT ![c] = breaker']
  /\ \/ /\ Parallel /\ k = "content"
        /\ waiting' = [waiting EXCEPT ![c] = ToSet(validators)]
        /\ UNCHANGED idx
     \/ /\ ~(Parallel /\ k = "content")
        /\ waiting' = [waiting EXCEPT ![c] = FirstOf(validators)]
        /\ idx' = [idx EXCEPT ![c] = 1]
  /\ UNCHANGED <<results, verdict, overtaken, audit>>

Enter(c, k) ==
  /\ pc[c] = "idle"
  /\ kind' = [kind EXCEPT ![c] = k]
  /\ RefusedByBreaker(c, k) \/ BypassedByToken(c, k) \/ Admitted(c, k)
  /\ UNCHANGED <<clock, registry>>

(* notifyCachedResult(results): results computed elsewhere are aggregated   *)
(* and told to the callbacks, if there are any.  No validator runs here and *)
(* the breaker is neither asked nor reset.                                  *)
NotifyCached(c, rs) ==
  /\ pc[c] = "idle"
  /\ kind' = [kind EXCEPT ![c] = "cached"]
  /\ pc' = [pc EXCEPT ![c] = "done"]
  /\ verdict' = [verdict EXCEPT ![c] = AggregatedVerdict(rs)]
  /\ Intercept(c)
  /\ UNCHANGED <<engineBreakerVars, registry, idx, waiting, results, history,
                 delivered>>

-----------------------------------------------------------------------------
(* runValidatorsSequential does not leave its loop in the catch block,      *)
(* validateInput does; runGuards does not.                                  *)
EndsLoop(c, answer) ==
  ShortCircuit /\ \/ answer = "block"
                  \/ answer = "error" /\ pc[c] = "validators" /\ kind[c] = "input"

(* The awaited component of a for-of loop answers: its result is pushed,    *)
(* then the loop ends or the iterator asks the live array for the next one. *)
LoopAnswers(c, list, who, answer) ==
  /\ waiting[c] = {who}
  /\ results' = [results EXCEPT ![c] = @ \cup {[who |-> who, answer |-> answer]}]
  /\ IF EndsLoop(c, answer) \/ idx[c] >= Len(list)
     THEN waiting' = [waiting EXCEPT ![c] = {}] /\ UNCHANGED idx
     ELSE /\ waiting' = [waiting EXCEPT ![c] = {list[idx[c] + 1]}]
          /\ idx' = [idx EXCEPT ![c] = @ + 1]
  /\ UNCHANGED <<engineBreakerVars, registry, pc, kind, verdict, history, audit>>

ValidatorAnswers(c, who, answer) ==
  /\ pc[c] = "validators" /\ Sequential(c) /\ who \notin Hung
  /\ LoopAnswers(c, validators, who, answer)

GuardAnswers(c, who, answer) ==
  /\ pc[c] = "guards" /\ who \notin Hung
  /\ LoopAnswers(c, guards, who, answer)

(* runValidatorsParallel: all were called at once, Promise.all waits for    *)
(* every one of them.                                                       *)
ParallelAnswers(c, who, answer) ==
  /\ pc[c] = "validators" /\ ~Sequential(c)
  /\ who \in waiting[c] \ Hung
  /\ results' = [results EXCEPT ![c] = @ \cup {[who |-> who, answer |-> answer]}]
  /\ waiting' = [waiting EXCEPT ![c] = @ \ {who}]
  /\ UNCHANGED <<engineBreakerVars, registry, pc, kind, idx, verdict, history,
                 audit>>

(* The await on the validators resolves: conclude under short-circuit, with *)
(* a breaker reset in validateInput only, or go on to the guards.           *)
ShortCircuits(c) ==
  /\ ShortCircuit /\ Blocked(results[c])
  /\ Conclude(c, kind[c] = "input")

StartGuards(c) ==
  /\ ~(ShortCircuit /\ Blocked(results[c]))
  /\ pc' = [pc EXCEPT ![c] = "guards"]
  /\ waiting' = [waiting EXCEPT ![c] = FirstOf(guards)]
  /\ idx' = [idx EXCEPT ![c] = 1]
  /\ UNCHANGED <<breakerVars, kind, results, verdict, history, audit>>

(* Mutant: waits until as many have been asked as are registered now.       *)
EndWhenAllAsked(c) ==
  /\ pc[c] = "validators" /\ waiting[c] = {} /\ idx[c] = Len(validators)
  /\ ShortCircuits(c) \/ StartGuards(c)
  /\ UNCHANGED <<clock, registry>>

EndValidators(c) ==
  /\ pc[c] = "validators" /\ waiting[c] = {}
  /\ ShortCircuits(c) \/ StartGuards(c)
  /\ UNCHANGED <<clock, registry>>

EndGuards(c) ==
  /\ pc[c] = "guards" /\ waiting[c] = {}
  /\ Conclude(c, TRUE)
  /\ UNCHANGED <<clock, registry>>

-----------------------------------------------------------------------------
(* Mutants: the newest first; a callback that fails takes the rest with it. *)
RunNewest ==
  /\ microtasks # <<>>
  /\ microtasks' = Front(microtasks)
  /\ delivered' = Append(delivered, Last(microtasks))
  /\ UNCHANGED <<engineBreakerVars, registry, callVars>>
RunUnguarded ==
  /\ microtasks # <<>>
  /\ microtasks' \in {Tail(microtasks), <<>>}
  /\ delivered' = Append(delivered, Head(microtasks))
  /\ UNCHANGED <<engineBreakerVars, registry, callVars>>

(* A callback starts; whether it throws or rejects is logged and lost.      *)
RunCallback ==
  /\ microtasks # <<>>
  /\ microtasks' = Tail(microtasks)
  /\ delivered' = Append(delivered, Head(microtasks))
  /\ UNCHANGED <<engineBreakerVars, registry, callVars>>

OnIntercept(f) ==
  /\ f \notin ToSet(callbacks)
  /\ callbacks' = Append(callbacks, f)
  /\ UNCHANGED <<engineBreakerVars, validators, guards, callVars, audit>>

(* Instances are registered once at a time, so that a name is one instance. *)
AddValidator(v) ==
  /\ v \notin ToSet(validators)
  /\ validators' = Append(validators, v)
  /\ UNCHANGED <<engineBreakerVars, guards, callbacks, callVars, audit>>

AddGuard(g) ==
  /\ g \notin ToSet(guards)
  /\ guards' = Append(guards, g)
  /\ UNCHANGED <<engineBreakerVars, validators, callbacks, callVars, audit>>

(* The splice of element p.  The two history variables record which calls   *)
(* can no longer be said to owe the element an answer, and which calls'     *)
(* iterators are now one element ahead of what they were to yield next.     *)
Splice(p, list, who, phase) ==
  /\ expected' = [c \in Calls |-> expected[c] \ {who}]
  /\ overtaken' = [c \in Calls |->
       overtaken[c] \/ /\ pc[c] = phase /\ (phase = "validators" => Sequential(c))
                       /\ waiting[c] # {}
                       /\ p <= idx[c] /\ idx[c] < Len(list)]
  /\ UNCHANGED <<engineBreakerVars, callbacks, pc, kind, idx, waiting, results,
                 verdict, era, audit>>

RemoveValidator(p) ==
  /\ Removals
  /\ validators' = RemoveAt(validators, p)
  /\ Splice(p, validators, validators[p], "validators")
  /\ UNCHANGED guards

RemoveGuard(p) ==
  /\ Removals
  /\ guards' = RemoveAt(guards, p)
  /\ Splice(p, guards, guards[p], "guards")
  /\ UNCHANGED validators

(* validateBufferSize over the limit records a violation and throws; under  *)
(* the limit it changes nothing.                                            *)
BufferOverflow ==
  /\ RecordViolation
  /\ UNCHANGED <<clock, registry, callVars, audit>>

(* isCircuitBreakerOpen() is public and moves the breaker too.              *)
QueryBreaker ==
  /\ Expired
  /\ IsOpen(FALSE)
  /\ UNCHANGED <<clock, registry, callVars, audit>>

TimePasses ==
  /\ Tick
  /\ UNCHANGED <<breakerVars, registry, callVars, audit>>

CallStep(c) ==
  \/ \E who \in Component, answer \in Answer :
       \/ ValidatorAnswers(c, who, answer)
       \/ ParallelAnswers(c, who, answer)
       \/ GuardAnswers(c, who, answer)
  \/ EndValidators(c)
  \/ EndGuards(c)

CachedResults == {{}} \cup {{r} : r \in [who : Validators, answer : {"allow", "block"}]}

Next ==
  \/ \E c \in Calls : (\E k \in Kinds \ {"cached"} : Enter(c, k)) \/ CallStep(c)
  \/ \E c \in Calls, rs \in CachedResults :
       "cached" \in Kinds /\ NotifyCached(c, rs)
  \/ RunCallback
  \/ \E f \in Callbacks : OnIntercept(f)
  \/ \E v \in Validators : AddValidator(v)
  \/ \E g \in Guards : AddGuard(g)
  \/ \E p \in DOMAIN validators : RemoveValidator(p)
  \/ \E p \in DOMAIN guards : RemoveGuard(p)
  \/ BufferOverflow
  \/ QueryBreaker
  \/ TimePasses

Spec == Init /\ [][Next]_vars

(* Promises of validators and guards settle, unless Hung, and the event     *)
(* loop drains its microtask queue.  Nothing is assumed of the callers.     *)
FairSpec ==
  /\ Spec
  /\ \A c \in Calls : WF_vars(CallStep(c))
  /\ WF_vars(RunCallback)
-----------------------------------------------------------------------------
(* GuardrailEngine.ts:424 "Validate content against all registered          *)
(* validators and guards": an allowed verdict of validate or validateInput  *)
(* means that every component registered for the whole call was asked by    *)
(* this call and answered "allow", whatever was added, removed, answered or *)
(* thrown meanwhile, unless a splice moved an element its iterator had not  *)
(* yet reached to an index it had passed.                                   *)
AnsweredForAll(c) ==
  \A w \in expected[c] : [who |-> w, answer |-> "allow"] \in results[c]

AllowedByRunning(c) ==
  pc[c] = "done" /\ kind[c] \in {"content", "input"} /\ verdict[c] = "allow"

FailClosed ==
  \A c \in Calls :
    AllowedByRunning(c) /\ ~Forced /\ ~overtaken[c] =>
      AnsweredForAll(c) /\ ~Blocked(results[c])

(* Why: while a call runs, each component it owes an answer to has given    *)
(* one, is being asked, is still ahead of the iterator, or is a guard whose *)
(* turn has not come; unless the call is already lost to a block.           *)
Answered(c, w) == \E a \in Answer : [who |-> w, answer |-> a] \in results[c]

Ahead(c, list, w) == \E k \in DOMAIN list : k > idx[c] /\ list[k] = w

Pending(c, list, w) ==
  waiting[c] # {} /\ (w \in waiting[c] \/ (Sequential(c) /\ Ahead(c, list, w)))

Owed(c, w) ==
  \/ Blocked(results[c])
  \/ Answered(c, w)
  \/ pc[c] = "validators" /\ (w \in ToSet(guards) \/ Pending(c, validators, w))
  \/ pc[c] = "guards" /\ waiting[c] # {} /\ (w \in waiting[c] \/ Ahead(c, guards, w))

CoverInv ==
  /\ \A c \in Calls : InFlight(c) /\ ~overtaken[c] => \A w \in expected[c] : Owed(c, w)
  /\ FailClosed

(* The same promise without the exception.  The code does not keep it.      *)
CoversRegistry ==
  \A c \in Calls : AllowedByRunning(c) /\ ~Forced => AnsweredForAll(c)

(* GuardrailEngine.types.ts:139 "Whether to stop execution on first         *)
(* failure": the same for any failure, a thrown error included.             *)
StopsAtFirstFailure ==
  [][\A c \in Calls :
       ShortCircuit /\ Blocked(results'[c]) => waiting'[c] \subseteq waiting[c]]_vars

(* No call gets past the breaker within one timeout of a violation that     *)
(* reached the threshold, however calls, violations and isCircuitBreakerOpen*)
(* queries interleave (GuardrailEngine.ts:434, 578).                        *)
QuietPeriod ==
  [][\A c \in Calls :
       pc[c] = "idle" /\ pc'[c] # "idle" /\ kind'[c] # "cached" /\ verdict'[c] # "block"
         => violationCount < Threshold \/ clock >= lastViolationTime + TimeoutMs]_vars

(* CircuitBreaker.ts:106-116: whichever call closes the breaker, and in      *)
(* whatever state of it that call was admitted, it closes a breaker that    *)
(* has waited a full timeout since the newest violation: the answer of a    *)
(* call from before a trip cannot cut the wait short, although the breaker  *)
(* was asked before the awaits and is reset after them.                     *)
ClosesLate ==
  [][breaker # "CLOSED" /\ breaker' = "CLOSED" =>
       breaker = "HALF_OPEN" /\ clock >= lastViolationTime + TimeoutMs]_vars

(* CircuitBreaker.ts:106 "Resets the breaker after a successful HALF_OPEN   *)
(* validation": the call that closes the breaker was admitted by a          *)
(* HALF_OPEN breaker.  The code closes it for any call that is allowed.     *)
ClosedByProbe ==
  [][breaker = "HALF_OPEN" /\ breaker' = "CLOSED" =>
       \A c \in Calls : pc[c] # "done" /\ pc'[c] = "done" => era[c] = "HALF_OPEN"]_vars

(* What was told of a call, and will be by the callbacks scheduled.         *)
ToldOf(c) == Filter(delivered \o microtasks, Callbacks \X {c})

(* onIntercept (GuardrailEngine.ts:276-297): the callbacks told of a call,  *)
(* in the order they are told, are the first so many registered: none twice,*)
(* none skipped, none out of order; none before the call is over and none   *)
(* for a call an override token let through.                                *)
AuditInOrder ==
  \A c \in Calls :
    LET told == [i \in DOMAIN ToldOf(c) |-> ToldOf(c)[i][1]] IN
    /\ IsPrefix(told, callbacks)
    /\ told # <<>> => pc[c] = "done" /\ ~(kind[c] = "bypass" /\ verdict[c] = "allow")

(* A callback registered while a call is in flight is told of it in the     *)
(* end, also when other callbacks fail and components come and go.          *)
AuditComplete ==
  \A c \in Calls, f \in Callbacks :
    InFlight(c) /\ f \in ToSet(callbacks) ~> <<f, c>> \in ToSet(delivered)

(* GuardrailEngine.types.ts:189 "Maximum time in milliseconds for           *)
(* validation to complete": every call comes back, unless a component whose *)
(* promise never settles is asked by it: nothing in the engine bounds that  *)
(* (validationTimeout is not applied), but nothing else holds a call up.    *)
CallsReturn ==
  \A c \in Calls : InFlight(c) ~> pc[c] = "done" \/ waiting[c] \cap Hung # {}
=============================================================================
