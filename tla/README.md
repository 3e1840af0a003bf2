# BonkLM: a TLA+ development

This directory holds TLA+ specifications of the stateful and concurrent parts of
BonkLM (`packages/core/src`, `packages/bonklm-server`, and the connectors,
middlewares and adapters under `packages/`), TLC configurations that check them
on small instances, and TLAPS proofs of the main theorems for every value of
the constants.  Paths below are relative to `src/packages/`; `core/` stands for
`core/src/`.

## 1. The system

An application hands content (a prompt, an answer, a chunk of a stream, a
retrieved document) to BonkLM, which runs validators and guards over it and
answers *allow* or *block*.  Connectors and middlewares put that judgement in
front of, and behind, the calls of somebody else's SDK or framework.
Everything runs on one JavaScript event loop: what happens between two `await`s
is atomic, and at every `await` anything else may come in.  The hard behaviour
is therefore in what is read before an `await` and used after it, in sequences
of calls on one object that a test does not make, in promises that settle late
or never, in callbacks that come back in, and in clocks.

### Inventory

| Component | State | Operations | Talks to | Hard behaviour | Correct when | Status |
|---|---|---|---|---|---|---|
| Guardrail engine, `core/engine/GuardrailEngine.ts` | arrays of validators, guards and callbacks; breaker; per call: iterator, results | `validate`, `validateInput`, `notifyCachedResult`, `add*`/`remove*`, `onIntercept`, `validateBufferSize` | validators and guards (awaited), breaker, callbacks (microtasks) | live arrays spliced during a loop; answers in any order; throws; a promise that never settles | an allowed verdict covers the registry; callbacks are told once and in order; calls return | modelled |
| Engine breaker, `core/engine/CircuitBreaker.ts` | state, count, two times | `isOpen`, `recordViolation`, `resetIfRecovering` | engine; the clock | lazy transitions; violations while open | an open breaker waits its timeout out | modelled |
| Stream validator and release gate, `core/connector-utils` | accumulator, byte and chunk count, blocked, two finalised flags, gate buffer | `process`, `finalize`, `processForClient`, `finalizeForClient`, dispose | engine (awaited), `onBlocked` | overflow in the middle, engine throws, callback throws, calls after the end | nothing is released unjudged; the schedule has no hole; a refusal is final | modelled |
| Client-safe stream gate, `core/connector-utils/client-safe-stream.ts` | held native chunks, finished, errored | `push`, `finish` | stream validator | chunks without text; overflow; the end | implements validate-before-release; loses nothing | modelled |
| Fault-tolerance breaker and retry policy, `core/fault-tolerance` | state, statistics, half-open count, timers; attempts and delays | `execute`, `open`, `close`, `reset`; the attempt loop | the wrapped function, listeners | requests admitted in one state end in another; an attempt that timed out settles during the next | the counters balance; recovery is earned; calls end | modelled |
| Server authentication, `bonklm-server/src/hmac`, `auth/request.ts` | replay cache (ordered map) | parser and hook authenticate, `claim`, pruning | clock | retention against acceptance at the edges; cache full; two entrances | a signature is accepted once | partly: the bearer route has no state |
| Shadow log, `core/shadow-log` | entries per room, lock per room | `append`, `verifyChain`, eviction | storage adapter (awaited) | overlapping appends, failing storage, limits | the chain verifies; limits hold; locks are handed on | modelled |
| Session tracker, `core/session/SessionTracker.ts` | sessions, access order, decayed weights | updates, fragments, reads with decay, reset, sweep | validators, middlewares | decay stored on read, LRU with expiry | map and order agree; only silence weakens, a decay a step | partly: the slow-drip history |
| Override tokens, `core/security/override-token.ts` | used tokens | validate, mark used, sweep | engine | sweeping against freshness at the edges | a token works once, but at one edge | modelled |
| Rate limiter, `core/security/rate-limiter.ts` | windows | check, purge, reset | hooks, connectors | two windows that meet | at most twice the limit in any span | modelled |
| Cached validation, `core/engine/cached-validator.ts` | an LRU or an adapter's entries | `cachedValidate` | adapter, validators | adapter fails in the middle, stale and foreign entries | verdicts answered are recent and one's own | modelled |
| Hook manager, `core/hooks` | live hook arrays, rate limit | register, unregister, clear, execute | hooks | the array changes under the loop; a hook answers after its timeout | each hook that stays runs once | partly: not the VM sandbox |
| Audio-stream validator, `core/validators/audio-stream.ts` | gate, automaton node, finals | partials, final pass, reset | validators | needles cut up by partials; partials during the final pass | an early block is exact | modelled |
| Telemetry, `core/telemetry` | buffer, collectors, shutdown flag | record, flush, add, remove, shutdown | collectors that come back in | a collector enters `flush` again | an event arrives once | partly |
| Composite validators, `core/validators/{retrieved-doc,memory-write,tool-call,composed-context}*.ts` | none between calls; the cache of upstream bodies | `validateBatch`, writes, calls, contexts | a chain of validators | redactions that alter one another's matches | what the chain refuses survives in no disguise | partly |
| Pattern validators, guards | none (lastIndex of a pattern) | `validate` | engine | hits that hide one another; check digits | more hits are never judged milder; a mistyped digit is caught | partly: verdicts and check digits |
| Streaming loops of the connectors | accumulator, count | one generator, callback or pull handler each | provider's stream, engine | chunks that go out between judgements; the tail; back-pressure | the leak is bounded; the end is judged; a reader is served | modelled |
| Single calls of the connectors (models, agents, memories, tools, sandboxes, routes, ingest) | none | the gates of one call | SDK, engine, `validateWithTimeoutSecure` | many pieces, several gates | only what was accepted goes on | partly |
| Web-framework middleware | per request; the session's weight | middleware, reply wrapping | framework, session tracker, engine | overlapping requests of a conversation; replies begun already | findings stay below the threshold; refused replies stay in; requests are answered | modelled |
| Vector-store connectors | none | query, write | store, batch validator | columns filtered apart | columns agree, but embeddings; what is returned was accepted | modelled |
| Workflow runtimes | the runtime's journal, verdict cache | the guarded run | Inngest, Restate, Temporal, Trigger.dev | crash and retry after the verdict | the attempts of a run act on one verdict; refused runs end | partly: the input side |
| Command line and wizard, `core/cli` | the `.env` file, audit entries | add, remove, wizard | file system, the user | commands overlap, fail or are stopped | a command undoes and alters no more than it read before others wrote, and quotes | partly: the rewriting commands |
| Attack logger; logging and redaction; configuration and codecs; elizaOS sealed memory; voice adapters | - | - | - | - | - | not modelled, see section 5 |

`PROJECT.json` gives each component its files, its modules and why what is left
out is left out, and lists the hazards at their lines with the properties that
would catch them.

## 2. Modules

| Module | Models | Built on |
|---|---|---|
| `EngineBreaker` | the engine's breaker and the clock; also the abstract specification `BreakerSpec` | - |
| `GuardrailEngine` | calls in flight, live registry, callbacks | extends `EngineBreaker`: the engine's actions are joined with the breaker's |
| `StreamValidator` | accumulator and release gate in both lifecycles | - |
| `ClientSafeStream` | the gate of native chunks | extends `StreamValidator`: `push` and `finish` are joined with the validator's actions |
| `ValidateBeforeRelease` | the abstract promise of the streaming lifecycle | instantiated by `ClientSafeStream` under a refinement mapping |
| `FaultBreaker`, `RetryPolicy` | `execute` for overlapping requests, timers, manual transitions; the attempts of a call, each a request of the breaker | `RetryPolicy` extends `FaultBreaker` |
| `ServerAuth` | verification, replay cache, two entrances | `Clock` |
| `ShadowLog` | `append` under its locks, both eviction policies | - |
| `Clock` | the one clock of the services | - |
| `SessionTracker`, `OverrideToken`, `RateLimiter`, `CachedValidator`, `HookManager` | the services of the core that keep state and look at the clock | `Clock` |
| `AudioStream`, `Telemetry` | a voice session's transcript; the telemetry service with collectors that come back in | - |
| `CheckDigits` | the checksums of the guard for personal data | - |
| `Composites` | retrieved documents, memory writes, tool calls, composed contexts through a chain of validators | - |
| `Verdicts` | from the hits of fourteen validators and guards to their verdict | - |
| `ProviderStreams`, `PullStream` | the streaming loops of ten connectors as one machine with a record each; the pull handlers under back-pressure | - |
| `GuardedCalls` | the gates of one call through a wrapper, a record per wrapper | - |
| `VectorStores` | queries and writes of six stores, a record per connector | - |
| `WebMiddleware` | eight middlewares, a record each, over overlapping requests | - |
| `DurableRuns` | a guarded run under four runtimes and without one, with crashes and retries | - |
| `EnvFile` | the commands that rewrite `.env` | - |
| `MCEngineScenarios` | two scenarios of the engine in one instance: a registry that changes, callbacks | `GuardrailEngine` |
| `MCEngine`, `MCStreamValidator`, `MCShadowLog` | chunks, symmetry and properties of their runs | the module of their name |
| `MCServices`, `MCIntegrations`, `MCCalls` | several components in one instance | extend the components |
| `Filters` | what `Array.prototype.filter` keeps of an array | - |
| `FoldLemmas` | lemmas: induction over naturals, sums, filters, least numbers, sequences without repetition, flattened and reversed sequences | - |
| `GuardrailEngine_proofs`, `ClientSafeStream_proofs`, `ValidateBeforeRelease_proofs`, `ShadowLog_proofs` | theorems | the module of their name |
| `Services_proofs` | theorems on session tracker, tokens, limiter, cache, hook manager, server authentication, check digits, audio stream, telemetry | these modules, which share only the clock |
| `Integrations_proofs` | theorems on stream loops, pull handlers, single calls, vector stores, `.env` commands, composites, verdicts | these modules |
| `Calls_proofs` | theorems on fault breaker and retries, web middlewares, durable runs | these modules |

The composed MC modules have a variable `subject`: a behaviour exercises one
component and leaves the others, which share nothing with it but the clock, in
one initial state in which no action with fairness is enabled.  A component's
properties then mean in the composition what they mean by themselves.

Definitions named in comments as *mutants* stand beside the definition they
alter: each is that definition with one plausible bug, and the run that checks
a property must find it violated when the mutant takes the definition's place.

### How the models correspond to the code

**Engine.** A call is in one of the phases `idle`, `validators`, `guards`,
`done`.  `Enter` is everything up to the first await: the breaker's check, the
override token, the first validator asked (or all, under
`executionOrder: 'parallel'`).  `ValidatorAnswers`, `GuardAnswers` and
`ParallelAnswers` are the continuations after an await, where an answer is
`allow`, `block` or a throw (which the code records as a blocking result).
`idx` is the position of the `for...of` iterator over the *live* array;
`RemoveValidator` and `RemoveGuard` splice that array and leave `idx` alone, as
JavaScript does.  `EndValidators` and `EndGuards` are what runs between the last
answer and the next await or the return.  `RunCallback` runs one microtask.
`BufferOverflow` and `QueryBreaker` are the public methods that move the
breaker.  History variables (`expected`, `overtaken`, `era`) observe; no guard
reads them.  Scores, findings, texts and timings are left out: of the aggregation
the verdict is kept.  Component names: an instance is registered at most once
at a time.

**Streams.** A chunk is told by its number and by what the code's conditions
look at: how many characters of each UTF-8 width, and whether it ends a
sentence.  Every public call up to its await is an action, `EngineAnswers` is
the rest.  Calls are serialised, as `StreamValidator` requires of its callers,
but come in any order, also after errors and after the end.

**Breaker and retries.** A request is admitted by `Execute` and ends in
`Succeeds`, `Fails` or `TimesOut`, in whatever state the breaker is in by then.
Timers are counters of ticks.  Statistics are kept exactly, with the rounding of
the percentage.  A call of `RetryPolicy` is a loop of attempts; what an attempt
that timed out does later is the breaker's business no more.

**Server.** A request bears a signature (timestamp, body); requests may bear
the same one.  `Parse` and `PreHandler` are the two entrances.  The replay
cache is a set of entries with a rank, the insertion order of the JavaScript
`Map`.  `Slack` is the time that may pass between the two clock reads of one
verification.

**Shadow log.** `append` awaits the storage at every step; two calls that only
read the same room are one step, since the room's lock keeps them together.
`HoldsLock` is the head of the promise chain of a room.  A digest is what it is
computed from, so `prevEntryHash` is the sequence of contents hashed into it.
`Reject` is a rejection at any await, as a durable adapter may give.  `createdAt` is
taken to follow the order of storing, so the sort in `verifyChain` changes
nothing.

**Services.** Every method of the session tracker, the tokens and the limiter is
synchronous, so one call is one action; the map and the access order of the
session store are kept apart, as the code keeps them.  A tick of the tracker is
the half-life of a weight.  A sweep deletes the first `SweepCap` expired sessions.
`CachedValidator` has an action per await: digest,
cache, validator, cache again.  `HookManager` keeps the array an execution walks
by reference, so that a registration or removal moves hooks under its index and
a cleared registry leaves it its own array.  `AudioStream` builds the Aho-Corasick
automaton as the code does and remembers, as history, what it was fed.
`Telemetry` is a stack of frames: a collector that is handed an event may record,
flush or shut down before it returns; a collector that was added is in the array
once.

**Judging.** `CheckDigits` computes each checksum on sequences of digits.
`Composites` takes a text as a short sequence of letters and a validator as its
needle, whether it redacts, and what its refusal shows, which is the beginning
(`MaxShown`) of a long match; the entries of a context are joined with a blank
line.  Redaction is the
replacement of every occurrence from the left, as `replace` with a global
pattern and `split` with `join` do it.  A needle does not contain the
replacement.  The code skips only a match that equals it
(`validator-utils.ts:156`); a validator that refused a part of the replacement, or
text around it, would find it again in every redacted document.  `Verdicts` starts where the patterns have been found: a hit is
a pattern in one of the text's views.

**Connectors.**  Loops, wrappers, stores and middlewares that differ in the same
few respects are one machine with a record for each function of the source; the
fields of a record are the conditions its code makes or leaves out, and `map`
names the lines of each record.  In `VectorStores` the embeddings of Chroma's
answer are a column of their own, which is never filtered.  In `WebMiddleware`
a reply may be an object of which Nest's extractor gives the engine nothing, and
`timed` tells the middlewares that give a judgement up after a time.  What tells two connectors apart in wording,
types or mapping of fields is left out.

**The `.env` file.**  A variable stands in the file plainly, in quotes, without the
quotes that it needs, cut, or so that it cannot be written.  `Parsed` is what
dotenv reads of that and `Formatted` what `KEY=value` makes of it: what was in
quotes loses them when any command writes, and is cut when the next one reads.
A command reads, waits, and renames its own file over what is there.

## 3. Runs

| Run | Question | Bounds | Answer |
|---|---|---|---|
| `engine_scenarios` | does an allowed verdict cover the registry, do calls return, while components come and go and one never settles; is every callback told once, in order, and in the end? | 1 call, 3 validators, 1 guard, add and remove at every await; 2 calls, 2 callbacks registered at any time, bypassed, refused, cached calls | yes, unless a splice overtook the call's iterator, or a call asks the component that never settles |
| `engine_admission` | does the breaker hold its timeout against overlapping calls, all validators at once, and does whichever call closes it close it late enough? | 2 calls, threshold 2, timeout 2, 4 ticks, 3 violations | yes |
| `services` | session store, tokens, limiter, verdict cache, hooks, audio, request authentication, stream validator, telemetry, check digits: each over every order of its calls | per component, below | yes; a used token is accepted again at one edge, in the way the property names, and the limiter bounds a span by twice its limit |
| `integrations` | stream gate, streaming loops, pull handlers, single calls, vector stores, shadow log, `.env` commands, composites, verdicts | per component, below | yes, for the loops and stores as their records are, but for the exceptions that the properties name; a content that comes back in the log is the exception named |
| `calls` | retries through the breaker, web middlewares, durable runs, with liveness | 2 clients of 2 attempts and 4 counted requests; 2 requests of 1 conversation through 8 middlewares; 2 runs, 1 crash, 1 failure | yes, but for what is named: Express, Nest's objects, engines without a timeout |
| `engine_splice` | does an allowed verdict cover the registry without the exception? | 1 call, 2 validators | **no**, see section 6 |
| `stream_callback` | is a refused stream blocked when `onBlocked` throws? | 3 chunks | **no** |
| `shadow_chain` | does an untouched room verify when a content comes back? | 3 appends | **no** |
| `pull_buffer` | is every reader served, buffer mode included? | 5 chunks | **no** |
| `session_halflife` | is half of a weight left for each half-life of silence? | 4 calls, 2 ticks | **no** |
| `rate_window` | does a span as long as a window hold the limit? | 4 ticks | **no** |
| `redact` | is a refused row redacted in redact mode by every connector? | 2 rows | **no** |

What the properties of the composed runs say:

- *Services.* `StoreAgrees`: session map and access order; `FadesOnlyInSilence`: one
  step takes no more of a conversation's weight than one decay over its silence,
  whatever is called (reads in a row do take the same silence off again, which
  `session_halflife` shows);
  `AcceptedTwiceOnlyAtEdge`; `AtMostTwiceTheLimit` in any span of a window;
  `VerdictsAreRecent`: within their time to live, and of the validator asked;
  `HooksRunOnce`; `EarlyBlockExact`: a voice session is cut off exactly when a
  critical needle is in what was released; `AcceptedOnce`; `ReleasedWasAllowed`,
  `ScheduleCovers`; `EventsArriveOnce`; `SlipsAreCaught`: one digit mistyped, and
  under a prime modulus two neighbours swapped, never give another valid
  identifier, but for the check digit that two Portuguese remainders share.
- *Integrations.* `NoChunkLost` and `ValidatesBeforeRelease` (the refinement) of
  the gate; `LeakIsBounded`, `EndIsJudged`, `RefusalIsFinal` of the loops;
  `ReaderIsServed`; `OnlyAcceptedGoesOn` of the single calls; `ResultsAgree` of
  the stores; `ChainVerifies`, `TotalOvershoot`, `LockHandedOn` of the log;
  `ChangesItsOwnOnly` of the commands: all that a command undoes is what others
  wrote after it read, and all that it alters are quotes; `NothingRefusedSurvives`
  of the composites, up to the part of a match that a finding shows;
  `NeverMilder`: a text with more hits is not judged milder.
- *Calls.* `RecoveryIsEarned`, `BooksBalance`, `CallsEnd`;
  `ConversationStaysBelow`, `RepliesAreJudged`, `RequestsAreAnswered`; `OneVerdict`,
  `RunsEnd`.

**Why the bounds are enough.**  In the engine two components are needed for a
splice to overtake an iterator, three for one to be overtaken while another is
still ahead and one has answered.  A call's progress does not depend on other
calls but through the breaker and the callback queue, so the scenario of the
registry takes one call and the others two.  The two scenarios of
`engine_scenarios` are its `CONSTRAINT`, a predicate on who calls and registers
what: every continuation of a call and every microtask from a state that meets it
leads to one that does, so that fairness and liveness mean what they mean without
it.  In `engine_admission` the clock outlasts a
trip, its timeout, a second trip and part of its timeout.

In `services`: three sessions over a store of two make an eviction, four calls
and two ticks an expiry, a sweep, one that is capped, and a decay between them; three tokens over a
replay cache of two, with a lifetime of two and stamps ahead of the clock, reach
every edge of the sweep; six ticks are three windows of the limiter; one entry
in the cache makes two calls evict each other's; three hooks, one disabled, are
one behind and one ahead of an index; six letters hold needles that overlap and
are cut up; six ticks pass the longest retention of a signature, so a pruned one
is offered again; five chunks with a limit of eight bytes make an overflow, a
release by size, one by sentence and a tail off the interval; three events over
a buffer of two flush in the middle of a flush; serial digits 0, 5 and 9 are the
two ends and the one whose double has two digits.

In `integrations`: six chunks pass an interval of two or three, and a text of
that length overflows; four appends over two rooms of two with a total of two
refuse, evict and overshoot the total (`shadow_chain` takes rooms of three, and
the theorems every size); two commands over two variables, one of which stands in the file so that it
cannot be written back, and a third of no connector, in quotes;
two validators, of four kinds with needles that overlap, exceed what is shown or
reach over the end of an entry, and three parts are a
part between two others, of which the oldest may not fit; two hits over four patterns pass the secret guard's
limit of one.  In `calls`, four counted requests are twice the volume threshold,
where the counters are cleared.  Bounds are constants (`MaxClock`,
`MaxViolations`, `MaxChunks`, `MaxTotal`, `MaxCalls`, `MaxHits`, ...) or
`Horizon`, the last instant of each service; nothing in a property depends on
their value.

**Symmetry** is declared only in runs without liveness properties
(`engine_admission`, `integrations`, `shadow_chain`).

**Deadlock** checking is off: every system here may come to rest (all calls
made, all chunks fed); that it does not rest too early is what the liveness
properties and `NoChunkLost`, `LockHandedOn`, `ReaderIsServed` say.

**Fairness.**  `FairSpec` (engine) assumes that the promise of every component
outside `Hung` settles and that the event loop drains its microtasks; it
assumes nothing of callers, registrations or time.  The code depends on exactly
this: `docs/architecture.md` leaves timeouts to the connectors.  `engine_scenarios` has
a component in `Hung`: the calls that wait for it are the ones `CallsReturn` excuses.  `RetryFairness` assumes that time
passes, that expired timers fire and that the loop of attempts goes on, which
the runtime guarantees; it does not assume that the wrapped function settles,
which is what the breaker's timeout is for.  `WebFairness` assumes that a
judgement ends in Express, Fastify and Nest, which give it up after a time, and
that the application's handlers answer; of a judgement in Hono, Elysia and
Next.js, which await the engine as long as it takes, it assumes nothing, and
`RequestsAreAnswered` says so; `DurableFairness` that the runtime goes on with each run it has not
ended, and nothing about crashes.  The other modules make safety claims only
and assume no fairness.

## 4. Proofs

All theorems hold for every value of the constants that satisfies the named
`ASSUME` of the module; their proofs are checked to the last leaf.

| Theorem | Says | Argument |
|---|---|---|
| `BreakerInvariant`, `OpenLastsATimeout` | state, count and times agree; an open breaker waits its timeout out | `CountTracksState` with the types is inductive |
| `EngineQuietPeriod`, `EngineClosesLate` | nothing is admitted within a timeout; whichever call closes the breaker, of whatever era, closes it from half-open and after a timeout | every engine step is a breaker step or leaves it alone (the lemma `EngineDrivesBreaker`, which holds by how the models are joined); so the breaker's invariant `CountTracksState`, which relates its state to the clock and the newest violation, is the engine's |
| `EngineTypeCorrect` | types, no component registered twice, a verdict exactly when the call is over | inductive with facts on `RemoveAt` and `Append` of injective sequences |
| `EngineFailClosed` | an allowed verdict covers every component registered for the whole call | `FailClosed` says nothing of a call that still runs, so it is not inductive; `CoverInv` adds where each component the call owes an answer to is: answered, being asked, ahead of the iterator, or a guard whose turn has not come. A splice in front of the iterator would break it, hence the exception `overtaken` |
| `ReleasedWasAllowedTheorem`, `RefusedIsBlockedTheorem`, `ScheduleCoversTheorem` | what the stream validator hands out was allowed, a refusal is final, no chunk escapes the legacy schedule | `StreamInv`: the lifecycle owns its buffers (`LifecycleOwns`), and while the stream is open what was handed out with what is held is what the engine is asked about (`NothingAside`). Assumes that `onBlocked` does not throw |
| `GateValidatesBeforeRelease`, `GateLosesNothing`, `GateMirrorsPending` | the gate implements `ValidateBeforeRelease`, loses nothing | `GateInv`: while the gate is open, delivered with held chunks is what arrived, and the text in the held ones is what the validator's gate holds. Assumes that `onBlocked` does not throw |
| `PromiseKept` | `ValidateBeforeRelease` delivers in order and nothing unjudged | with the refinement, so does the gate |
| `ServerTypeCorrect`, `SignaturesOutlive`, `PruningIsComplete` | a signature is remembered while its timestamp is acceptable; no expired entry stays | `KeepInv`: accepted signatures are in the cache until they expire, entries outlive their timestamp, insertion order is expiry order |
| `NoSecondAcceptance` | no signature is accepted twice | from `KeepInv`, when `Slack = 0`: retention exceeds the acceptable age by one millisecond, so a verification whose two clock reads are further apart may find the entry gone |
| `ShadowTypeCorrect`, `ShadowChainVerifies`, `ShadowRoomCapped`, `ShadowNoFalseAlarm`, `ShadowLockHandedOn` | the shadow log's chain, cap, re-validation and lock | `ShadowInv`: the lock's queue is injective and holds only running appends; whoever is past its first await is its head; so (`Fit`) the link it computed is still the right one, the room it counted still has a place, the entry it wrote is still the last. For the lock itself the converse (`Waiting`): whoever runs is in its queue |
| `ShadowTotalOvershoot` | refused writes leave the total at most one entry per other room above its limit | the entries are a sum over rooms; an append past its counting step owns its room's lock, so each room adds at most one entry to the total that was counted |
| `EngineAuditInOrder` | callbacks are told of a call in order of registration, once, and only of judged calls that are over | the queue of microtasks, filtered by call, is a stretch of the callbacks the call saw when it ended |
| `StoreAlwaysAgrees`, `OneDecayAStep` | map, keys and order of the session store name the same sessions, for a store of any size and any cap of the sweep; one step takes no more of a weight than one decay over its silence, unless the session has timed out, is reset or evicted | `SessionInv`: one lemma per operation of the store (lookup, put, eviction, deletion), each keeping the three in agreement; a sweep takes expired sessions only |
| `TokensAreUsedOnce` | a second acceptance bears a stamp not before the first use | `TokenInv`: until its edge a used token is in the replay cache, whatever the sweep or an eviction took |
| `LimitHoldsTwiceAtMost` | at most twice the limit in any span of a window | `RateInv`: what was allowed within a span lies in two windows at most, and an entry counts what its window allowed |
| `CachedVerdictsAreRecent` | one verdict per validator, its own, and recent | `CacheInv`: entries fit their key unless an adapter gave them, and a call's results say when theirs was stored |
| `HooksRunOnceHolds` | each enabled hook that stays runs, once, unless the array moved under the loop | `HooksInv`: what an execution ran are the enabled hooks up to its index of the array it walks, up to what came in or went while it did |
| `EarlyBlockIsExact` | the early block is up exactly if a critical needle lies in what was released | correctness of the Aho-Corasick automaton as it is built: a failure link is the longest shorter node that a node ends with (by depth), a step leads to the longest node the text ends with, the outputs of a node are the needles it ends with; so a needle is reported at the letter it ends at |
| `TelemetryArrivesOnce` | each event reaches a buffered collector once or is on its way to it, however calls nest, and none is left behind by its shutdown | `TeleInv`: what has come to a collector is split, without a repeat, into what it got, its buffer, and the rests of the deliveries on the stack; the flattened stack changes at its top only |
| `RecoveryIsAlwaysEarned`, `BooksAlwaysBalance` | a half-open breaker has seen no failure and is short of closing; counters lose and double no request | `FaultInv`, for any listeners; the books assume that the listeners of a success and of a closing do not throw, which section 6 shows to be needed |
| `ConversationsStayBelow`, `RepliesKeepBadPartsIn` | what an application saw of a conversation stays below the threshold; refused replies stay in, except in Express and but for the objects Nest does not see | `WebInv`: the session is charged in the step that hands a request on, so what was seen is in the risk of the next |
| `RunsGetOneVerdict` | all attempts of a run act on one verdict | `DurableInv`: journal and cache hold one entry under a key, and what an attempt acts on is in it |
| `LeaksAreBounded`, `EndsAreJudged`, `ProviderRefusalIsFinal` | what a stream loop passes on unjudged is bounded by its interval; a clean end was judged; a refusal is final | `StreamsInv`: while a stream is open, what is still due since the last judgement is below the interval; sums over the chunks |
| `PullServesReaders` | while a reader waits, a pull is under way | `PullInv`: who waits finds nothing queued |
| `CallsAreJudged` | what goes on was accepted by every gate that reaches its kind | `CallInv`: what is past a gate was settled there, what does not go on was refused |
| `AnswersAgree` | a store's answer is what was allowed, in order; the distances, and the metadata of documents that all have some, fit it, Chroma's embeddings exactly if nothing was dropped | `StoreInv`, phase by phase: the rows kept so far are those allowed so far, in order |
| `CommandsKeepToTheirOwn` | what a command leaves is its own entries and, of every variable nobody changed since it read, its value as dotenv reads it, without quotes | `EnvInv`: what a command is about to write is the file as it was read with its own change, but for what others moved since |
| `VerdictsNeverMilder` | a text with more hits is judged no milder, by any of the fourteen validators and guards | a lemma per validator; a synonym that is hidden has an original that weighs no less and is none itself (`VerdictsAssumption`); the first secret found has the highest level, and the limit keeps it |
| `SlipsAreAlwaysCaught` | no number that differs from an issued one in one place, or under a prime modulus in the order of two neighbours, is accepted | a theorem per scheme and kind of slip, for every number and not only for those of the model (`LuhnCatchesSlips` for any of 13 to 19 digits, `IbanCatchesSlips` and `IbanCatchesSwaps` for any length, `NhsCatchesSwaps` ...): a weight that has no factor in common with the modulus, or Luhn's doubling, is injective on digits, and the other terms cancel; the remainders of an IBAN that once differ differ to the end, since ten is invertible modulo 97 and the groups do not change a remainder |
| `NothingRefusedEverSurvives` | what a chain refuses survives neither as document, memory or argument nor across two neighbours of a context and the blank line between them; a redacted text bears no redacting needle, nor the beginning that a finding shows of a match | `PartsInv`: so far, what is let through is what was accepted, or is cleared. A replaced text has the needle nowhere and no needle that was not there (`ReplacedFacts`): what it has without the replacement stood in the text, and a needle bears no replacement; so no later redaction brings back what an earlier one removed. A dirty body is cited first where few are before it; neighbours, with the separator between, lie side by side in the joined context |

Assumptions: the constants' `ASSUME`s, among them a last instant of the clock
(`ClockAssumption`), finitely many requests and validators (`WebAssumption`,
`CacheAssumption`), needles that are not empty (`AudioAssumption`), a wrapper for
each given collector (`TelemetryAssumption`), pattern tables in order of level
whose synonyms weigh no more than their originals (`VerdictsAssumption`), needles
without the replacement in them (`CompositesAssumption`), any file to begin with
(`EnvAssumption`); a monotone clock; and the hypotheses that the table states.  Where a definition computes over data (sums, filters, the automaton's
tables), the proofs go by induction over natural numbers, as membership of every
number in a set (`NumbersByInduction`).

Only model-checked: all liveness (`CallsReturn`, `AuditComplete`, `CallsEnd`,
`RequestsAreAnswered`, `RunsEnd`), since the prover has no rule for fairness and
`ENABLED`.  Every other property of a passing run is stated by a theorem.  Proved
and in no passing run: `RefusedIsBlocked` (`stream_callback` refutes it where `onBlocked`
throws), `CountTracksState`, `BreakerTypeOK`, `ServerTypeOK`, `OutlivesTimestamp`,
`PruneIsComplete`, `HeldMirrorsPending`, the cap of a room and the re-validation
of the shadow log.  No module declares a `RECURSIVE` operator.

## 5. What is not modelled

Pattern tables, normalisation, entropy and scores (a model would repeat them; the
engine quantifies over every answer they can give, and `Verdicts` over every set
of hits); what of a text excuses a hit; logging and sanitising, configuration
schemas, base types and codecs, which convert one value; the attack logger, which
puts each callback's event into an LRU of the `lru-cache` library; the sealed
memory of elizaOS, whose seals are digests of one record; the voice adapters,
whose session is LiveKit's and whose webhooks compare one digest; prompts and
detection of the wizard; the VM of the hook sandbox, a library's; the walk
through a tool call's arguments and custom serializers; filters and field
selection of the vector stores; headers, paths and the wording of responses.

By lines, most of the repository is what a model abstracts or does not need:
tests and the user-acceptance suite, tables of patterns, type declarations, the
wizard's dialogues, error texts and the conversion between vendors' shapes.  The
map therefore names about an eighth of its lines; what has state, order or
failure is in it.

One instance registered twice, and a caller that overlaps calls on one
`StreamValidator`, are outside the models: the first changes no verdict, the
second is forbidden by the class.

## 6. What the code does otherwise than it says

Shown by runs of their own:

1. `engine_splice`: `removeValidator` splices the array that an in-flight
   `validate()` iterates.  Removing an element the iterator has passed makes it
   skip the next one, which stays registered and is never asked; the call still
   allows (`GuardrailEngine.ts:675`).
2. `stream_callback`: an `onBlocked` that throws keeps `markStreamBlocked` from
   being reached, twice; a later chunk can be released
   (`stream-validator.ts:558`).
3. `shadow_chain`: `append` looks its predecessor up by content and finds the
   oldest entry with it.  A content logged twice makes the next link wrong, and
   `verifyChain` reports an untouched room as broken (`shadow-log.ts:131`).
4. `pull_buffer`: the pull handler of buffer mode takes a chunk, hands none on and
   returns, so the platform has no reason to call again
   (`guarded-ai.ts:434`).
5. `session_halflife`: a read stores the weight it has decayed and leaves
   `last_updated`, so each further read takes the same silence off again; "After
   10 minutes, accumulated weight decays to 50%" holds for a conversation that is
   read once (`SessionTracker.ts:262`, `:20`).
6. `redact`: the batch helper keeps the original match of a document that
   survived by redaction (`retrieved-doc-batch.ts:104`); only the Chroma
   connector takes the redacted text.
7. `rate_window`: the windows of the limiter are fixed, one after another, and a new
   one forgets what the old one allowed at its end, so a span as long as a window
   can hold twice the limit (`rate-limiter.ts:127`); `:8` says "Sliding window
   algorithm for accurate rate limiting" and `:24` "Maximum number of requests
   allowed in the time window".

Stated in the modules, and reproducible with the constants given, without a run:

| Definition | Statement of the code | Why it does not hold |
|---|---|---|
| `ClosedByProbe`, constants of `engine_admission` | `CircuitBreaker.ts:106` "after a successful HALF_OPEN validation" | any allowed call closes the breaker, also one admitted before the trip |
| `StopsAtFirstFailure`, constants of `engine_scenarios` | `GuardrailEngine.types.ts:139` "stop execution on first failure" | a validator that throws is recorded and the loop goes on; only `validateInput` stops |
| `CallsReturn` without its exception | `GuardrailEngine.types.ts:189`, a maximum time | `validationTimeout` is stored and never applied |
| `ByteSizeIsUtf8`, constants of `stream_callback` | `stream-validator.ts:290-291`, "accurate byte size in UTF-8" | an astral character counts six bytes; the error is on the safe side |
| `HalfOpenLimit`, constants of `calls` | `CircuitBreaker.ts:34`, requests allowed in half-open | `halfOpenMaxRequests` counts successes; admissions are not bounded (also in the Mastra breaker) |
| `PercentInRange`, constants of `calls` | `CircuitBreaker.ts:30`, percentages in 0-100 | requests that outlive a clearing of the counters fail against a smaller total |
| `BooksBalance`, `Throwing = {"onSuccess"}` | one outcome per request | a listener that throws sends `execute` into its catch block, which counts a failure on top of the success (`CircuitBreaker.ts:154`) |
| `ResponsesAreValidated`, `Deployed = {"express"}` | `express-middleware/README.md:52`, outgoing bodies are validated | with `validateRequest` on, `middleware.ts:573` returns before the wrapping at 578 |
| `ResponsesAreValidated`, `Deployed = {"nest"}` | `nestjs-module/README.md:3`, request and response validation | the replacer of `guardrails.interceptor.ts:528-536` puts `"[Circular]"` for the object itself, so a reply that is an object without a text among its common fields is judged as that constant and sent; request bodies of that kind likewise (`:458-469`), and an empty extraction passes (`:277`) |
| `EveryBodyIsThere`, constants of `calls` | `hono-guardrails.ts:63-64`, the handler behind the middleware reads `c.req.json()`; `body-extractor.ts:63` | the Hono middleware reads the body to its end and hands the same request on (`body-extractor.ts:106`) |
| `RequestsAreAnswered` without its last exception | `hono-guardrails.ts:163`, "Engine errors — TIMEOUT" | nothing times out: Hono (`:147`, `:156`), Elysia and Next.js (`run-validation.ts:60`) await the engine, which races nothing |
| `OthersKeepTheirValues`, constants of `integrations` | `env.ts:173`, "merges with existing values" | values are written as dotenv parsed them, without the quotes that spaces, quotes or `#` need (`:158`, `:504`), and the next command reads them cut; and a command undoes what others wrote after it read |
| `BufferedRepliesAreSent`, `Deployed = {"express"}` | `types.ts:61`, "validate, then send" | a refused buffered reply goes round through the wrapped `send` |
| `ColumnsAgree`, constants of `redact` | `guarded-chroma.ts:610`, accurate mapping | documents without metadata are left out of that column (`:524`); embeddings are not filtered (`:606`) |

Read in the code and not checked.

*Core.*  Drop-oldest evicts the genesis entry (`shadow-log.ts:261`), so the rest
of the room no longer verifies, and evicts from the writer's room, which may be
empty when only the total is full; the map of room locks keeps an entry per room
for ever, as `shadow-log.ts:106` compares with a promise made afresh;
`shadow-log/types.ts:137-140` says that `verifyChain` walks the pointers whatever
the order, while it sorts by `createdAt`.  `HookSandbox` clears its timer
(`:628`) before an asynchronous result settles, contrary to `:614-616`.  In
telemetry, `removeCollector` never finds the original of a wrapped collector
(`:239-248`, `:481-486`), an added collector is unbuffered, a removal inside the
loop skips a neighbour, a nested flush delivers the later events first
(`:187`), and the rejections of asynchronous collectors are not caught.  In the
fault-tolerance breaker a success of a request from before the opening, which
ends while half-open, counts as a probe.
`env.ts:204-206` calls the write atomic, but `verifyPermissions` throws after
the rename, and the audit entry of `add` fails after the write.

*Verdicts.*  Prompt injection, code injection and path traversal do not ask the
configured `action`; a jailbreak session counts only beside pattern findings
(`jailbreak.ts:642`), and a refusal it causes can have severity INFO; boundary and
multilingual findings of level INFO are reported as WARNING; patterns of
`allowlistedPatterns` with a `g` flag keep `lastIndex` between calls
(`code-injection.ts:576-577`); inputs too long for prompt-injection and jailbreak
are let through although `prompt-injection-dos.test.ts:104-110` says "rejected";
fake-data and context checks look at the first occurrence of a repeated line
(`pii/index.ts:92`, `:122`); redaction before the pattern cache is loaded returns
the text as it was, which is documented.

*Composites.*  A finding shows 100 letters of a match (`detection.ts:103`), so a
longer match leaves its tail in a redacted text.  In redact mode a refused document or memory is kept without being
judged again: what a later validator of the chain would refuse survives, and so
does one whose refuser threw or masked its match without redacting
(`retrieved-doc.test.ts:431-440` expects it); of a composed context the entries
the cap drops are not judged and the newest is admitted whole; arguments below
the depth limit only warn; upstream bodies beyond the cache's or the re-scan's
limit are not judged again.

*Connectors.*  Qdrant's `allowedPayloadFields` is not applied on the path of the
batch validator (`guarded-qdrant.ts:510-521`); Nest judges no reply of a request
without content (`guardrails.interceptor.ts:127`); several results carry the
unjudged answer as `raw`; OpenAI's wrapper judges the first choice and keeps the
tool calls of a refused one; Mistral skips calls whose arguments do not parse
(`wrap-mistral.ts:658-667`); `wrapMCPClient` keeps what survives under one `uri`
together (`wrap-agent.ts:192-193`); the MCP budget leaves views unscanned
(`guarded-mcp.ts:463`); Cloudflare's and VoltAgent's input validators let pass
when a validator fails; VoltAgent's `streamText` yields before it judges; document
ingest judges the head of a text that is too long
(`validate-extracted-text.ts:173`); calls of one name in a Gemini candidate
collapse (documented in its README:93-98), its trailing mode yields chunks with
calls before their judgement and its chat judges none.  Trigger.dev's README:65-67
promises that verdicts survive a retry, but the default key carries the
engine's instance (`GuardrailEngine.ts:979`); Restate's refusals are plain errors,
which that runtime retries.

## 7. Plan

Done, in this order: the engine and its breaker, streaming, the fault breaker,
the server's authentication, the shadow log; then the services, the connectors, the
middlewares and runtimes, the composites and the verdicts; then a theorem for
every safety property of a passing run.

Next, most important first:

1. That a cached or bypassed call keeps `EngineFailClosed`.
2. The function calls of the Gemini stream loops beside the text, over
   `ClientSafeStream`.
3. The session tracker's slow-drip history; outputs of the workflow runtimes.
4. The engine composed with the tokens, the cache and the hooks it calls, where
   the present runs take their answers as given.

A run that only illustrates a disagreement gives way when a new component needs
its place.

## 8. Running

    tlc -config MCEngineScenarios.cfg MCEngineScenarios.tla
    tlapm GuardrailEngine_proofs.tla

The cfg of each run is named in `PROJECT.json`; with two workers `engine_scenarios` and
`services` take about a minute and a half, `integrations` two, `calls` four, the
others less.
