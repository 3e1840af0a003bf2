---------------------------- MODULE DurableRuns ----------------------------
(***************************************************************************)
(* A guarded workflow under a runtime that runs it again after failures:   *)
(* the middleware of Inngest, Restate and Trigger.dev and the Temporal     *)
(* activity.  What a retry finds again is the runtime's journal, where     *)
(* there is one, and the entries of the validators' cache, whose keys may  *)
(* carry the instance of the engine and the run.                           *)
(***************************************************************************)
EXTENDS Naturals, FiniteSets

CONSTANTS
  Runs,        \* runs of workflows
  MaxCrashes,  \* bound: how often the worker process may be replaced
  MaxFailures  \* bound: failures of a run that are none of its refusals

ASSUME DurableAssumption == {MaxCrashes, MaxFailures} \subseteq Nat

(* What each runtime makes of a decision.  journaled: the runtime records   *)
(* it and hands the record to later attempts.  salted: the cache keys carry *)
(* the engine's random instance id.  perRun: they carry the run.  retried:  *)
(* the error a refusal ends in is one the runtime tries again.              *)
Runtime == [
  inngest  |-> [journaled |-> TRUE,  salted |-> TRUE,  perRun |-> FALSE, retried |-> TRUE],
  temporal |-> [journaled |-> TRUE,  salted |-> FALSE, perRun |-> FALSE, retried |-> FALSE],
  restate  |-> [journaled |-> TRUE,  salted |-> FALSE, perRun |-> FALSE, retried |-> TRUE],
  plain    |-> [journaled |-> FALSE, salted |-> FALSE, perRun |-> FALSE, retried |-> TRUE],
  trigger  |-> [journaled |-> FALSE, salted |-> TRUE,  perRun |-> TRUE,  retried |-> FALSE]]

VARIABLES
  under,       \* the runtime; "plain" is Restate with a context that has no run()
  backend,     \* "none", "memory" of the process or "shared" with the next one
  worker,      \* the process, counted; each has its own engine instance
  memo,        \* what the validators' cache holds
  journal,     \* the decision the runtime has recorded for a run
  attempt,     \* where the attempt of each run is
  failures,    \* how often it has failed by itself
  told,        \* history: the verdicts the run's code has been given
  lost         \* history: the run's cached decision was dropped or out of reach

durableVars == <<under, backend, worker, memo, journal, attempt, failures, told, lost>>

is == Runtime[under]

(* A cache is an option of two of them and built in to the others.          *)
Backends == IF is.salted THEN {"none", "memory", "shared"} ELSE {"memory", "shared"}

Queued == [state |-> "queued", verdict |-> "none"]

DurableInit ==
  /\ under \in DOMAIN Runtime /\ backend \in Backends
  /\ worker = 0 /\ memo = {} /\ told = [r \in Runs |-> {}] /\ lost = [r \in Runs |-> FALSE]
  /\ journal = [r \in Runs |-> "none"]
  /\ attempt = [r \in Runs |-> Queued] /\ failures = [r \in Runs |-> 0]

(* The key under which the decision about a run's input is cached; the      *)
(* runs of this instance have the same input.                               *)
KeyOfRun(r) == <<IF is.salted THEN worker ELSE 0, IF is.perRun THEN r ELSE "all">>

Cached(r) == {e \in memo : e.key = KeyOfRun(r)}

Moves(r, state, verdict) ==
  attempt' = [attempt EXCEPT ![r] = [state |-> state, verdict |-> verdict]]

At(r, state) == attempt[r].state = state
-----------------------------------------------------------------------------
(* The runtime starts an attempt.  A decision it has recorded stands, and   *)
(* the step that would judge is not run again.                              *)
StartAttempt(r) ==
  /\ At(r, "queued")
  /\ IF journal[r] # "none" THEN Moves(r, "decided", journal[r])
                            ELSE Moves(r, "judging", "none")
  /\ UNCHANGED <<under, backend, worker, memo, journal, failures, told, lost>>

(* cachedValidate finds the decision in the cache, or a miss.               *)
LooksUp(r) ==
  /\ At(r, "judging")
  /\ IF Cached(r) = {} THEN Moves(r, "validating", "none")
                       ELSE \E e \in Cached(r) : Moves(r, "judged", e.verdict)
  /\ UNCHANGED <<under, backend, worker, memo, journal, failures, told, lost>>

(* The validators answer, and need not answer what they did before.  Their  *)
(* answer takes the place of any that another run stored meanwhile, unless  *)
(* the backend fails.                                                       *)
Judges(r, v) ==
  /\ At(r, "validating") /\ Moves(r, "judged", v)
  /\ \/ /\ backend # "none"
        /\ memo' = (memo \ Cached(r)) \cup {[key |-> KeyOfRun(r), verdict |-> v]}
        /\ lost' = [q \in Runs |-> lost[q] \/ (Cached(r) # {} /\ KeyOfRun(q) = KeyOfRun(r))]
     \/ memo' = memo /\ lost' = [lost EXCEPT ![r] = TRUE]
  /\ UNCHANGED <<under, backend, worker, journal, failures, told>>

(* Mutant: the decision is made outside the runtime's step.                  *)
DecidesAgain(r) ==
  /\ At(r, "judged") /\ Moves(r, "decided", attempt[r].verdict)
  /\ UNCHANGED <<under, backend, worker, memo, journal, failures, told, lost>>

(* step.run, ctx.run or the activity returns: the decision is recorded      *)
(* before the run's code sees it.                                           *)
Decides(r) ==
  /\ At(r, "judged") /\ Moves(r, "decided", attempt[r].verdict)
  /\ journal' = IF is.journaled THEN [journal EXCEPT ![r] = attempt[r].verdict] ELSE journal
  /\ UNCHANGED <<under, backend, worker, memo, failures, told, lost>>

(* The run's code goes on behind an accepted input, and returns.            *)
Acts(r) ==
  /\ At(r, "decided") /\ attempt[r].verdict = "allow"
  /\ told' = [told EXCEPT ![r] = @ \cup {"allow"}]
  /\ Moves(r, "done", "allow")
  /\ UNCHANGED <<under, backend, worker, memo, journal, failures, lost>>

(* It fails behind it, or the validators throw, and the runtime tries again. *)
FailsOnce(r) ==
  /\ failures[r] < MaxFailures
  /\ \/ At(r, "validating") /\ UNCHANGED told
     \/ /\ At(r, "decided") /\ attempt[r].verdict = "allow"
        /\ told' = [told EXCEPT ![r] = @ \cup {"allow"}]
  /\ failures' = [failures EXCEPT ![r] = @ + 1]
  /\ attempt' = [attempt EXCEPT ![r] = Queued]
  /\ UNCHANGED <<under, backend, worker, memo, journal, lost>>

(* Mutant: a plain error, which the runtime tries again.                    *)
RefusesForNow(r) ==
  /\ At(r, "decided") /\ attempt[r].verdict = "block"
  /\ told' = [told EXCEPT ![r] = @ \cup {"block"}]
  /\ attempt' = [attempt EXCEPT ![r] = Queued]
  /\ UNCHANGED <<under, backend, worker, memo, journal, failures, lost>>

(* A refused input: ApplicationFailure with nonRetryable, or the            *)
(* AbortTaskRunError that Trigger.dev's tasks throw, ends the run; a plain  *)
(* error is tried again, and each attempt reports the refusal anew.         *)
Refuses(r) ==
  /\ At(r, "decided") /\ attempt[r].verdict = "block"
  /\ told' = [told EXCEPT ![r] = @ \cup {"block"}]
  /\ attempt' = [attempt EXCEPT ![r] = IF is.retried THEN Queued
                                       ELSE [state |-> "failed", verdict |-> "block"]]
  /\ UNCHANGED <<under, backend, worker, memo, journal, failures, lost>>

(* The process is replaced: attempts under way are lost and started again,  *)
(* the memory's cache is gone, and a new engine has another instance id.    *)
Crash ==
  /\ worker < MaxCrashes /\ worker' = worker + 1
  /\ attempt' = [r \in Runs |-> IF attempt[r].state \in {"done", "failed"}
                                THEN attempt[r] ELSE Queued]
  /\ memo' = IF backend = "shared" THEN memo ELSE {}
  /\ lost' = [r \in Runs |-> lost[r] \/ backend # "shared" \/ is.salted]
  /\ UNCHANGED <<under, backend, journal, failures, told>>

(* An entry outlives its span or is evicted.                                *)
Expires ==
  /\ \E e \in memo :
       /\ memo' = memo \ {e}
       /\ lost' = [r \in Runs |-> lost[r] \/ e.key = KeyOfRun(r)]
  /\ UNCHANGED <<under, backend, worker, journal, attempt, failures, told>>

RunStep(r) ==
  \/ StartAttempt(r) \/ LooksUp(r) \/ (\E v \in {"allow", "block"} : Judges(r, v))
  \/ Decides(r) \/ Acts(r) \/ FailsOnce(r) \/ Refuses(r)

DurableNext == Crash \/ Expires \/ \E r \in Runs : RunStep(r)

(* The runtime goes on with every run it has not ended.                     *)
DurableFairness == \A r \in Runs : WF_durableVars(RunStep(r))

DurableSpec == DurableInit /\ [][DurableNext]_durableVars

FairDurableSpec == DurableSpec /\ DurableFairness
-----------------------------------------------------------------------------
(* restate-middleware/README.md:8-9 "retries/replays return the SAME       *)
(* decision", for every runtime: whatever fails, the attempts of a run act  *)
(* on one verdict.  Where no journal keeps it this holds for as long as the *)
(* cache does: an entry that expired, could not be stored, was overtaken by *)
(* another run's or is out of a new process's reach excuses a second one.   *)
OneVerdict ==
  \A r \in Runs : Cardinality(told[r]) <= 1 \/ (~is.journaled /\ lost[r])

(* workflow.ts:86-93: a refused run ends, it is not tried for ever; nor is  *)
(* one that was accepted, even where refusals are.                          *)
RunsEnd ==
  \A r \in Runs :
    (is.retried => journal[r] = "allow") ~> At(r, "done") \/ At(r, "failed")
=============================================================================
