--------------------------- MODULE EngineBreaker ---------------------------
(***************************************************************************)
(* The buffer-overflow circuit breaker of the guardrail engine             *)
(* (packages/core/src/engine/CircuitBreaker.ts): one record of metrics,    *)
(* three methods, no timer.  Time is read when a method is called, so the  *)
(* clock is a variable that the environment moves.                         *)
(***************************************************************************)
EXTENDS Integers

CONSTANTS
  Threshold,      \* options.threshold: violations before the breaker trips
  TimeoutMs,      \* options.timeoutMs, in ticks of the clock
  MaxClock,       \* bound: the last tick of the clock
  MaxViolations   \* bound: how high violationCount may count

ASSUME BreakerAssumption ==
  /\ Threshold \in Nat \ {0}
  /\ TimeoutMs \in Nat
  /\ MaxClock \in Nat
  /\ MaxViolations \in Nat

VARIABLES
  clock,              \* Date.now()
  breaker,            \* metrics.state
  violationCount,     \* metrics.violationCount
  lastViolationTime,  \* metrics.lastViolationTime
  openUntil           \* metrics.openUntil, or Never

breakerVars == <<breaker, violationCount, lastViolationTime, openUntil>>
engineBreakerVars == <<clock, breakerVars>>

BreakerState == {"CLOSED", "OPEN", "HALF_OPEN"}

Never == -1           \* openUntil = undefined

BreakerTypeOK ==
  /\ clock \in 0..MaxClock
  /\ breaker \in BreakerState
  /\ violationCount \in 0..MaxViolations
  /\ lastViolationTime \in 0..MaxClock
  /\ openUntil \in {Never} \cup 0..(MaxClock + TimeoutMs)

BreakerInit ==
  /\ clock = 0
  /\ breaker = "CLOSED"
  /\ violationCount = 0
  /\ lastViolationTime = 0
  /\ openUntil = Never

-----------------------------------------------------------------------------

Expired ==
  /\ breaker = "OPEN"
  /\ openUntil # Never
  /\ clock >= openUntil

(* isOpen() returns answer, and moves an expired OPEN breaker to HALF_OPEN. *)
IsOpen(answer) ==
  \/ /\ Expired
     /\ answer = FALSE
     /\ breaker' = "HALF_OPEN"
     /\ UNCHANGED <<violationCount, lastViolationTime, openUntil>>
  \/ /\ ~Expired
     /\ answer = (breaker = "OPEN")
     /\ UNCHANGED breakerVars

(* Mutant: a violation of an OPEN breaker does not extend the wait.         *)
TripsOnce ==
  breaker = "HALF_OPEN" \/ (breaker = "CLOSED" /\ violationCount + 1 >= Threshold)

(* One violation in HALF_OPEN re-trips; otherwise the count decides, also   *)
(* while the breaker is OPEN, where it pushes openUntil further away.       *)
Trips == breaker = "HALF_OPEN" \/ violationCount + 1 >= Threshold

RecordViolation ==
  /\ violationCount < MaxViolations
  /\ violationCount' = violationCount + 1
  /\ lastViolationTime' = clock
  /\ \/ /\ Trips
        /\ breaker' = "OPEN"
        /\ openUntil' = clock + TimeoutMs
     \/ /\ ~Trips
        /\ UNCHANGED <<breaker, openUntil>>

(* Mutant: a reset that forgets the count.                                  *)
ResetKeepingCount ==
  IF breaker = "HALF_OPEN"
  THEN /\ breaker' = "CLOSED"
       /\ openUntil' = Never
       /\ UNCHANGED <<violationCount, lastViolationTime>>
  ELSE UNCHANGED breakerVars
ResetIfRecovering ==
  IF breaker = "HALF_OPEN"
  THEN /\ breaker' = "CLOSED"
       /\ violationCount' = 0
       /\ openUntil' = Never
       /\ UNCHANGED lastViolationTime
  ELSE UNCHANGED breakerVars

Tick == clock < MaxClock /\ clock' = clock + 1

BreakerNext ==
  \/ (\E answer \in BOOLEAN : IsOpen(answer)) /\ UNCHANGED clock
  \/ RecordViolation /\ UNCHANGED clock
  \/ ResetIfRecovering /\ UNCHANGED clock
  \/ Tick /\ UNCHANGED breakerVars

BreakerSpec == BreakerInit /\ [][BreakerNext]_engineBreakerVars

-----------------------------------------------------------------------------
(* CircuitBreaker.ts:37-39 names the life cycle.  The state, the count and  *)
(* the two times always tell the same story: a CLOSED breaker is short of   *)
(* its threshold and has no deadline, any other has reached it, an OPEN one *)
(* waits for exactly one timeout after the newest violation, and a          *)
(* HALF_OPEN one has waited it.                                             *)
CountTracksState ==
  /\ breaker = "CLOSED" => violationCount < Threshold /\ openUntil = Never
  /\ breaker # "CLOSED" => violationCount >= Threshold
  /\ breaker = "OPEN" => openUntil = lastViolationTime + TimeoutMs
  /\ breaker = "HALF_OPEN" => /\ openUntil = lastViolationTime + TimeoutMs
                              /\ clock >= openUntil

(* The breaker never leaves OPEN, by whatever method, within one timeout of *)
(* the newest violation, and then only to HALF_OPEN; it never goes from     *)
(* CLOSED to HALF_OPEN (CircuitBreaker.ts:54-68, 105-116).                  *)
LeavesOpenLate ==
  [][ /\ (breaker = "OPEN" /\ breaker' # "OPEN") =>
           breaker' = "HALF_OPEN" /\ clock >= lastViolationTime + TimeoutMs
      /\ breaker = "CLOSED" => breaker' # "HALF_OPEN" ]_engineBreakerVars
=============================================================================
