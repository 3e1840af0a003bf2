---------------------------- MODULE FaultBreaker ----------------------------
(***************************************************************************)
(* The circuit breaker of packages/core/src/fault-tolerance/               *)
(* CircuitBreaker.ts and the requests running through it.  execute awaits  *)
(* the function it runs, so any number of requests is in flight; each is   *)
(* admitted in one state of the breaker and accounted in whatever state it *)
(* ends in.  RetryPolicy drives it.  (A disabled breaker only calls the    *)
(* function.)                                                              *)
(***************************************************************************)
EXTENDS Integers, FiniteSets

CONSTANTS
  Requests,         \* callers, each with one request in flight at a time
  VolumeThreshold,  \* requestVolumeThreshold
  ErrorThreshold,   \* errorThresholdPercentage
  RecoveryTimeout,  \* recoveryTimeout, in ticks
  HalfOpenMax,      \* halfOpenMaxRequests
  Timeout,          \* timeout, in ticks
  Throwing,         \* the listeners that throw, of ListenerName
  Manual,           \* TRUE: open(), close() and reset() are called too
  MaxTotal          \* bound: requests counted since the last reset

ListenerName == {"onOpen", "onHalfOpen", "onClosed", "onFailure", "onSuccess"}

ASSUME FaultAssumption ==
  /\ IsFiniteSet(Requests)
  /\ {VolumeThreshold, ErrorThreshold, RecoveryTimeout, HalfOpenMax, Timeout,
      MaxTotal} \subseteq Nat
  /\ HalfOpenMax > 0 /\ VolumeThreshold > 0
  /\ Throwing \subseteq ListenerName
  /\ Manual \in BOOLEAN

VARIABLES
  breaker,    \* the breaker's fields
  running,    \* requests whose function has been called and not settled
  left,       \* ticks until the timeout of each running request
  fresh,      \* history: running requests counted in totalRequests
  late        \* history: requests that ended and are not counted there

faultVars == <<breaker, running, left, fresh, late>>

(* state, stats.totalRequests, successfulRequests, failedRequests and       *)
(* errorPercentage, halfOpenRequestCount, and the ticks left until          *)
(* stats.nextAttemptTime.                                                   *)
Breaker == [state : {"closed", "open", "half_open"}, total : Nat, ok : Nat,
            failed : Nat, percent : Nat, halfOpen : Nat, wait : 0..RecoveryTimeout]

FaultTypeOK ==
  /\ breaker \in Breaker
  /\ breaker.total <= MaxTotal
  /\ running \subseteq Requests
  /\ left \in [Requests -> 0..Timeout]
  /\ fresh \subseteq running
  /\ late \in Nat

Initially == [state |-> "closed", total |-> 0, ok |-> 0, failed |-> 0,
              percent |-> 0, halfOpen |-> 0, wait |-> 0]

FaultInit ==
  /\ breaker = Initially
  /\ running = {} /\ fresh = {} /\ late = 0
  /\ left = [r \in Requests |-> 0]
-----------------------------------------------------------------------------
(* The methods, as functions of the breaker's fields.                       *)

(* Math.round of the share of failures, in percent.                         *)
UpdatePercent(b) ==
  [b EXCEPT !.percent =
     IF b.total = 0 THEN 0 ELSE (200 * b.failed + b.total) \div (2 * b.total)]

ResetCounters(b) ==
  [b EXCEPT !.total = 0, !.ok = 0, !.failed = 0, !.percent = 0]

(* Mutant: the counters of the closed period are carried into half-open.    *)
HalfOpenKeepingCounters(b) == [b EXCEPT !.state = "half_open", !.halfOpen = 0]

ToOpen(b)     == [b EXCEPT !.state = "open", !.wait = RecoveryTimeout]
ToHalfOpen(b) == [ResetCounters(b) EXCEPT !.state = "half_open", !.halfOpen = 0]
ToClosed(b)   == [b EXCEPT !.state = "closed"]

(* handleSuccess closes a half-open breaker with the last success it needs. *)
Closes(b) == b.state = "half_open" /\ b.halfOpen + 1 >= HalfOpenMax

ResetsCounters(b) == b.state = "closed" /\ b.total >= 2 * VolumeThreshold

HandleSuccess(b) ==
  LET counted == [b EXCEPT !.ok = @ + 1]
      probed  == [counted EXCEPT !.halfOpen = @ + 1]
  IN UpdatePercent(IF Closes(b) THEN ToClosed(probed)
                   ELSE IF b.state = "half_open" THEN probed
                   ELSE IF ResetsCounters(b) THEN ResetCounters(counted)
                   ELSE counted)

(* Mutant: a failure in half-open is judged by the error rate as well.      *)
FailureByRate(b) ==
  LET counted == UpdatePercent([b EXCEPT !.failed = @ + 1])
  IN IF b.state # "open" /\ b.total >= VolumeThreshold
                         /\ counted.percent >= ErrorThreshold
     THEN ToOpen(counted) ELSE counted

HandleFailure(b) ==
  LET counted == UpdatePercent([b EXCEPT !.failed = @ + 1])
      trips   == b.total >= VolumeThreshold /\ counted.percent >= ErrorThreshold
  IN IF b.state = "half_open" \/ (b.state = "closed" /\ trips)
     THEN ToOpen(counted) ELSE counted
-----------------------------------------------------------------------------
Recovering == breaker.state = "open" /\ breaker.wait = 0

(* execute(fn) up to its await.  On a breaker that is open and has waited,  *)
(* it first goes half-open, which clears the counters; when onHalfOpen      *)
(* throws, nothing more happens.  An open breaker refuses.                  *)
Execute(r) ==
  /\ r \notin running
  /\ breaker.state # "open" \/ Recovering
  /\ breaker.total < MaxTotal
  /\ LET b == IF Recovering THEN ToHalfOpen(breaker) ELSE breaker
     IN IF Recovering /\ "onHalfOpen" \in Throwing
        THEN breaker' = b /\ fresh' = {} /\ late' = 0 /\ UNCHANGED <<running, left>>
        ELSE /\ breaker' = [b EXCEPT !.total = @ + 1]
             /\ fresh' = (IF Recovering THEN {} ELSE fresh) \cup {r}
             /\ late' = IF Recovering THEN 0 ELSE late
             /\ running' = running \cup {r}
             /\ left' = [left EXCEPT ![r] = Timeout]

(* A request is over and accounted; cleared: its accounting has cleared the *)
(* counters.                                                                *)
Ends(r, cleared) ==
  /\ running' = running \ {r}
  /\ left' = [left EXCEPT ![r] = 0]
  /\ fresh' = IF cleared THEN {} ELSE fresh \ {r}
  /\ late' = IF cleared THEN 0 ELSE IF r \in fresh THEN late ELSE late + 1

(* The function resolves first.  A listener that throws on the way sends    *)
(* execute into its catch block, which accounts a failure on top.           *)
Succeeds(r) ==
  /\ r \in running
  /\ LET throws == \/ "onSuccess" \in Throwing
                   \/ "onClosed" \in Throwing /\ Closes(breaker)
     IN breaker' = IF throws THEN HandleFailure(HandleSuccess(breaker))
                             ELSE HandleSuccess(breaker)
  /\ Ends(r, ResetsCounters(breaker))

(* The function rejects, or the timer does: what a listener throws on the   *)
(* way changes the error the caller sees and nothing else.                  *)
Fails(r) ==
  /\ r \in running
  /\ breaker' = HandleFailure(breaker)
  /\ Ends(r, FALSE)

TimesOut(r) ==
  /\ r \in running /\ left[r] = 0
  /\ Fails(r)

Open  == Manual /\ breaker' = ToOpen(breaker) /\ UNCHANGED <<running, left, fresh, late>>
Close == Manual /\ breaker' = ToClosed(breaker) /\ UNCHANGED <<running, left, fresh, late>>

Reset ==
  /\ Manual
  /\ breaker' = Initially
  /\ fresh' = {} /\ late' = 0
  /\ UNCHANGED <<running, left>>

Less(n) == IF n > 0 THEN n - 1 ELSE 0

Tick ==
  /\ breaker.wait > 0 \/ \E r \in running : left[r] > 0
  /\ breaker' = [breaker EXCEPT !.wait = Less(@)]
  /\ left' = [r \in Requests |-> Less(left[r])]
  /\ UNCHANGED <<running, fresh, late>>

-----------------------------------------------------------------------------
(* The books balance: what is counted as requested is what ended or runs,   *)
(* up to the requests that outlived a clearing of the counters.             *)
BooksBalance ==
  breaker.total + late = breaker.ok + breaker.failed + Cardinality(fresh)

(* CircuitBreaker.ts:230-236, 263-266: a half-open breaker has seen no      *)
(* failure since it went half-open and is short of the successes that       *)
(* close it, all of which ended in this half-open period.                   *)
RecoveryIsEarned ==
  breaker.state = "half_open" =>
    breaker.failed = 0 /\ breaker.ok = breaker.halfOpen /\ breaker.ok < HalfOpenMax

(* CircuitBreaker.ts:34 "Maximum number of requests to allow in half-open   *)
(* state": the requests started in a half-open period.                      *)
HalfOpenLimit == breaker.state = "half_open" => breaker.total <= HalfOpenMax

(* CircuitBreaker.ts:30 has error percentages in 0-100.                     *)
PercentInRange == breaker.percent <= 100
=============================================================================
