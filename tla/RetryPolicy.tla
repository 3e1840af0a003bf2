---------------------------- MODULE RetryPolicy ----------------------------
(***************************************************************************)
(* packages/core/src/fault-tolerance/RetryPolicy.ts around the circuit     *)
(* breaker, as the connectors combine them (anthropic-connector/src/       *)
(* guarded-anthropic.ts:497-519): each attempt of a call is one request of *)
(* the breaker.  The breaker's refusal is no error that is retried; the    *)
(* timeout of a request is (its code is ETIMEDOUT).                        *)
(***************************************************************************)
EXTENDS FaultBreaker, Sequences

CONSTANTS
  MaxAttempts,     \* maxAttempts
  InitialDelay,    \* initialDelay, in ticks
  Multiplier,      \* backoffMultiplier
  MaxDelay,        \* maxDelay, in ticks
  Jitter           \* what jitter adds or takes away, in ticks

ASSUME RetryAssumption ==
  {InitialDelay, MaxDelay, Jitter} \subseteq Nat /\ {MaxAttempts, Multiplier} \subseteq Nat \ {0}

VARIABLE call      \* the call each client has in the policy's loop

retryVars == <<faultVars, call>>

NoCall == [state |-> "none", attempt |-> 0, delay |-> InitialDelay, sleep |-> 0]

RetryInit == FaultInit /\ call = [r \in Requests |-> NoCall]

Smallest(a, b) == IF a < b THEN a ELSE b

(* execute(fn)                                                              *)
StartCall(r) ==
  /\ call[r].state = "none"
  /\ call' = [call EXCEPT ![r].state = "trying", ![r].attempt = 1]
  /\ UNCHANGED faultVars

Trying(r) == call[r].state = "trying" /\ r \notin running

EndCall(r) == call' = [call EXCEPT ![r] = NoCall]

(* The breaker takes the attempt.                                           *)
Attempt(r) == Trying(r) /\ Execute(r) /\ r \in running' /\ UNCHANGED call

(* The breaker is open, and the call fails with it.                         *)
Refused(r) ==
  /\ Trying(r) /\ breaker.state = "open" /\ ~Recovering
  /\ EndCall(r) /\ UNCHANGED faultVars

(* Mutant: the last attempt is retried as well.                             *)
RetriesAlways(r) ==
  \E j \in (0 - Jitter)..Jitter :
    call' = [call EXCEPT ![r] = [state |-> "sleeping", attempt |-> 1,
               delay |-> InitialDelay,
               sleep |-> IF @.delay + j > 0 THEN @.delay + j ELSE 0]]

(* The catch block after a retryable error: the last attempt ends the call, *)
(* another sleeps about the delay, which grows.                             *)
Retries(r) ==
  IF call[r].attempt = MaxAttempts THEN EndCall(r)
  ELSE \E j \in (0 - Jitter)..Jitter :
         call' = [call EXCEPT ![r] = [state |-> "sleeping", attempt |-> @.attempt,
                    delay |-> Smallest(@.delay * Multiplier, MaxDelay),
                    sleep |-> IF @.delay + j > 0 THEN @.delay + j ELSE 0]]

(* The request settles: a result, or an error that is not retryable, ends   *)
(* the call.                                                                *)
AttemptSucceeds(r) == Succeeds(r) /\ EndCall(r)
AttemptFails(r)    == Fails(r) /\ (EndCall(r) \/ Retries(r))
AttemptTimesOut(r) == TimesOut(r) /\ Retries(r)

Wake(r) ==
  /\ call[r].state = "sleeping" /\ call[r].sleep = 0
  /\ call' = [call EXCEPT ![r].state = "trying", ![r].attempt = @ + 1]
  /\ UNCHANGED faultVars

(* Time passes for the breaker, its requests and the sleeping calls.        *)
RetryTick ==
  /\ \/ Tick
     \/ (\E r \in Requests : call[r].sleep > 0) /\ ~ENABLED Tick /\ UNCHANGED faultVars
  /\ call' = [r \in Requests |-> [call[r] EXCEPT !.sleep = Less(@)]]

RetryNext ==
  \/ \E r \in Requests :
       \/ StartCall(r) \/ Attempt(r) \/ Refused(r) \/ Wake(r)
       \/ AttemptSucceeds(r) \/ AttemptFails(r) \/ AttemptTimesOut(r)
  \/ (Open \/ Close \/ Reset) /\ UNCHANGED call
  \/ RetryTick

RetrySpec == RetryInit /\ [][RetryNext]_retryVars

(* Time passes, timers fire, and the loop goes on where it can.             *)
RetryFairness ==
  /\ WF_retryVars(RetryTick)
  /\ \A r \in Requests :
       WF_retryVars(Attempt(r) \/ Refused(r) \/ Wake(r) \/ AttemptTimesOut(r))

FairRetrySpec == RetrySpec /\ RetryFairness
-----------------------------------------------------------------------------
(* RetryPolicy.ts:131-190: every call ends, also one whose function never   *)
(* settles, whatever the breaker does to its attempts (up to the bound on   *)
(* the requests a run counts).                                              *)
CallsEnd ==
  \A r \in Requests :
    call[r].state # "none" ~> (call[r].state = "none" \/ breaker.total = MaxTotal)
=============================================================================
