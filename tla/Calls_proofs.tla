---------------------------- MODULE Calls_proofs ----------------------------
(***************************************************************************)
(* Proofs about what runs around a call: the circuit breaker and the retry *)
(* policy, the middlewares of the web frameworks, and the runtimes that    *)
(* replay a run.  Each part has its invariant, one lemma per action, and   *)
(* its theorems; what they say holds for all values of the constants.      *)
(***************************************************************************)
EXTENDS RetryPolicy, WebMiddleware, DurableRuns, FoldLemmas

-------------------------------------------------------------------------------
(***************************************************************************)
(* The circuit breaker within the retry policy.  The books need the        *)
(* invariant of the breaker, which says what its counters are when it goes *)
(* half-open.                                                              *)
(***************************************************************************)
(* Whole division of naturals.                                              *)
LEMMA QuotientIsNat ==
  ASSUME NEW x \in Nat, NEW y \in Nat \ {0}
  PROVE  x \div y \in Nat
OBVIOUS

(* updateErrorPercentage changes the percentage only.                       *)
LEMMA UpdatePercentFacts ==
  ASSUME NEW b \in Breaker
  PROVE  /\ UpdatePercent(b) \in Breaker
         /\ UpdatePercent(b).state = b.state
         /\ UpdatePercent(b).total = b.total
         /\ UpdatePercent(b).ok = b.ok
         /\ UpdatePercent(b).failed = b.failed
         /\ UpdatePercent(b).halfOpen = b.halfOpen
<1>1. b.total # 0 => (200 * b.failed + b.total) \div (2 * b.total) \in Nat
  BY QuotientIsNat DEF Breaker
<1> DEFINE q == (200 * b.failed + b.total) \div (2 * b.total)
<1>2. UpdatePercent(b) = [b EXCEPT !.percent = IF b.total = 0 THEN 0 ELSE q]
  BY DEF UpdatePercent
<1> HIDE DEF q
<1>3. b.total = 0 \/ q \in Nat
  BY <1>1 DEF q
<1> QED BY <1>2, <1>3 DEF Breaker

(* handleSuccess counts one success more or, where it clears the counters,  *)
(* leaves none; a breaker it leaves half-open is short of its successes.    *)
LEMMA HandleSuccessFacts ==
  ASSUME FaultAssumption, NEW b \in Breaker
  PROVE  /\ HandleSuccess(b) \in Breaker
         /\ ResetsCounters(b) =>
              /\ HandleSuccess(b).total = 0
              /\ HandleSuccess(b).ok = 0
              /\ HandleSuccess(b).failed = 0
         /\ ~ResetsCounters(b) =>
              /\ HandleSuccess(b).total = b.total
              /\ HandleSuccess(b).ok = b.ok + 1
              /\ HandleSuccess(b).failed = b.failed
         /\ HandleSuccess(b).state = "half_open" =>
              /\ b.state = "half_open"
              /\ HandleSuccess(b).halfOpen = b.halfOpen + 1
              /\ b.halfOpen + 1 < HalfOpenMax
<1> DEFINE counted == [b EXCEPT !.ok = @ + 1]
           probed  == [counted EXCEPT !.halfOpen = @ + 1]
           chosen  == IF Closes(b) THEN ToClosed(probed)
                      ELSE IF b.state = "half_open" THEN probed
                      ELSE IF ResetsCounters(b) THEN ResetCounters(counted)
                      ELSE counted
<1>1. chosen \in Breaker
  <2>1. counted \in Breaker
    BY DEF Breaker
  <2>2. probed \in Breaker
    <3>1. probed = [counted EXCEPT !.halfOpen = @ + 1]
      OBVIOUS
    <3> HIDE DEF counted, probed
    <3> QED BY <2>1, <3>1 DEF Breaker
  <2>3. \A c \in Breaker : ToClosed(c) \in Breaker /\ ResetCounters(c) \in Breaker
    BY DEF Breaker, ToClosed, ResetCounters
  <2> HIDE DEF counted, probed
  <2> QED BY <2>1, <2>2, <2>3
<1>2. /\ ResetsCounters(b) => chosen.total = 0 /\ chosen.ok = 0 /\ chosen.failed = 0
      /\ ~ResetsCounters(b) =>
           chosen.total = b.total /\ chosen.ok = b.ok + 1 /\ chosen.failed = b.failed
      /\ chosen.state = "half_open" =>
           /\ b.state = "half_open" /\ chosen.halfOpen = b.halfOpen + 1
           /\ b.halfOpen + 1 < HalfOpenMax
  BY DEF Breaker, ToClosed, ResetCounters, Closes, ResetsCounters, FaultAssumption
<1>3. HandleSuccess(b) = UpdatePercent(chosen)
  BY Zenon DEF HandleSuccess
<1> HIDE DEF chosen
<1> QED BY <1>1, <1>2, <1>3, UpdatePercentFacts

(* handleFailure counts one failure more or opens the breaker; it never     *)
(* leaves it half-open.                                                     *)
LEMMA HandleFailureFacts ==
  ASSUME FaultAssumption, NEW b \in Breaker
  PROVE  /\ HandleFailure(b) \in Breaker
         /\ HandleFailure(b).total = b.total
         /\ HandleFailure(b).ok = b.ok
         /\ HandleFailure(b).failed = b.failed + 1
         /\ HandleFailure(b).state # "half_open"
<1> DEFINE failing == [b EXCEPT !.failed = @ + 1]
           counted == UpdatePercent(failing)
           trips   == b.total >= VolumeThreshold /\ counted.percent >= ErrorThreshold
<1>1. /\ failing \in Breaker /\ failing.state = b.state /\ failing.total = b.total
      /\ failing.ok = b.ok /\ failing.failed = b.failed + 1
  BY DEF Breaker
<1>2. HandleFailure(b) = IF b.state = "half_open" \/ (b.state = "closed" /\ trips)
                         THEN ToOpen(counted) ELSE counted
  BY Zenon DEF HandleFailure
<1> HIDE DEF failing
<1>3. /\ counted \in Breaker /\ counted.state = b.state /\ counted.total = b.total
      /\ counted.ok = b.ok /\ counted.failed = b.failed + 1
  BY <1>1, UpdatePercentFacts
<1> HIDE DEF counted, trips
<1>4. RecoveryTimeout \in 0 .. RecoveryTimeout
  BY DEF FaultAssumption
<1> QED BY <1>2, <1>3, <1>4 DEF ToOpen, Breaker

(* A breaker that goes half-open starts counting from nothing.              *)
LEMMA ToHalfOpenFacts ==
  ASSUME FaultAssumption, NEW b \in Breaker
  PROVE  LET h == ToHalfOpen(b) IN
         /\ h \in Breaker /\ h.state = "half_open" /\ h.total = 0 /\ h.ok = 0 /\ h.failed = 0
         /\ h.halfOpen = 0
<1>1. ResetCounters(b) = [b EXCEPT !.total = 0, !.ok = 0, !.failed = 0, !.percent = 0]
  BY DEF ResetCounters
<1> DEFINE c == ResetCounters(b)
<1>2. c \in Breaker /\ c.total = 0 /\ c.ok = 0 /\ c.failed = 0
  <2>1. c = [b EXCEPT !.total = 0, !.ok = 0, !.failed = 0, !.percent = 0]
    BY <1>1
  <2> HIDE DEF c
  <2> QED BY <2>1 DEF Breaker
<1>3. ToHalfOpen(b) = [c EXCEPT !.state = "half_open", !.halfOpen = 0]
  BY DEF ToHalfOpen
<1> HIDE DEF c
<1> QED BY <1>2, <1>3 DEF Breaker

(* The inductive invariant, for any listeners.                              *)
FaultInv == FaultTypeOK /\ RecoveryIsEarned

(* The listeners that run between a counter and its counterpart throw       *)
(* nothing.                                                                 *)
Unthrown == Throwing \cap {"onSuccess", "onClosed"} = {}

(* A closed breaker with no requests.                                       *)
LEMMA FaultInvInit == FaultInit => FaultInv /\ BooksBalance
<1> SUFFICES ASSUME FaultInit PROVE FaultInv /\ BooksBalance
  OBVIOUS
<1>1. FaultTypeOK
  BY FaultAssumption DEF FaultInit, FaultTypeOK, Initially, Breaker
<1>2. RecoveryIsEarned
  BY DEF FaultInit, RecoveryIsEarned, Initially
<1>3. BooksBalance
  BY FS_EmptySet DEF FaultInit, BooksBalance, Initially
<1> QED BY <1>1, <1>2, <1>3 DEF FaultInv

(* The requests are finitely many.                                          *)
LEMMA FreshIsFinite ==
  ASSUME FaultTypeOK
  PROVE  IsFiniteSet(fresh) /\ Cardinality(fresh) \in Nat
BY FaultAssumption, FS_Subset, FS_CardinalityType DEF FaultTypeOK

(* execute(fn) counts a request before it starts.                           *)
LEMMA ExecuteStep ==
  ASSUME FaultInv, NEW r \in Requests, Execute(r)
  PROVE  FaultInv' /\ (BooksBalance => BooksBalance')
<1> DEFINE h == ToHalfOpen(breaker)
<1>0. /\ h \in Breaker /\ h.state = "half_open" /\ h.total = 0 /\ h.ok = 0 /\ h.failed = 0
      /\ h.halfOpen = 0
  BY FaultAssumption, ToHalfOpenFacts DEF FaultInv, FaultTypeOK
<1>4. MaxTotal \in Nat /\ Timeout \in Nat /\ HalfOpenMax \in Nat /\ HalfOpenMax > 0
  BY FaultAssumption DEF FaultAssumption
<1> HIDE DEF h
<1> USE DEF FaultInv, FaultTypeOK
<1>1. CASE Recovering /\ "onHalfOpen" \in Throwing
  <2>1. /\ breaker' = h /\ fresh' = {} /\ late' = 0
        /\ UNCHANGED <<running, left>>
    BY <1>1 DEF Execute, h
  <2>2. FaultTypeOK'
    BY <1>0, <1>4, <2>1 DEF Breaker
  <2>3. RecoveryIsEarned'
    BY <1>0, <1>4, <2>1 DEF RecoveryIsEarned, Breaker
  <2>4. BooksBalance'
    BY <2>1, <1>0, FS_EmptySet DEF BooksBalance
  <2> QED BY <2>2, <2>3, <2>4
<1>2. CASE Recovering /\ "onHalfOpen" \notin Throwing
  <2>1. /\ breaker' = [h EXCEPT !.total = @ + 1]
        /\ fresh' = {r} /\ late' = 0 /\ running' = running \cup {r}
        /\ left' = [left EXCEPT ![r] = Timeout] /\ breaker.total < MaxTotal
    BY <1>2 DEF Execute, h
  <2>2. FaultTypeOK'
    BY <1>0, <1>4, <2>1 DEF Breaker
  <2>3. RecoveryIsEarned'
    BY <1>0, <1>4, <2>1 DEF RecoveryIsEarned, Breaker
  <2>4. BooksBalance'
    <3>1. breaker'.total = 1 /\ breaker'.ok = 0 /\ breaker'.failed = 0
      BY <1>0, <2>1 DEF Breaker
    <3>2. Cardinality({r}) = 1
      BY FS_Singleton
    <3> QED BY <2>1, <3>1, <3>2 DEF BooksBalance
  <2> QED BY <2>2, <2>3, <2>4
<1>3. CASE ~Recovering
  <2>1. /\ breaker' = [breaker EXCEPT !.total = @ + 1]
        /\ fresh' = fresh \cup {r} /\ late' = late /\ running' = running \cup {r}
        /\ left' = [left EXCEPT ![r] = Timeout] /\ breaker.total < MaxTotal
        /\ r \notin running
    BY <1>3 DEF Execute
  <2>2. FaultTypeOK'
    BY <1>4, <2>1 DEF Breaker
  <2>3. RecoveryIsEarned'
    BY <2>1 DEF RecoveryIsEarned, Breaker
  <2>4. BooksBalance => BooksBalance'
    <3>1. r \notin fresh
      BY <2>1
    <3>2. Cardinality(fresh \cup {r}) = Cardinality(fresh) + 1
      BY <3>1, FreshIsFinite, FS_AddElement
    <3> QED BY <2>1, <3>2, FreshIsFinite DEF BooksBalance, Breaker
  <2> QED BY <2>2, <2>3, <2>4
<1> QED BY <1>1, <1>2, <1>3

(* The end of a request in the books.                                       *)
LEMMA EndsFacts ==
  ASSUME FaultTypeOK, NEW r \in running, NEW cleared \in BOOLEAN, Ends(r, cleared)
  PROVE  /\ running' \subseteq Requests
         /\ left' \in [Requests -> 0..Timeout]
         /\ fresh' \subseteq running'
         /\ late' \in Nat
         /\ Cardinality(fresh') \in Nat
         /\ cleared => late' = 0 /\ Cardinality(fresh') = 0
         /\ ~cleared => late' - Cardinality(fresh') = late - Cardinality(fresh) + 1
<1> USE DEF Ends, FaultTypeOK
<1>1. IsFiniteSet(fresh) /\ Cardinality(fresh) \in Nat
  BY FreshIsFinite
<1>2. /\ running' \subseteq Requests
      /\ left' \in [Requests -> 0..Timeout]
      /\ fresh' \subseteq running'
      /\ late' \in Nat
  BY FaultAssumption DEF FaultAssumption
<1>3. CASE cleared
  BY <1>2, <1>3, FS_EmptySet
<1>4. CASE ~cleared /\ r \in fresh
  <2>1. fresh' = fresh \ {r} /\ late' = late
    BY <1>4
  <2>2. Cardinality(fresh \ {r}) = Cardinality(fresh) - 1 /\ IsFiniteSet(fresh \ {r})
    BY <1>1, <1>4, FS_RemoveElement
  <2>3. Cardinality(fresh \ {r}) \in Nat
    BY <2>2, FS_CardinalityType
  <2> QED BY <1>1, <1>2, <1>4, <2>1, <2>2, <2>3
<1>5. CASE ~cleared /\ r \notin fresh
  <2>1. fresh' = fresh /\ late' = late + 1
    BY <1>5
  <2>2. Cardinality(fresh') = Cardinality(fresh)
    BY <2>1
  <2> QED BY <1>1, <1>2, <1>5, <2>1, <2>2
<1> QED BY <1>3, <1>4, <1>5

(* A success of a request that outlived a clearing of the counters balances *)
(* what is late.                                                            *)
LEMMA SucceedsStep ==
  ASSUME FaultInv, NEW r \in Requests, Succeeds(r)
  PROVE  FaultInv' /\ (BooksBalance /\ Unthrown => BooksBalance')
<1> DEFINE good == HandleSuccess(breaker)
           bad  == HandleFailure(good)
           throws == "onSuccess" \in Throwing \/ ("onClosed" \in Throwing /\ Closes(breaker))
<1>1. breaker \in Breaker /\ breaker.total \in Nat /\ breaker.total <= MaxTotal /\ MaxTotal \in Nat
  BY FaultAssumption DEF FaultInv, FaultTypeOK, Breaker
<1>2. good \in Breaker /\ bad \in Breaker
  BY <1>1, FaultAssumption, HandleSuccessFacts, HandleFailureFacts
<1>3. r \in running /\ breaker' = (IF throws THEN bad ELSE good) /\ Ends(r, ResetsCounters(breaker))
  BY DEF Succeeds
<1>4. ResetsCounters(breaker) \in BOOLEAN
  BY DEF ResetsCounters
<1>5. /\ running' \subseteq Requests
      /\ left' \in [Requests -> 0..Timeout]
      /\ fresh' \subseteq running'
      /\ late' \in Nat /\ late \in Nat
      /\ Cardinality(fresh') \in Nat /\ Cardinality(fresh) \in Nat
      /\ ResetsCounters(breaker) => late' = 0 /\ Cardinality(fresh') = 0
      /\ ~ResetsCounters(breaker) => late' - Cardinality(fresh') = late - Cardinality(fresh) + 1
  BY <1>3, <1>4, EndsFacts, FreshIsFinite DEF FaultInv, FaultTypeOK
<1>6. good.total \in {0, breaker.total} /\ bad.total = good.total
  BY <1>1, <1>2, FaultAssumption, HandleSuccessFacts, HandleFailureFacts
<1>7. FaultTypeOK'
  BY <1>1, <1>2, <1>3, <1>5, <1>6 DEF FaultTypeOK
<1>8. bad.state # "half_open"
  BY <1>2, FaultAssumption, HandleFailureFacts
<1>9. good.state = "half_open" =>
        /\ breaker.state = "half_open" /\ good.halfOpen = breaker.halfOpen + 1
        /\ breaker.halfOpen + 1 < HalfOpenMax
        /\ good.ok = breaker.ok + 1 /\ good.failed = breaker.failed
  BY <1>1, FaultAssumption, HandleSuccessFacts DEF ResetsCounters
<1> HIDE DEF good, bad
<1>10. RecoveryIsEarned'
  BY <1>3, <1>8, <1>9 DEF FaultInv, RecoveryIsEarned
<1>11. ASSUME BooksBalance, Unthrown PROVE BooksBalance'
  <2>1. breaker' = good
    BY <1>3, <1>11 DEF Unthrown
  <2>2. CASE ResetsCounters(breaker)
    BY <1>1, <1>5, <2>1, <2>2, FaultAssumption, HandleSuccessFacts DEF BooksBalance, good
  <2>3. CASE ~ResetsCounters(breaker)
    <3>1. good.total = breaker.total /\ good.ok = breaker.ok + 1 /\ good.failed = breaker.failed
      BY <1>1, <2>3, FaultAssumption, HandleSuccessFacts DEF good
    <3>2. breaker.ok \in Nat /\ breaker.failed \in Nat /\ breaker.total \in Nat
      BY <1>1 DEF Breaker
    <3>3. breaker.total + late = breaker.ok + breaker.failed + Cardinality(fresh)
      BY <1>11 DEF BooksBalance
    <3>4. breaker.total + late' = (breaker.ok + 1) + breaker.failed + Cardinality(fresh')
      BY <1>5, <2>3, <3>2, <3>3
    <3> QED BY <2>1, <3>1, <3>4 DEF BooksBalance
  <2> QED BY <2>2, <2>3
<1> QED BY <1>7, <1>10, <1>11 DEF FaultInv

(* So does a failure.                                                       *)
LEMMA FailsStep ==
  ASSUME FaultInv, NEW r \in Requests, Fails(r)
  PROVE  FaultInv' /\ (BooksBalance => BooksBalance')
<1> DEFINE bad  == HandleFailure(breaker)
<1>1. breaker \in Breaker /\ breaker.total \in Nat /\ breaker.total <= MaxTotal /\ MaxTotal \in Nat
  BY FaultAssumption DEF FaultInv, FaultTypeOK, Breaker
<1>2. /\ bad \in Breaker /\ bad.total = breaker.total /\ bad.ok = breaker.ok
      /\ bad.failed = breaker.failed + 1 /\ bad.state # "half_open"
  BY <1>1, FaultAssumption, HandleFailureFacts
<1>3. r \in running /\ breaker' = bad /\ Ends(r, FALSE)
  BY DEF Fails
<1>4. /\ running' \subseteq Requests
      /\ left' \in [Requests -> 0..Timeout]
      /\ fresh' \subseteq running'
      /\ late' \in Nat /\ late \in Nat
      /\ Cardinality(fresh') \in Nat /\ Cardinality(fresh) \in Nat
      /\ late' - Cardinality(fresh') = late - Cardinality(fresh) + 1
  BY <1>3, EndsFacts, FreshIsFinite DEF FaultInv, FaultTypeOK
<1> HIDE DEF bad
<1>5. FaultTypeOK'
  BY <1>1, <1>2, <1>3, <1>4 DEF FaultTypeOK
<1>6. RecoveryIsEarned'
  BY <1>2, <1>3 DEF RecoveryIsEarned
<1>7. ASSUME BooksBalance PROVE BooksBalance'
  <2>1. breaker.ok \in Nat /\ breaker.failed \in Nat /\ breaker.total \in Nat
    BY <1>1 DEF Breaker
  <2>2. breaker.total + late = breaker.ok + breaker.failed + Cardinality(fresh)
    BY <1>7 DEF BooksBalance
  <2>3. breaker.total + late' = breaker.ok + (breaker.failed + 1) + Cardinality(fresh')
    BY <1>4, <2>1, <2>2
  <2> QED BY <1>2, <1>3, <2>3 DEF BooksBalance
<1> QED BY <1>5, <1>6, <1>7 DEF FaultInv

(* What an operator does by hand clears the counters together.              *)
LEMMA ManualStep ==
  ASSUME FaultInv, Open \/ Close \/ Reset
  PROVE  FaultInv' /\ (BooksBalance => BooksBalance')
<1> USE DEF FaultInv, FaultTypeOK, Breaker
<1>1. CASE Open
  <2>1. breaker' = ToOpen(breaker) /\ UNCHANGED <<running, left, fresh, late>>
    BY <1>1 DEF Open
  <2>2. RecoveryTimeout \in 0 .. RecoveryTimeout
    BY FaultAssumption DEF FaultAssumption
  <2> QED BY <2>1, <2>2 DEF ToOpen, RecoveryIsEarned, BooksBalance
<1>2. CASE Close
  <2>1. breaker' = ToClosed(breaker) /\ UNCHANGED <<running, left, fresh, late>>
    BY <1>2 DEF Close
  <2> QED BY <2>1 DEF ToClosed, RecoveryIsEarned, BooksBalance
<1>3. CASE Reset
  <2>1. breaker' = Initially /\ fresh' = {} /\ late' = 0 /\ UNCHANGED <<running, left>>
    BY <1>3 DEF Reset
  <2> QED BY <2>1, FaultAssumption, FS_EmptySet
          DEF FaultAssumption, Initially, RecoveryIsEarned, BooksBalance
<1> QED BY <1>1, <1>2, <1>3

(* Time only lets the reset timeout run down.                               *)
LEMMA TickStep ==
  ASSUME FaultInv, Tick
  PROVE  FaultInv' /\ (BooksBalance => BooksBalance')
<1>1. /\ breaker' = [breaker EXCEPT !.wait = Less(@)]
      /\ left' = [r \in Requests |-> Less(left[r])]
      /\ UNCHANGED <<running, fresh, late>>
  BY DEF Tick
<1>2. \A n \in Nat, m \in Nat : n \in 0 .. m => Less(n) \in 0 .. m
  BY DEF Less
<1>3. RecoveryTimeout \in Nat /\ Timeout \in Nat
  BY FaultAssumption DEF FaultAssumption
<1>4. breaker'.wait \in 0 .. RecoveryTimeout
  BY <1>1, <1>2, <1>3 DEF FaultInv, FaultTypeOK, Breaker
<1>5. left' \in [Requests -> 0 .. Timeout]
  BY <1>1, <1>2, <1>3 DEF FaultInv, FaultTypeOK
<1>6. FaultTypeOK'
  BY <1>1, <1>4, <1>5 DEF FaultInv, FaultTypeOK, Breaker
<1>7. RecoveryIsEarned' /\ (BooksBalance => BooksBalance')
  BY <1>1 DEF FaultInv, FaultTypeOK, Breaker, RecoveryIsEarned, BooksBalance
<1> QED BY <1>6, <1>7 DEF FaultInv

(* What leaves the breaker alone leaves its invariants alone.               *)
LEMMA FaultSame ==
  ASSUME FaultInv, UNCHANGED faultVars
  PROVE  FaultInv' /\ (BooksBalance => BooksBalance')
BY DEF faultVars, FaultInv, FaultTypeOK, RecoveryIsEarned, BooksBalance

(* The retry policy does nothing else to the breaker.                       *)
LEMMA RetryInvStep ==
  ASSUME FaultInv, [RetryNext]_retryVars
  PROVE  FaultInv' /\ (BooksBalance /\ Unthrown => BooksBalance')
<1>1. ASSUME NEW r \in Requests, StartCall(r) \/ Refused(r) \/ Wake(r)
      PROVE  UNCHANGED faultVars
  BY <1>1 DEF StartCall, Refused, Wake
<1>2. ASSUME NEW r \in Requests, Attempt(r) PROVE Execute(r)
  BY <1>2 DEF Attempt
<1>3. ASSUME NEW r \in Requests, AttemptSucceeds(r) PROVE Succeeds(r)
  BY <1>3 DEF AttemptSucceeds
<1>4. ASSUME NEW r \in Requests, AttemptFails(r) \/ AttemptTimesOut(r) PROVE Fails(r)
  BY <1>4 DEF AttemptFails, AttemptTimesOut, TimesOut
<1>5. ASSUME RetryTick PROVE Tick \/ UNCHANGED faultVars
  BY <1>5, Zenon DEF RetryTick
<1>6. CASE UNCHANGED retryVars
  BY <1>6, FaultSame DEF retryVars
<1>7. CASE RetryNext
  BY <1>1, <1>2, <1>3, <1>4, <1>5, <1>7, FaultSame, ExecuteStep, SucceedsStep, FailsStep,
     ManualStep, TickStep DEF RetryNext
<1> QED BY <1>6, <1>7

(* For any requests, limits, timings and throwing listeners, with the retry *)
(* policy around it: a half-open breaker (CircuitBreaker.ts:230-236,        *)
(* 263-266) has seen no failure since it went half-open and is short of the *)
(* successes that close it, so it closes on successes of this period only.  *)
THEOREM RecoveryIsAlwaysEarned == RetrySpec => [](FaultTypeOK /\ RecoveryIsEarned)
<1>1. RetryInit => FaultInv
  BY FaultInvInit DEF RetryInit
<1>2. FaultInv /\ [RetryNext]_retryVars => FaultInv'
  BY RetryInvStep
<1>3. FaultInv => FaultTypeOK /\ RecoveryIsEarned
  BY DEF FaultInv
<1> QED BY <1>1, <1>2, <1>3, PTL DEF RetrySpec

(* Where the listeners of a success and of a closing do not throw, no order *)
(* of starting, ending, timing out, closing and clearing loses or doubles a *)
(* request: what the breaker counts as requested is what it counts as       *)
(* ended, and what runs, up to the requests that outlived a clearing.       *)
THEOREM BooksAlwaysBalance ==
  ASSUME Throwing \cap {"onSuccess", "onClosed"} = {}
  PROVE  RetrySpec => []BooksBalance
<1>1. RetryInit => FaultInv /\ BooksBalance
  BY FaultInvInit DEF RetryInit
<1>2. FaultInv /\ BooksBalance /\ [RetryNext]_retryVars => (FaultInv /\ BooksBalance)'
  BY RetryInvStep DEF Unthrown
<1> QED BY <1>1, <1>2, PTL DEF RetrySpec

-------------------------------------------------------------------------------
(***************************************************************************)
(* The middlewares of the web frameworks.  The sums over the requests of a *)
(* conversation are the lemmas on SetSum (FoldLemmas).                     *)
(***************************************************************************)
(* The type invariant.                                                      *)
WebTypeOK ==
  /\ stage \in [WebRequests -> {"away", "judging", "handling", "replying", "over"}]
  /\ of \in [WebRequests -> Conversations]
  /\ body \in [WebRequests -> Bodies]
  /\ risk \in [Conversations -> Nat]
  /\ weight \in [WebRequests -> Nat]
  /\ written \in [WebRequests -> SUBSET {"fine", "bad", "object", "refusal", "notice"}]
  /\ answer \in [WebRequests -> {"none", "refusal", "error", "reply", "filtered"}]

(* What the client got stands, and no request is answered before it is over. *)
AnsweredAtTheEnd ==
  \A r \in WebRequests : stage[r] # "over" => answer[r] = "none"

(* The requests of a conversation that the application got to see.          *)
SeenOf(c) == {r \in HandedOn : of[r] = c}

(* The session knows at least of what the application has seen.             *)
SessionKnows ==
  options.sessions => \A c \in Conversations :
    /\ SetSum(weight, SeenOf(c)) <= risk[c]
    /\ SetSum(weight, SeenOf(c)) < Threshold

(* A request that is not judged has no findings.                            *)
UnjudgedHasNone ==
  \A r \in WebRequests : stage[r] \in {"away", "judging"} => weight[r] = 0

(* The inductive invariant.  What ties it together is that the session is   *)
(* charged in the step that hands a request on: what the application has    *)
(* seen is in the risk the next request is measured against.                *)
WebInv ==
  WebTypeOK /\ AnsweredAtTheEnd /\ RepliesAreJudged /\ UnjudgedHasNone /\ SessionKnows

(* Finitely many requests can be handed on.                                 *)
LEMMA HandedOnIsFinite ==
  /\ IsFiniteSet(HandedOn)
  /\ \A c \in Conversations : IsFiniteSet(SeenOf(c)) /\ SeenOf(c) \subseteq HandedOn
<1>1. HandedOn \subseteq WebRequests /\ \A c \in Conversations : SeenOf(c) \subseteq HandedOn
  BY DEF HandedOn, SeenOf
<1>2. IsFiniteSet(HandedOn)
  BY <1>1, WebAssumption, FS_Subset
<1> QED BY <1>1, <1>2, FS_Subset

(* At first nothing has been handed on.                                     *)
LEMMA WebInvInit == WebInit => WebInv
<1> SUFFICES ASSUME WebInit PROVE WebInv
  OBVIOUS
<1>1. WebTypeOK
  BY DEF WebInit, WebTypeOK, Bodies
<1>2. AnsweredAtTheEnd /\ UnjudgedHasNone
  BY DEF WebInit, AnsweredAtTheEnd, UnjudgedHasNone
<1>3. RepliesAreJudged
  BY DEF WebInit, RepliesAreJudged, RefusedReplyStaysIn
<1>4. \A c \in Conversations : SeenOf(c) = {}
  BY DEF WebInit, SeenOf, HandedOn
<1>5. SessionKnows
  BY <1>4, SetSumOfNothing, WebAssumption, SMTT(40) DEF WebInit, SessionKnows
<1> QED BY <1>1, <1>2, <1>3, <1>5 DEF WebInv

(* No request more is handed on.                                            *)
LEMMA NothingMoreSeen ==
  ASSUME WebInv, WebTypeOK', UNCHANGED <<options, of>>, HandedOn' = HandedOn,
         \A r \in HandedOn : weight'[r] = weight[r],
         \A c \in Conversations : risk'[c] >= risk[c]
  PROVE  SessionKnows'
<1> SUFFICES ASSUME options.sessions, NEW c \in Conversations
             PROVE  /\ SetSum(weight', SeenOf(c)') <= risk'[c]
                    /\ SetSum(weight', SeenOf(c)') < Threshold
  BY DEF SessionKnows
<1>1. SeenOf(c)' = SeenOf(c)
  BY DEF SeenOf
<1>2. IsFiniteSet(SeenOf(c)) /\ SeenOf(c) \subseteq HandedOn
  BY HandedOnIsFinite
<1>3. SetSum(weight', SeenOf(c)) = SetSum(weight, SeenOf(c))
  BY <1>2, SetSumSame
<1>4. SetSum(weight, SeenOf(c)) \in Nat
  BY <1>2, SetSumType DEF WebInv, WebTypeOK, HandedOn
<1>5. SetSum(weight, SeenOf(c)) <= risk[c] /\ SetSum(weight, SeenOf(c)) < Threshold
  BY DEF WebInv, SessionKnows
<1>6. risk[c] \in Nat /\ risk'[c] \in Nat
  BY DEF WebInv, WebTypeOK
<1> QED BY <1>1, <1>3, <1>4, <1>5, <1>6, WebAssumption

(* One is, with a weight that the session has room for.                     *)
LEMMA OneMoreSeen ==
  ASSUME WebInv, WebTypeOK', UNCHANGED <<options, of>>,
         NEW r \in WebRequests, r \notin HandedOn, HandedOn' = HandedOn \cup {r},
         \A q \in HandedOn : weight'[q] = weight[q],
         options.sessions =>
           /\ \A c \in Conversations : c # of[r] => risk'[c] = risk[c]
           /\ risk'[of[r]] = risk[of[r]] + weight'[r]
           /\ weight'[r] = 0 \/ risk'[of[r]] < Threshold
  PROVE  SessionKnows'
<1> SUFFICES ASSUME options.sessions, NEW c \in Conversations
             PROVE  /\ SetSum(weight', SeenOf(c)') <= risk'[c]
                    /\ SetSum(weight', SeenOf(c)') < Threshold
  BY DEF SessionKnows
<1> DEFINE S == SeenOf(c)
           total == SetSum(weight, S)
<1>1. IsFiniteSet(S) /\ S \subseteq HandedOn
  BY HandedOnIsFinite
<1>2. SetSum(weight', S) = total
  BY <1>1, SetSumSame
<1>3. total \in Nat
  BY <1>1, SetSumType DEF WebInv, WebTypeOK, HandedOn
<1>4. total <= risk[c] /\ total < Threshold
  BY DEF WebInv, SessionKnows
<1>5. risk[c] \in Nat /\ risk'[c] \in Nat /\ weight'[r] \in Nat
  BY DEF WebInv, WebTypeOK
<1>6. CASE c = of[r]
  <2>1. SeenOf(c)' = S \cup {r}
    BY <1>6 DEF SeenOf
  <2>2. r \notin S /\ \A q \in S \cup {r} : weight'[q] \in Nat
    BY <1>1 DEF WebTypeOK, HandedOn
  <2>3. SetSum(weight', S \cup {r}) = weight'[r] + SetSum(weight', S)
    <3>1. /\ IsFiniteSet(SeenOf(c)) /\ r \notin SeenOf(c)
          /\ \A q \in SeenOf(c) \cup {r} : weight'[q] \in Nat
      BY <1>1, <2>2
    <3> QED BY <3>1, SetSumAdds
  <2>4. SetSum(weight', SeenOf(c)') = weight'[r] + total
    BY <2>1, <2>3, <1>2
  <2>5. /\ risk'[c] = risk[c] + weight'[r]
        /\ weight'[r] = 0 \/ risk'[c] < Threshold
    BY <1>6
  <2> HIDE DEF S, total
  <2> QED BY <2>4, <2>5, <1>3, <1>4, <1>5, WebAssumption
<1>7. CASE c # of[r]
  <2>1. SeenOf(c)' = S
    BY <1>7 DEF SeenOf
  <2> QED BY <2>1, <1>2, <1>4, <1>7
<1> QED BY <1>6, <1>7

(* A request that is turned away is handed on to nobody.                    *)
LEMMA TurnAwayStep ==
  ASSUME WebInv, NEW r \in WebRequests, stage[r] \in {"away", "judging"}, TurnAway(r),
         UNCHANGED using
  PROVE  /\ HandedOn' = HandedOn
         /\ stage' \in [WebRequests -> {"away", "judging", "handling", "replying", "over"}]
         /\ written' \in [WebRequests -> SUBSET {"fine", "bad", "object", "refusal", "notice"}]
         /\ answer' \in [WebRequests -> {"none", "refusal", "error", "reply", "filtered"}]
         /\ stage'[r] # "over" => answer'[r] = "none"
         /\ answer'[r] # "reply"
         /\ stage'[r] \notin {"away", "judging"}
         /\ \A q \in WebRequests : q # r =>
              stage'[q] = stage[q] /\ answer'[q] = answer[q] /\ written'[q] = written[q]
<1> USE DEF WebInv, WebTypeOK, TurnAway, Over, Go, Write
<1>1. answer[r] = "none"
  BY DEF AnsweredAtTheEnd
<1>2. /\ stage' \in [WebRequests -> {"away", "judging", "handling", "replying", "over"}]
      /\ written' \in [WebRequests -> SUBSET {"fine", "bad", "object", "refusal", "notice"}]
      /\ answer' \in [WebRequests -> {"none", "refusal", "error", "reply", "filtered"}]
  OBVIOUS
<1>3. /\ stage'[r] # "over" => answer'[r] = "none"
      /\ answer'[r] # "reply"
      /\ stage'[r] \notin {"away", "judging"}
  BY <1>1
<1>4. \A q \in WebRequests : q # r =>
        stage'[q] = stage[q] /\ answer'[q] = answer[q] /\ written'[q] = written[q]
  OBVIOUS
<1>5. refused' = refused \cup {r}
  OBVIOUS
<1>6. \A q \in WebRequests : q \in HandedOn' <=> q \in HandedOn
  BY <1>4, <1>5 DEF HandedOn
<1>7. HandedOn' = HandedOn
  BY <1>6 DEF HandedOn
<1> QED BY <1>2, <1>3, <1>4, <1>7

(* One that is handed on is handed on to the handler.                       *)
LEMMA HandOnStep ==
  ASSUME WebInv, NEW r \in WebRequests, stage[r] \in {"away", "judging"}, HandOn(r)
  PROVE  /\ r \notin HandedOn
         /\ HandedOn' = HandedOn \cup ({r} \ refused)
         /\ stage' = [stage EXCEPT ![r] = "handling"]
         /\ UNCHANGED <<written, answer, refused>>
<1>1. stage' = [stage EXCEPT ![r] = "handling"] /\ UNCHANGED <<written, answer, refused>>
  BY DEF HandOn, Go
<1>2. r \notin HandedOn
  BY DEF HandedOn
<1>3. HandedOn' = HandedOn \cup ({r} \ refused)
  BY <1>1 DEF HandedOn, WebInv, WebTypeOK
<1> QED BY <1>1, <1>2, <1>3

(* A request arrives and is measured, passed by or refused outright.        *)
LEMMA ArrivesStep ==
  ASSUME WebInv, NEW r \in WebRequests, NEW b \in Bodies, Arrives(r, b)
  PROVE  WebInv'
<1>1. /\ stage[r] = "away" /\ body' = [body EXCEPT ![r] = b]
      /\ UNCHANGED <<using, options, of, risk, weight>>
  BY DEF Arrives
<1>2. answer[r] = "none"
  BY <1>1 DEF WebInv, AnsweredAtTheEnd
<1>3. ASSUME TurnAway(r)
      PROVE  WebInv'
  <2>1. WebTypeOK'
    BY <1>1, <1>3, TurnAwayStep DEF WebInv, WebTypeOK
  <2>2. AnsweredAtTheEnd'
    BY <1>1, <1>3, TurnAwayStep DEF WebInv, AnsweredAtTheEnd
  <2>3. RepliesAreJudged'
    BY <1>1, <1>3, TurnAwayStep DEF WebInv, WebTypeOK, RepliesAreJudged, RefusedReplyStaysIn
  <2>4. UnjudgedHasNone'
    BY <1>1, <1>3, TurnAwayStep DEF WebInv, UnjudgedHasNone
  <2>5. HandedOn' = HandedOn
    BY <1>1, <1>3, TurnAwayStep
  <2>6. \A c \in Conversations : risk'[c] >= risk[c]
    BY <1>1 DEF WebInv, WebTypeOK
  <2>7. SessionKnows'
    BY <1>1, <2>1, <2>5, <2>6, NothingMoreSeen
  <2> QED BY <2>1, <2>2, <2>3, <2>4, <2>7 DEF WebInv
<1>4. ASSUME HandOn(r)
      PROVE  WebInv'
  <2>1. /\ r \notin HandedOn
        /\ HandedOn' = HandedOn \cup ({r} \ refused)
        /\ stage' = [stage EXCEPT ![r] = "handling"]
        /\ UNCHANGED <<written, answer, refused>>
    BY <1>1, <1>4, HandOnStep
  <2>2. WebTypeOK'
    BY <1>1, <2>1 DEF WebInv, WebTypeOK
  <2>3. AnsweredAtTheEnd' /\ UnjudgedHasNone'
    BY <1>1, <1>2, <2>1 DEF WebInv, WebTypeOK, AnsweredAtTheEnd, UnjudgedHasNone
  <2>4. RepliesAreJudged'
    BY <1>1, <1>2, <2>1 DEF WebInv, WebTypeOK, RepliesAreJudged, RefusedReplyStaysIn
  <2>5. \A c \in Conversations : risk'[c] >= risk[c]
    BY <1>1 DEF WebInv, WebTypeOK
  <2>6. weight[r] = 0 /\ of[r] \in Conversations /\ risk[of[r]] \in Nat
    BY <1>1 DEF WebInv, WebTypeOK, UnjudgedHasNone
  <2>7. SessionKnows'
    <3>1. CASE r \in refused
      <4>1. HandedOn' = HandedOn
        BY <2>1, <3>1
      <4> QED BY <1>1, <2>2, <2>5, <4>1, NothingMoreSeen
    <3>2. CASE r \notin refused
      <4>1. HandedOn' = HandedOn \cup {r}
        BY <2>1, <3>2
      <4>2. /\ risk'[of[r]] = risk[of[r]] + weight'[r]
            /\ weight'[r] = 0
        BY <1>1, <2>6
      <4> QED BY <1>1, <2>1, <2>2, <4>1, <4>2, OneMoreSeen
    <3> QED BY <3>1, <3>2
  <2> QED BY <2>2, <2>3, <2>4, <2>7 DEF WebInv
<1>5. ASSUME Go(r, "judging"), UNCHANGED <<written, answer, refused>>
      PROVE  WebInv'
  <2>1. stage' = [stage EXCEPT ![r] = "judging"]
    BY <1>5 DEF Go
  <2>2. WebTypeOK'
    BY <1>1, <1>5, <2>1 DEF WebInv, WebTypeOK
  <2>3. AnsweredAtTheEnd' /\ UnjudgedHasNone'
    BY <1>1, <1>2, <1>5, <2>1 DEF WebInv, WebTypeOK, AnsweredAtTheEnd, UnjudgedHasNone
  <2>4. RepliesAreJudged'
    BY <1>1, <1>2, <1>5, <2>1 DEF WebInv, WebTypeOK, RepliesAreJudged, RefusedReplyStaysIn
  <2>5. \A c \in Conversations : risk'[c] >= risk[c]
    BY <1>1 DEF WebInv, WebTypeOK
  <2>6. HandedOn' = HandedOn
    BY <1>1, <1>5, <2>1 DEF HandedOn, WebInv, WebTypeOK
  <2>7. SessionKnows'
    BY <1>1, <2>2, <2>5, <2>6, NothingMoreSeen
  <2> QED BY <2>2, <2>3, <2>4, <2>7 DEF WebInv
<1> QED BY <1>3, <1>4, <1>5 DEF Arrives

(* The engine judges a request: only one that leaves the session below the  *)
(* threshold is handed on.                                                  *)
LEMMA RequestJudgedStep ==
  ASSUME WebInv, NEW r \in WebRequests, NEW allowed \in BOOLEAN, NEW w \in Weights,
         RequestJudged(r, allowed, w)
  PROVE  WebInv'
<1>1. /\ stage[r] = "judging"
      /\ weight' = [weight EXCEPT ![r] = w]
      /\ risk' = IF options.sessions THEN [risk EXCEPT ![of[r]] = @ + w] ELSE risk
      /\ UNCHANGED <<using, options, of, body, consumed>>
  BY DEF RequestJudged
<1>2. answer[r] = "none" /\ weight[r] = 0 /\ w \in Nat /\ of[r] \in Conversations
  BY <1>1, WebAssumption DEF WebInv, WebTypeOK, AnsweredAtTheEnd, UnjudgedHasNone
<1>3. risk' \in [Conversations -> Nat] /\ weight' \in [WebRequests -> Nat]
  BY <1>1, <1>2 DEF WebInv, WebTypeOK
<1>4. /\ \A c \in Conversations : risk'[c] >= risk[c]
      /\ options.sessions =>
           /\ \A c \in Conversations : c # of[r] => risk'[c] = risk[c]
           /\ risk'[of[r]] = risk[of[r]] + weight'[r]
  BY <1>1, <1>2 DEF WebInv, WebTypeOK
<1>5. r \notin HandedOn /\ \A q \in HandedOn : weight'[q] = weight[q]
  BY <1>1 DEF HandedOn, WebInv, WebTypeOK
<1>6. ASSUME TurnAway(r)
      PROVE  WebInv'
  <2>1. WebTypeOK'
    BY <1>1, <1>3, <1>6, TurnAwayStep DEF WebInv, WebTypeOK
  <2>2. AnsweredAtTheEnd'
    BY <1>1, <1>6, TurnAwayStep DEF WebInv, AnsweredAtTheEnd
  <2>3. RepliesAreJudged'
    BY <1>1, <1>6, TurnAwayStep DEF WebInv, WebTypeOK, RepliesAreJudged, RefusedReplyStaysIn
  <2>4. UnjudgedHasNone'
    BY <1>1, <1>6, TurnAwayStep DEF WebInv, WebTypeOK, UnjudgedHasNone
  <2>5. HandedOn' = HandedOn
    BY <1>1, <1>6, TurnAwayStep
  <2>6. SessionKnows'
    BY <1>1, <1>4, <1>5, <2>1, <2>5, NothingMoreSeen
  <2> QED BY <2>1, <2>2, <2>3, <2>4, <2>6 DEF WebInv
<1>7. ASSUME HandOn(r), ~(options.sessions /\ w > 0 /\ risk'[of[r]] >= Threshold)
      PROVE  WebInv'
  <2>1. /\ HandedOn' = HandedOn \cup ({r} \ refused)
        /\ stage' = [stage EXCEPT ![r] = "handling"]
        /\ UNCHANGED <<written, answer, refused>>
    BY <1>1, <1>7, HandOnStep
  <2>2. WebTypeOK'
    BY <1>1, <1>3, <2>1 DEF WebInv, WebTypeOK
  <2>3. AnsweredAtTheEnd' /\ UnjudgedHasNone'
    BY <1>1, <1>2, <2>1 DEF WebInv, WebTypeOK, AnsweredAtTheEnd, UnjudgedHasNone
  <2>4. RepliesAreJudged'
    BY <1>1, <1>2, <2>1 DEF WebInv, WebTypeOK, RepliesAreJudged, RefusedReplyStaysIn
  <2>5. SessionKnows'
    <3>1. CASE r \in refused
      <4>1. HandedOn' = HandedOn
        BY <2>1, <3>1
      <4> QED BY <1>1, <1>4, <1>5, <2>2, <4>1, NothingMoreSeen
    <3>2. CASE r \notin refused
      <4>1. HandedOn' = HandedOn \cup {r}
        BY <2>1, <3>2
      <4>2. weight'[r] = w
        BY <1>1 DEF WebInv, WebTypeOK
      <4>3. options.sessions => weight'[r] = 0 \/ risk'[of[r]] < Threshold
        <5>1. risk'[of[r]] \in Nat
          BY <1>2, <1>3
        <5> QED BY <1>2, <1>7, <4>2, <5>1, WebAssumption
      <4> QED BY <1>1, <1>4, <1>5, <2>2, <4>1, <4>3, OneMoreSeen
    <3> QED BY <3>1, <3>2
  <2> QED BY <2>2, <2>3, <2>4, <2>5 DEF WebInv
<1> QED BY <1>6, <1>7 DEF RequestJudged

(* What leaves the sessions alone and hands nobody on.                      *)
LEMMA ReplySteps ==
  ASSUME WebInv, UNCHANGED <<using, options, of, body, risk, weight>>, NEW r \in WebRequests,
         stage[r] \in {"judging", "handling", "replying"},
         stage' \in [WebRequests -> {"away", "judging", "handling", "replying", "over"}],
         written' \in [WebRequests -> SUBSET {"fine", "bad", "object", "refusal", "notice"}],
         answer' \in [WebRequests -> {"none", "refusal", "error", "reply", "filtered"}],
         stage'[r] \in {"replying", "over"},
         stage[r] = "judging" => r \in refused',
         stage[r] # "judging" => UNCHANGED refused,
         refused' \subseteq refused \cup {r}, refused \subseteq refused',
         stage'[r] # "over" => answer'[r] = "none",
         using.name # "express" /\ "object" \notin written'[r] => RefusedReplyStaysIn(r)',
         \A q \in WebRequests : q # r =>
           stage'[q] = stage[q] /\ answer'[q] = answer[q] /\ written'[q] = written[q]
  PROVE  WebInv'
<1>1. WebTypeOK'
  BY DEF WebInv, WebTypeOK
<1>2. AnsweredAtTheEnd' /\ UnjudgedHasNone'
  BY DEF WebInv, AnsweredAtTheEnd, UnjudgedHasNone
<1>3. RepliesAreJudged'
  BY DEF WebInv, RepliesAreJudged, RefusedReplyStaysIn
<1>4. \A q \in WebRequests : q \in HandedOn' <=> q \in HandedOn
  BY DEF HandedOn
<1>5. HandedOn' = HandedOn
  BY <1>4 DEF HandedOn
<1>6. \A c \in Conversations : risk'[c] >= risk[c]
  BY DEF WebInv, WebTypeOK
<1>7. SessionKnows'
  BY <1>1, <1>5, <1>6, NothingMoreSeen
<1> QED BY <1>1, <1>2, <1>3, <1>7 DEF WebInv

(* An engine that fails ends the request with an error: it is not handed    *)
(* on.                                                                      *)
LEMMA EngineFailsStep ==
  ASSUME WebInv, NEW r \in WebRequests, EngineFails(r)
  PROVE  WebInv'
<1> USE DEF EngineFails, Over, Go, WebInv, WebTypeOK
<1>1. RefusedReplyStaysIn(r)'
  BY DEF RefusedReplyStaysIn
<1>2. stage'[r] = "over" /\ r \in refused'
  OBVIOUS
<1> QED BY <1>1, <1>2, ReplySteps

(* The handler writes a reply, which waits for its judgement where there is *)
(* one.                                                                     *)
LEMMA HandlerRepliesStep ==
  ASSUME WebInv, NEW r \in WebRequests, NEW how \in {"whole", "object", "pieces"},
         NEW part \in {"fine", "bad"}, HandlerReplies(r, how, part)
  PROVE  WebInv'
<1> USE DEF HandlerReplies, Over, Go, Write, WebInv, WebTypeOK
<1>1. answer[r] = "none"
  BY DEF AnsweredAtTheEnd
<1>2. using.name # "express" => RefusedReplyStaysIn(r)'
  BY <1>1 DEF RefusedReplyStaysIn, RepliesWrapped
<1>3. stage'[r] \in {"replying", "over"} /\ (stage'[r] # "over" => answer'[r] = "none")
  BY <1>1
<1>4. /\ stage' \in [WebRequests -> {"away", "judging", "handling", "replying", "over"}]
      /\ written' \in [WebRequests -> SUBSET {"fine", "bad", "object", "refusal", "notice"}]
      /\ answer' \in [WebRequests -> {"none", "refusal", "error", "reply", "filtered"}]
  OBVIOUS
<1>5. \A q \in WebRequests : q # r =>
           stage'[q] = stage[q] /\ answer'[q] = answer[q] /\ written'[q] = written[q]
  OBVIOUS
<1>6. /\ stage[r] = "handling" /\ UNCHANGED <<using, options, of, body, risk, weight, refused>>
  OBVIOUS
<1> QED BY <1>2, <1>3, <1>4, <1>5, <1>6, ReplySteps

(* A handler that fails answers with an error.                              *)
LEMMA HandlerFailsStep ==
  ASSUME WebInv, NEW r \in WebRequests, HandlerFails(r)
  PROVE  WebInv'
<1> USE DEF HandlerFails, Over, Go, WebInv, WebTypeOK
<1>1. RefusedReplyStaysIn(r)'
  BY DEF RefusedReplyStaysIn
<1> QED BY <1>1, ReplySteps

(* A judged reply is sent as it is only if the engine lets it.              *)
LEMMA ReplyJudgedStep ==
  ASSUME WebInv, NEW r \in WebRequests, ReplyJudged(r)
  PROVE  WebInv'
<1> USE DEF ReplyJudged, ExpressReplyJudged, ReplyReplaced, Over, Go, Write, WebInv, WebTypeOK
<1>1. answer[r] = "none"
  BY DEF AnsweredAtTheEnd
<1>2. using.name # "express" /\ "object" \notin written'[r] => RefusedReplyStaysIn(r)'
  BY DEF RefusedReplyStaysIn, Seen
<1>3. stage'[r] \in {"replying", "over"} /\ (stage'[r] # "over" => answer'[r] = "none")
  BY <1>1
<1>4. /\ stage' \in [WebRequests -> {"away", "judging", "handling", "replying", "over"}]
      /\ written' \in [WebRequests -> SUBSET {"fine", "bad", "object", "refusal", "notice"}]
      /\ answer' \in [WebRequests -> {"none", "refusal", "error", "reply", "filtered"}]
  OBVIOUS
<1>5. \A q \in WebRequests : q # r =>
           stage'[q] = stage[q] /\ answer'[q] = answer[q] /\ written'[q] = written[q]
  OBVIOUS
<1>6. /\ stage[r] = "replying" /\ UNCHANGED <<using, options, of, body, risk, weight, refused>>
  OBVIOUS
<1> QED BY <1>2, <1>3, <1>4, <1>5, <1>6, ReplySteps

(* Every step of every request keeps the invariant.                         *)
LEMMA WebInvStep == WebInv /\ [WebNext]_webVars => WebInv'
<1> SUFFICES ASSUME WebInv, [WebNext]_webVars PROVE WebInv'
  OBVIOUS
<1>1. ASSUME NEW r \in WebRequests, Served(r) PROVE WebInv'
  BY <1>1, RequestJudgedStep, EngineFailsStep, HandlerRepliesStep, HandlerFailsStep,
     ReplyJudgedStep DEF Served
<1>2. ASSUME NEW r \in WebRequests, NEW b \in Bodies, Arrives(r, b) PROVE WebInv'
  BY <1>2, ArrivesStep
<1>3. CASE UNCHANGED webVars
  BY <1>3 DEF webVars, WebInv, WebTypeOK, AnsweredAtTheEnd, RepliesAreJudged,
    RefusedReplyStaysIn, UnjudgedHasNone, SessionKnows, SeenOf, HandedOn
<1> QED BY <1>1, <1>2, <1>3 DEF WebNext

(* The fold that the property sums with is the sum the invariant bounds.    *)
LEMMA WebInvSuffices == WebInv => ConversationStaysBelow
<1> SUFFICES ASSUME WebInv, options.sessions, NEW c \in Conversations
             PROVE  MapThenSumSet(LAMBDA r : weight[r], {r \in HandedOn : of[r] = c}) < Threshold
  BY DEF ConversationStaysBelow
<1>1. SetSum(weight, SeenOf(c)) < Threshold
  BY DEF WebInv, SessionKnows
<1>2. MapThenSumSet(LAMBDA r : weight[r], {r \in HandedOn : of[r] = c}) = SetSum(weight, SeenOf(c))
  BY Zenon DEF MapThenSumSet, MapThenFoldSet, SetSum, SetSums, Picked, SeenOf
<1> QED BY <1>1, <1>2

(* For any number of requests, of any weight and in any interleaving: what  *)
(* the application got to see of a conversation stays below the threshold   *)
(* (session risk, as the middlewares apply it), although each request was   *)
(* measured against an earlier look at the session.                         *)
THEOREM ConversationsStayBelow == WebSpec => []ConversationStaysBelow
<1>1. WebInit => WebInv
  BY WebInvInit
<1>2. WebInv /\ [WebNext]_webVars => WebInv'
  BY WebInvStep
<1>3. WebInv => ConversationStaysBelow
  BY WebInvSuffices
<1> QED BY <1>1, <1>2, <1>3, PTL DEF WebSpec

(* For any requests: a reply the engine refuses does not reach the client   *)
(* from any of the frameworks but Express, where replies are looked at, if  *)
(* it is not an object that Nest's extractor reduces to a constant          *)
(* (runResponseValidation, handleWithOutputValidation).                     *)
THEOREM RepliesKeepBadPartsIn == WebSpec => []RepliesAreJudged
<1>1. WebInit => WebInv
  BY WebInvInit
<1>2. WebInv /\ [WebNext]_webVars => WebInv'
  BY WebInvStep
<1>3. WebInv => RepliesAreJudged
  BY DEF WebInv
<1> QED BY <1>1, <1>2, <1>3, PTL DEF WebSpec

-------------------------------------------------------------------------------
(***************************************************************************)
(* The runtimes that replay a run.  What is told is tied to where it is    *)
(* kept: the journal, or an entry of the cache.                            *)
(***************************************************************************)
(* The verdicts, and the states an attempt of a run goes through.           *)
Verdict == {"allow", "block"}

AttemptStates == {"queued", "judging", "validating", "judged", "decided", "done", "failed"}

(* The type invariant.                                                      *)
DurableTypeOK ==
  /\ under \in DOMAIN Runtime
  /\ backend \in {"none", "memory", "shared"}
  /\ worker \in Nat
  /\ memo \subseteq [key : (Nat \X (Runs \cup {"all"})), verdict : Verdict]
  /\ journal \in [Runs -> Verdict \cup {"none"}]
  /\ attempt \in [Runs -> [state : AttemptStates, verdict : Verdict \cup {"none"}]]
  /\ told \in [Runs -> SUBSET Verdict]
  /\ lost \in [Runs -> BOOLEAN]
  /\ failures \in [Runs -> Nat]

(* A verdict is there where one is said to be.                              *)
HasVerdict(r) ==
  attempt[r].state \in {"judged", "decided"} => attempt[r].verdict \in Verdict

(* What a journal has recorded is what every attempt is told, and no        *)
(* attempt judges behind it.                                                *)
KeptInJournal(r) ==
  /\ told[r] \subseteq {journal[r]}
  /\ At(r, "decided") => journal[r] = attempt[r].verdict
  /\ attempt[r].state \in {"judging", "validating", "judged"} => journal[r] = "none"

(* No other runtime writes a journal.                                       *)
NoJournal(r) == journal[r] = "none"

(* Without one the entry of the cache takes its place.                      *)
KeptInCache(r) ==
  /\ told[r] # {} => Cached(r) # {}
  /\ \A e \in Cached(r) : told[r] \subseteq {e.verdict}
  /\ attempt[r].state \in {"judged", "decided"} =>
       \E e \in Cached(r) : e.verdict = attempt[r].verdict
  /\ At(r, "validating") => told[r] = {}

(* The cache holds one entry under a key.                                   *)
OneEntryPerKey == \A e, f \in memo : e.key = f.key => e = f

(* What holds of every run.                                                *)
Fine(r) ==
  /\ HasVerdict(r)
  /\ is.journaled => KeptInJournal(r)
  /\ ~is.journaled => NoJournal(r)
  /\ ~is.journaled /\ ~lost[r] => KeptInCache(r)

(* The inductive invariant: one entry under a key, and every run in order.  *)
DurableInv ==
  /\ DurableTypeOK
  /\ OneEntryPerKey
  /\ \A r \in Runs : Fine(r)

(* It holds before the first attempt, when nothing is kept anywhere.        *)
LEMMA DurableInvInit == DurableInit => DurableInv
<1> SUFFICES ASSUME DurableInit PROVE DurableInv
  OBVIOUS
<1>1. DurableTypeOK
  BY DEF DurableInit, DurableTypeOK, Queued, Verdict, AttemptStates, Backends
<1>2. OneEntryPerKey
  BY DEF DurableInit, OneEntryPerKey
<1>3. ASSUME NEW r \in Runs
      PROVE  HasVerdict(r) /\ KeptInJournal(r) /\ NoJournal(r) /\ KeptInCache(r)
  BY DEF DurableInit, HasVerdict, KeptInJournal, NoJournal, KeptInCache, Cached, At, Queued
<1> QED BY <1>1, <1>2, <1>3 DEF DurableInv, Fine

(* A step that leaves the cache as it is, and touches the attempt of one    *)
(* run only.                                                                *)
LEMMA OthersStay ==
  ASSUME DurableInv, NEW r \in Runs,
         UNCHANGED <<under, backend, worker, memo>>,
         NEW q \in Runs, q # r,
         attempt'[q] = attempt[q], journal'[q] = journal[q], told'[q] = told[q],
         lost'[q] = lost[q]
  PROVE  Fine(q)'
<1>1. HasVerdict(q)'
  BY DEF DurableInv, Fine, HasVerdict
<1>2. is' = is
  BY DEF is
<1>3. Cached(q)' = Cached(q)
  BY <1>2 DEF Cached, KeyOfRun
<1>4. (is.journaled => KeptInJournal(q))'
  BY <1>2 DEF DurableInv, Fine, KeptInJournal, At
<1>5. (~is.journaled => NoJournal(q))'
  BY <1>2 DEF DurableInv, Fine, NoJournal
<1>6. (~is.journaled /\ ~lost[q] => KeptInCache(q))'
  BY <1>2, <1>3 DEF DurableInv, Fine, KeptInCache, At
<1> QED BY <1>1, <1>4, <1>5, <1>6 DEF Fine


(* A run has one entry of the cache at most, and its verdict is one.        *)
LEMMA CachedFacts ==
  ASSUME DurableInv, NEW r \in Runs
  PROVE  /\ \A e \in Cached(r) : e.verdict \in Verdict
         /\ \A e, f \in Cached(r) : e = f
BY DEF DurableInv, DurableTypeOK, OneEntryPerKey, Cached

(* A new attempt of a run starts with the verdict its journal has, if any.  *)
LEMMA StartAttemptStep ==
  ASSUME DurableInv, NEW r \in Runs, StartAttempt(r)
  PROVE  DurableInv'
<1> USE DEF Verdict, AttemptStates
<1>1. DurableTypeOK'
  BY DEF DurableInv, DurableTypeOK, StartAttempt, Moves, At, Queued
<1>2. OneEntryPerKey'
  BY DEF DurableInv, OneEntryPerKey, StartAttempt
<1>3. HasVerdict(r)'
  BY DEF DurableInv, Fine, DurableTypeOK, HasVerdict, StartAttempt, Moves, At, Queued
<1>4. is' = is /\ Cached(r)' = Cached(r)
  BY DEF Cached, KeyOfRun, StartAttempt, is
<1>5. (is.journaled => KeptInJournal(r))'
  BY <1>4 DEF DurableInv, Fine, HasVerdict, DurableTypeOK, KeptInJournal, StartAttempt, Moves, At, Queued
<1>6. (~is.journaled => NoJournal(r))'
  BY <1>4 DEF DurableInv, Fine, NoJournal, StartAttempt
<1>7. (~is.journaled /\ ~lost[r] => KeptInCache(r))'
  BY <1>4 DEF DurableInv, Fine, HasVerdict, DurableTypeOK, NoJournal, KeptInCache, StartAttempt, Moves, At, Queued
<1>8. ASSUME NEW q \in Runs, q # r PROVE Fine(q)'
  BY <1>8, OthersStay DEF DurableInv, DurableTypeOK, StartAttempt, Moves
<1> QED BY <1>1, <1>2, <1>3, <1>5, <1>6, <1>7, <1>8 DEF DurableInv, Fine

(* An attempt that finds an entry is told what the entry says.              *)
LEMMA LooksUpStep ==
  ASSUME DurableInv, NEW r \in Runs, LooksUp(r)
  PROVE  DurableInv'
<1> USE DEF Verdict, AttemptStates
<1>0. /\ \A e \in Cached(r) : e.verdict \in Verdict
      /\ \A e, f \in Cached(r) : e = f
  BY CachedFacts
<1>1. DurableTypeOK'
  BY <1>0 DEF DurableInv, DurableTypeOK, LooksUp, Moves, At, Queued
<1>2. OneEntryPerKey'
  BY DEF DurableInv, OneEntryPerKey, LooksUp
<1>3. HasVerdict(r)'
  BY <1>0 DEF DurableInv, Fine, DurableTypeOK, HasVerdict, LooksUp, Moves, At, Queued
<1>4. is' = is /\ Cached(r)' = Cached(r)
  BY DEF Cached, KeyOfRun, LooksUp, is
<1>5. (is.journaled => KeptInJournal(r))'
  BY <1>4 DEF DurableInv, Fine, HasVerdict, DurableTypeOK, KeptInJournal, LooksUp, Moves, At, Queued
<1>6. (~is.journaled => NoJournal(r))'
  BY <1>4 DEF DurableInv, Fine, NoJournal, LooksUp
<1>7. (~is.journaled /\ ~lost[r] => KeptInCache(r))'
  BY <1>0, <1>4 DEF DurableInv, Fine, HasVerdict, DurableTypeOK, NoJournal, KeptInCache, LooksUp, Moves, At, Queued
<1>8. ASSUME NEW q \in Runs, q # r PROVE Fine(q)'
  BY <1>8, OthersStay DEF DurableInv, DurableTypeOK, LooksUp, Moves
<1> QED BY <1>1, <1>2, <1>3, <1>5, <1>6, <1>7, <1>8 DEF DurableInv, Fine

(* What an attempt has judged goes to the journal, and stands from then on. *)
LEMMA DecidesStep ==
  ASSUME DurableInv, NEW r \in Runs, Decides(r)
  PROVE  DurableInv'
<1> USE DEF Verdict, AttemptStates
<1>1. DurableTypeOK'
  BY DEF DurableInv, DurableTypeOK, Decides, Moves, At, Queued
<1>2. OneEntryPerKey'
  BY DEF DurableInv, OneEntryPerKey, Decides
<1>3. HasVerdict(r)'
  BY DEF DurableInv, Fine, DurableTypeOK, HasVerdict, Decides, Moves, At, Queued
<1>4. is' = is /\ Cached(r)' = Cached(r)
  BY DEF Cached, KeyOfRun, Decides, is
<1>5. (is.journaled => KeptInJournal(r))'
  BY <1>4 DEF DurableInv, Fine, HasVerdict, DurableTypeOK, KeptInJournal, Decides, Moves, At, Queued
<1>6. (~is.journaled => NoJournal(r))'
  BY <1>4 DEF DurableInv, Fine, NoJournal, Decides
<1>7. (~is.journaled /\ ~lost[r] => KeptInCache(r))'
  BY <1>4 DEF DurableInv, Fine, HasVerdict, DurableTypeOK, NoJournal, KeptInCache, Decides, Moves, At, Queued
<1>8. ASSUME NEW q \in Runs, q # r PROVE Fine(q)'
  BY <1>8, OthersStay DEF DurableInv, DurableTypeOK, Decides, Moves
<1> QED BY <1>1, <1>2, <1>3, <1>5, <1>6, <1>7, <1>8 DEF DurableInv, Fine

(* The run acts on the verdict, which is the one that is kept.              *)
LEMMA ActsStep ==
  ASSUME DurableInv, NEW r \in Runs, Acts(r)
  PROVE  DurableInv'
<1> USE DEF Verdict, AttemptStates
<1>0. /\ \A e \in Cached(r) : e.verdict \in Verdict
      /\ \A e, f \in Cached(r) : e = f
  BY CachedFacts
<1>1. DurableTypeOK'
  BY DEF DurableInv, DurableTypeOK, Acts, Moves, At, Queued
<1>2. OneEntryPerKey'
  BY DEF DurableInv, OneEntryPerKey, Acts
<1>3. HasVerdict(r)'
  BY DEF DurableInv, Fine, DurableTypeOK, HasVerdict, Acts, Moves, At, Queued
<1>4. is' = is /\ Cached(r)' = Cached(r)
  BY DEF Cached, KeyOfRun, Acts, is
<1>5. (is.journaled => KeptInJournal(r))'
  BY <1>4 DEF DurableInv, Fine, HasVerdict, DurableTypeOK, KeptInJournal, Acts, Moves, At, Queued
<1>6. (~is.journaled => NoJournal(r))'
  BY <1>4 DEF DurableInv, Fine, NoJournal, Acts
<1>7. (~is.journaled /\ ~lost[r] => KeptInCache(r))'
  BY <1>0, <1>4 DEF DurableInv, Fine, HasVerdict, DurableTypeOK, NoJournal, KeptInCache, Acts, Moves, At, Queued
<1>8. ASSUME NEW q \in Runs, q # r PROVE Fine(q)'
  BY <1>8, OthersStay DEF DurableInv, DurableTypeOK, Acts, Moves
<1> QED BY <1>1, <1>2, <1>3, <1>5, <1>6, <1>7, <1>8 DEF DurableInv, Fine

(* A run that fails, before it is judged or behind an accepted input, is    *)
(* tried again; what is told is the verdict that is kept.                   *)
LEMMA FailsOnceStep ==
  ASSUME DurableInv, NEW r \in Runs, FailsOnce(r)
  PROVE  DurableInv'
<1> USE DEF Verdict, AttemptStates
<1>0. /\ \A e \in Cached(r) : e.verdict \in Verdict
      /\ \A e, f \in Cached(r) : e = f
  BY CachedFacts
<1>1. DurableTypeOK'
  BY DEF DurableInv, DurableTypeOK, FailsOnce, Moves, At, Queued
<1>2. OneEntryPerKey'
  BY DEF DurableInv, OneEntryPerKey, FailsOnce
<1>3. HasVerdict(r)'
  BY DEF DurableInv, Fine, DurableTypeOK, HasVerdict, FailsOnce, Moves, At, Queued
<1>4. is' = is /\ Cached(r)' = Cached(r)
  BY DEF Cached, KeyOfRun, FailsOnce, is
<1>5. (is.journaled => KeptInJournal(r))'
  BY <1>4 DEF DurableInv, Fine, HasVerdict, DurableTypeOK, KeptInJournal, FailsOnce, Moves, At, Queued
<1>6. (~is.journaled => NoJournal(r))'
  BY <1>4 DEF DurableInv, Fine, NoJournal, FailsOnce
<1>7. (~is.journaled /\ ~lost[r] => KeptInCache(r))'
  BY <1>0, <1>4 DEF DurableInv, Fine, HasVerdict, DurableTypeOK, NoJournal, KeptInCache, FailsOnce, Moves, At, Queued
<1>8. ASSUME NEW q \in Runs, q # r PROVE Fine(q)'
  BY <1>8, OthersStay DEF DurableInv, DurableTypeOK, FailsOnce, Moves
<1> QED BY <1>1, <1>2, <1>3, <1>5, <1>6, <1>7, <1>8 DEF DurableInv, Fine

(* A refusal ends the run, or is tried again, and tells nothing new.        *)
LEMMA RefusesStep ==
  ASSUME DurableInv, NEW r \in Runs, Refuses(r)
  PROVE  DurableInv'
<1> USE DEF Verdict, AttemptStates
<1>0. /\ \A e \in Cached(r) : e.verdict \in Verdict
      /\ \A e, f \in Cached(r) : e = f
  BY CachedFacts
<1>1. DurableTypeOK'
  BY DEF DurableInv, DurableTypeOK, Refuses, Moves, At, Queued
<1>2. OneEntryPerKey'
  BY DEF DurableInv, OneEntryPerKey, Refuses
<1>3. HasVerdict(r)'
  BY DEF DurableInv, Fine, DurableTypeOK, HasVerdict, Refuses, Moves, At, Queued
<1>4. is' = is /\ Cached(r)' = Cached(r)
  BY DEF Cached, KeyOfRun, Refuses, is
<1>5. (is.journaled => KeptInJournal(r))'
  BY <1>4 DEF DurableInv, Fine, HasVerdict, DurableTypeOK, KeptInJournal, Refuses, Moves, At, Queued
<1>6. (~is.journaled => NoJournal(r))'
  BY <1>4 DEF DurableInv, Fine, NoJournal, Refuses
<1>7. (~is.journaled /\ ~lost[r] => KeptInCache(r))'
  BY <1>0, <1>4 DEF DurableInv, Fine, HasVerdict, DurableTypeOK, NoJournal, KeptInCache, Refuses, Moves, At, Queued
<1>8. ASSUME NEW q \in Runs, q # r PROVE Fine(q)'
  BY <1>8, OthersStay DEF DurableInv, DurableTypeOK, Refuses, Moves
<1> QED BY <1>1, <1>2, <1>3, <1>5, <1>6, <1>7, <1>8 DEF DurableInv, Fine

(* Every run has a key, whatever the runtime makes it from.                 *)
LEMMA KeysAreKeys ==
  ASSUME DurableTypeOK, NEW r \in Runs
  PROVE  KeyOfRun(r) \in Nat \X (Runs \cup {"all"})
BY DEF DurableTypeOK, KeyOfRun

(* An attempt that has been judged stores an entry under its own key; runs  *)
(* that shared the key, or whose entry went, are recorded as lost.          *)
LEMMA JudgesStep ==
  ASSUME DurableInv, NEW r \in Runs, NEW v \in Verdict, Judges(r, v)
  PROVE  DurableInv'
<1> USE DEF Verdict, AttemptStates
<1> DEFINE entry == [key |-> KeyOfRun(r), verdict |-> v]
<1>1. entry \in [key : (Nat \X (Runs \cup {"all"})), verdict : Verdict]
  BY KeysAreKeys DEF DurableInv
<1>2. CASE UNCHANGED memo /\ lost' = [lost EXCEPT ![r] = TRUE]
  <2>1. DurableTypeOK'
    BY <1>2 DEF DurableInv, DurableTypeOK, Judges, Moves, At
  <2>2. OneEntryPerKey'
    BY <1>2 DEF DurableInv, OneEntryPerKey
  <2>3. HasVerdict(r)' /\ is' = is /\ lost'[r]
    BY <1>2 DEF DurableInv, DurableTypeOK, HasVerdict, Judges, Moves, is
  <2>4. (is.journaled => KeptInJournal(r))'
    BY <2>3 DEF DurableInv, Fine, DurableTypeOK, KeptInJournal, Judges, Moves, At
  <2>5. (~is.journaled => NoJournal(r))'
    BY <2>3 DEF DurableInv, Fine, NoJournal, Judges
  <2>6. Fine(r)'
    BY <2>3, <2>4, <2>5 DEF Fine
  <2>7. ASSUME NEW q \in Runs, q # r PROVE Fine(q)'
    BY <1>2, <2>7, OthersStay DEF DurableInv, DurableTypeOK, Judges, Moves
  <2> QED BY <2>1, <2>2, <2>6, <2>7 DEF DurableInv
<1>3. CASE /\ memo' = (memo \ Cached(r)) \cup {entry}
           /\ lost' = [q \in Runs |-> lost[q] \/ (Cached(r) # {} /\ KeyOfRun(q) = KeyOfRun(r))]
  <2>1. DurableTypeOK'
    BY <1>1, <1>3 DEF DurableInv, DurableTypeOK, Judges, Moves, At
  <2>2. OneEntryPerKey'
    BY <1>3 DEF DurableInv, OneEntryPerKey, Cached
  <2>3. is' = is /\ \A q \in Runs : KeyOfRun(q)' = KeyOfRun(q)
    BY DEF Judges, is, KeyOfRun
  <2>4. ASSUME NEW q \in Runs
        PROVE  Cached(q)' = IF KeyOfRun(q) = KeyOfRun(r) THEN {entry} ELSE Cached(q)
    <3> DEFINE kq == KeyOfRun(q)
               kr == KeyOfRun(r)
    <3>1. Cached(q)' = {e \in (memo \ Cached(r)) \cup {entry} : e.key = kq}
      BY <1>3, <2>3 DEF Cached
    <3>2. entry.key = kr
      OBVIOUS
    <3> HIDE DEF kq, kr, entry
    <3>3. Cached(q) = {e \in memo : e.key = kq} /\ Cached(r) = {e \in memo : e.key = kr}
      BY DEF Cached, kq, kr
    <3>4. \A e : e \in Cached(q)' <=> e \in IF kq = kr THEN {entry} ELSE Cached(q)
      BY <3>1, <3>2, <3>3
    <3> QED BY <3>4, Zenon DEF kq, kr
  <2>5. attempt' = [attempt EXCEPT ![r] = [state |-> "judged", verdict |-> v]]
        /\ At(r, "validating")
    BY DEF Judges, Moves
  <2>6. ASSUME NEW q \in Runs PROVE HasVerdict(q)'
    BY DEF DurableInv, Fine, DurableTypeOK, HasVerdict, Judges, Moves
  <2>7. ASSUME NEW q \in Runs PROVE (is.journaled => KeptInJournal(q))'
    BY <2>3 DEF DurableInv, Fine, DurableTypeOK, KeptInJournal, Judges, Moves, At
  <2>8. ASSUME NEW q \in Runs PROVE (~is.journaled => NoJournal(q))'
    BY <2>3 DEF DurableInv, Fine, NoJournal, Judges
  <2>9. ASSUME NEW q \in Runs, ~is.journaled, ~lost'[q] PROVE KeptInCache(q)'
    <3>1. /\ ~lost[q]
          /\ KeyOfRun(q) = KeyOfRun(r) => Cached(r) = {}
          /\ KeptInCache(q)
      BY <1>3, <2>9 DEF DurableInv, Fine, DurableTypeOK
    <3>2. KeyOfRun(q) = KeyOfRun(r) => Cached(q) = {}
      BY <3>1 DEF Cached
    <3>3. told' = told
      BY DEF Judges
    <3>4. CASE KeyOfRun(q) = KeyOfRun(r)
      <4>1. told[q] = {} /\ Cached(q)' = {entry}
        BY <3>1, <3>2, <3>4, <2>4 DEF KeptInCache
      <4>2. attempt[q].state \notin {"judged", "decided"}
        BY <3>1, <3>2, <3>4 DEF KeptInCache
      <4>3. attempt'[q].state \in {"judged", "decided"} => attempt'[q].verdict = v
        BY <4>2, <2>5 DEF DurableInv, DurableTypeOK
      <4> QED BY <4>1, <4>3, <3>3 DEF KeptInCache, At
    <3>5. CASE KeyOfRun(q) # KeyOfRun(r)
      <4>1. q # r /\ Cached(q)' = Cached(q)
        BY <3>5, <2>4
      <4>2. attempt'[q] = attempt[q]
        BY <4>1, <2>5 DEF DurableInv, DurableTypeOK
      <4> QED BY <4>1, <4>2, <3>1, <3>3 DEF KeptInCache, At
    <3> QED BY <3>4, <3>5
  <2>10. ASSUME NEW q \in Runs PROVE Fine(q)'
    BY <2>3, <2>6, <2>7, <2>8, <2>9 DEF Fine
  <2> QED BY <2>1, <2>2, <2>10 DEF DurableInv
<1> QED BY <1>2, <1>3 DEF Judges

(* A new process has no cache: what was kept in the memory of the last is   *)
(* recorded as lost.                                                        *)
LEMMA CrashStep ==
  ASSUME DurableInv, Crash
  PROVE  DurableInv'
<1> USE DEF Verdict, AttemptStates
<1>1. DurableTypeOK'
  BY DEF DurableInv, DurableTypeOK, Crash, Queued
<1>2. OneEntryPerKey'
  BY DEF DurableInv, OneEntryPerKey, Crash
<1>3. is' = is
  BY DEF Crash, is
<1>4. ASSUME NEW r \in Runs
      PROVE  attempt'[r].state \notin {"judging", "validating", "judged", "decided"}
  BY DEF Crash, DurableInv, DurableTypeOK, Queued
<1>5. ASSUME NEW r \in Runs, ~lost'[r] PROVE ~lost[r] /\ Cached(r)' = Cached(r)
  BY <1>3, <1>5 DEF Crash, DurableInv, DurableTypeOK, Cached, KeyOfRun
<1>6. ASSUME NEW r \in Runs PROVE Fine(r)'
  <2>1. HasVerdict(r)'
    BY <1>4 DEF HasVerdict
  <2>2. (is.journaled => KeptInJournal(r))'
    BY <1>3, <1>4 DEF DurableInv, Fine, KeptInJournal, Crash, At
  <2>3. (~is.journaled => NoJournal(r))'
    BY <1>3 DEF DurableInv, Fine, NoJournal, Crash
  <2>4. (~is.journaled /\ ~lost[r] => KeptInCache(r))'
    BY <1>3, <1>4, <1>5 DEF DurableInv, Fine, KeptInCache, Crash, At
  <2> QED BY <2>1, <2>2, <2>3, <2>4 DEF Fine
<1> QED BY <1>1, <1>2, <1>6 DEF DurableInv

(* So is what an entry kept that expires.                                   *)
LEMMA ExpiresStep ==
  ASSUME DurableInv, Expires
  PROVE  DurableInv'
<1> USE DEF Verdict, AttemptStates
<1>1. PICK e \in memo : /\ memo' = memo \ {e}
                        /\ lost' = [r \in Runs |-> lost[r] \/ e.key = KeyOfRun(r)]
  BY DEF Expires
<1>2. DurableTypeOK'
  BY <1>1 DEF DurableInv, DurableTypeOK, Expires
<1>3. OneEntryPerKey'
  BY <1>1 DEF DurableInv, OneEntryPerKey
<1>4. is' = is
  BY DEF Expires, is
<1>5. ASSUME NEW r \in Runs, ~lost'[r] PROVE ~lost[r] /\ Cached(r)' = Cached(r)
  <2> DEFINE k == KeyOfRun(r)
  <2>1. ~lost[r] /\ e.key # k
    BY <1>1, <1>5 DEF DurableInv, DurableTypeOK
  <2>2. k' = k
    BY <1>4 DEF Expires, KeyOfRun
  <2>3. Cached(r)' = {f \in memo \ {e} : f.key = k} /\ Cached(r) = {f \in memo : f.key = k}
    BY <1>1, <2>2 DEF Cached
  <2> HIDE DEF k
  <2>4. \A f : f \in Cached(r)' <=> f \in Cached(r)
    BY <2>1, <2>3
  <2>5. Cached(r)' = Cached(r)
    BY <2>4, Zenon
  <2> QED BY <2>1, <2>5
<1>6. ASSUME NEW r \in Runs PROVE Fine(r)'
  <2>1. HasVerdict(r)'
    BY DEF HasVerdict, DurableInv, Fine, Expires
  <2>2. (is.journaled => KeptInJournal(r))'
    BY <1>4 DEF DurableInv, Fine, KeptInJournal, Expires, At
  <2>3. (~is.journaled => NoJournal(r))'
    BY <1>4 DEF DurableInv, Fine, NoJournal, Expires
  <2>4. (~is.journaled /\ ~lost[r] => KeptInCache(r))'
    BY <1>4, <1>5 DEF DurableInv, Fine, KeptInCache, Expires, At
  <2> QED BY <2>1, <2>2, <2>3, <2>4 DEF Fine
<1> QED BY <1>2, <1>3, <1>6 DEF DurableInv

(* Every step of every run keeps the invariant.                             *)
LEMMA DurableInvStep == DurableInv /\ [DurableNext]_durableVars => DurableInv'
<1> SUFFICES ASSUME DurableInv, [DurableNext]_durableVars PROVE DurableInv'
  OBVIOUS
<1>1. CASE Crash
  BY <1>1, CrashStep
<1>2. CASE Expires
  BY <1>2, ExpiresStep
<1>3. ASSUME NEW r \in Runs, RunStep(r) PROVE DurableInv'
  <2>1. ASSUME NEW v \in {"allow", "block"}, Judges(r, v) PROVE DurableInv'
    BY <2>1, JudgesStep DEF Verdict
  <2>2. CASE StartAttempt(r) \/ LooksUp(r) \/ Decides(r)
    BY <2>2, StartAttemptStep, LooksUpStep, DecidesStep
  <2>3. CASE Acts(r) \/ FailsOnce(r) \/ Refuses(r)
    BY <2>3, ActsStep, FailsOnceStep, RefusesStep
  <2> QED BY <1>3, <2>1, <2>2, <2>3 DEF RunStep
<1>4. CASE UNCHANGED durableVars
  <2>1. DurableTypeOK' /\ OneEntryPerKey'
    BY <1>4 DEF durableVars, DurableInv, DurableTypeOK, OneEntryPerKey
  <2>2. ASSUME NEW r \in Runs PROVE Fine(r)'
    <3>1. is' = is /\ Cached(r)' = Cached(r)
      BY <1>4 DEF durableVars, Cached, KeyOfRun, is
    <3>2. HasVerdict(r)' /\ (KeptInJournal(r)' <=> KeptInJournal(r)) /\ (NoJournal(r)' <=> NoJournal(r))
      BY <1>4 DEF durableVars, DurableInv, Fine, HasVerdict, KeptInJournal, NoJournal, At
    <3>3. KeptInCache(r)' <=> KeptInCache(r)
      BY <1>4, <3>1 DEF durableVars, KeptInCache, At
    <3> QED BY <1>4, <3>1, <3>2, <3>3 DEF durableVars, DurableInv, Fine
  <2> QED BY <2>1, <2>2 DEF DurableInv
<1> QED BY <1>1, <1>2, <1>3, <1>4 DEF DurableNext

(* Told is what is kept, and one verdict is kept.                           *)
LEMMA DurableInvSuffices == DurableInv => OneVerdict
<1> SUFFICES ASSUME DurableInv, NEW r \in Runs, is.journaled \/ ~lost[r]
             PROVE  Cardinality(told[r]) <= 1
  BY DEF OneVerdict
<1>1. \E v : told[r] \subseteq {v}
  BY DEF DurableInv, Fine, KeptInJournal, KeptInCache
<1>2. PICK v : told[r] \subseteq {v}
  BY <1>1
<1>3. Cardinality({v}) = 1 /\ IsFiniteSet({v})
  BY FS_Singleton
<1> QED BY <1>2, <1>3, FS_Subset

(* restate-middleware/README.md:8-9: however often a run is replayed,       *)
(* retried or crashed, on whatever runtime and with whatever backend, its   *)
(* attempts act on one verdict (workflow.ts:86-93), as long as the journal  *)
(* or the cache that kept it is there.                                      *)
THEOREM RunsGetOneVerdict == DurableSpec => []OneVerdict
<1>1. DurableInit => DurableInv
  BY DurableInvInit
<1>2. DurableInv /\ [DurableNext]_durableVars => DurableInv'
  BY DurableInvStep
<1>3. DurableInv => OneVerdict
  BY DurableInvSuffices
<1> QED BY <1>1, <1>2, <1>3, PTL DEF DurableSpec
===============================================================================
