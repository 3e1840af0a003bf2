---------------------------- MODULE RateLimiter ----------------------------
(***************************************************************************)
(* packages/core/src/security/rate-limiter.ts: requests per key and span.  *)
(* Every method is synchronous.  (A limiter that is not enabled allows all *)
(* and keeps nothing.)                                                     *)
(***************************************************************************)
EXTENDS Clock, Filters, Integers, Sequences

CONSTANTS
  Keys,            \* what is limited
  MaxPerWindow,    \* maxRequests
  WindowTicks,     \* windowMs, in ticks
  PurgeEvery,      \* CLEANUP_INTERVAL
  MaxAllowed       \* bound: requests allowed per key

ASSUME RateAssumption ==
  MaxPerWindow \in Nat /\ {WindowTicks, PurgeEvery} \subseteq Nat \ {0}

VARIABLES
  entries,         \* the entry of each key that has one
  checks,          \* cleanupCounter
  allowedAt        \* history: the instants at which each key was allowed

rateVars == <<entries, checks, allowedAt, now>>

RateInit ==
  /\ entries = [k \in {} |-> <<>>]
  /\ checks = 0
  /\ allowedAt = [k \in Keys |-> <<>>]

Recent(timestamps) == Filter(timestamps, {t \in Time : t >= now - WindowTicks})

(* cleanup: old instants go, and the entries that have none left.           *)
Purged(e) ==
  [k \in {k \in DOMAIN e : Recent(e[k].timestamps) # <<>>} |->
     [e[k] EXCEPT !.timestamps = Recent(@)]]

(* Mutant: a new window keeps the start of the old one.                     *)
StaleWindow(entry) ==
  IF now - entry.windowStart >= WindowTicks THEN [entry EXCEPT !.timestamps = <<>>] ELSE entry

(* The entry a request finds: the window that has run out starts anew, with *)
(* nothing counted.                                                         *)
CurrentWindow(entry) ==
  IF now - entry.windowStart >= WindowTicks
  THEN [timestamps |-> <<>>, windowStart |-> now]
  ELSE IF now > entry.windowStart THEN [entry EXCEPT !.timestamps = Recent(@)]
  ELSE entry

checkLimit(k) ==
  LET due   == checks + 1 >= PurgeEvery
      known == IF due THEN Purged(entries) ELSE entries
      entry == CurrentWindow(IF k \in DOMAIN known THEN known[k]
                             ELSE [timestamps |-> <<>>, windowStart |-> now])
      allowed == Len(entry.timestamps) < MaxPerWindow
      counted == IF allowed THEN [entry EXCEPT !.timestamps = Append(@, now)] ELSE entry
  IN /\ Len(allowedAt[k]) < MaxAllowed
     /\ entries' = [j \in DOMAIN known \cup {k} |-> IF j = k THEN counted ELSE known[j]]
     /\ checks' = IF due THEN 0 ELSE checks + 1
     /\ allowedAt' = IF allowed THEN [allowedAt EXCEPT ![k] = Append(@, now)] ELSE allowedAt
     /\ UNCHANGED now

(* reset, and clear for every key: the span starts over.                    *)
ResetKeys(S) ==
  /\ entries' = [k \in DOMAIN entries \ S |-> entries[k]]
  /\ allowedAt' = [k \in Keys |-> IF k \in S THEN <<>> ELSE allowedAt[k]]
  /\ UNCHANGED <<checks, now>>

RateTick == Advance /\ UNCHANGED <<entries, checks, allowedAt>>

RateNext ==
  \/ \E k \in Keys : checkLimit(k) \/ ResetKeys({k})
  \/ ResetKeys(Keys)
  \/ RateTick

RateSpec == RateInit /\ now = 0 /\ [][RateNext]_rateVars
-----------------------------------------------------------------------------
(* What any span as long as a window has seen allowed until now.            *)
InLastSpan(k) == Len(Filter(allowedAt[k], {t \in Time : t > now - WindowTicks}))

(* rate-limiter.ts:124-135: what the code bounds.  Its windows are fixed,   *)
(* one after another, so that a span as long as a window meets two of them: *)
(* it holds at most twice the limit, whatever clean-ups fall into it.       *)
AtMostTwiceTheLimit == \A k \in Keys : InLastSpan(k) <= 2 * MaxPerWindow

(* rate-limiter.ts:5, 8 and 24: a sliding window, "accurate", and the       *)
(* "Maximum number of requests allowed in the time window".  The start of a *)
(* new window forgets those that the old one allowed at its end.            *)
AtMostTheLimit == \A k \in Keys : InLastSpan(k) <= MaxPerWindow
=============================================================================
