-------------------------- MODULE CachedValidator --------------------------
(***************************************************************************)
(* packages/core/src/engine/cached-validator.ts: calls that run a list of  *)
(* validators over a cache they share, the in-memory LRU or an adapter that *)
(* may fail.  A call waits for the digest of each key, for the cache and    *)
(* for the validator; other calls and other writers of the backend run      *)
(* between.                                                                 *)
(***************************************************************************)
EXTENDS Clock, Filters, Sequences, SequencesExt, FiniteSets

CONSTANTS
  CacheCalls,     \* calls of cachedValidate
  Names,          \* the names of the validators, all of which every call runs
  Inputs,         \* what is judged
  DefaultTtl,     \* defaultTtlMs, in ticks
  BlockedTtl,     \* blockedTtlMs ?? defaultTtlMs, in ticks
  MaxTtl,         \* maxTtlMs of the in-memory cache, in ticks
  MaxEntries,     \* maxEntries of the in-memory cache
  AdapterFails,   \* TRUE: get and set may throw
  Foreign         \* TRUE: another writer stores entries under the same keys

ASSUME CacheAssumption ==
  /\ IsFiniteSet(Names) /\ Names # {} /\ Inputs # {}
  /\ {DefaultTtl, BlockedTtl, MaxTtl} \subseteq Nat /\ MaxEntries \in Nat \ {0}

Verdicts == {"allow", "block"}

(* The order of the validators, the same in every call.                     *)
Pipeline == SetToSeq(Names)

VARIABLES
  cache,          \* the entries, least recently used first
  judging         \* the calls

cacheVars == <<cache, judging, now>>

Nothing == [at |-> 0, state |-> "idle", input |-> CHOOSE i \in Inputs : TRUE, results |-> <<>>]

CacheInit ==
  /\ cache = <<>>
  /\ judging = [c \in CacheCalls |-> Nothing]

(* The salted key of an input and a validator: a pair.                      *)
KeyOf(c) == <<judging[c].input, Pipeline[judging[c].at]>>

Waiting(c, state) == judging[c].state = state

(* The call has a result for this validator and goes on to the next, or     *)
(* returns.                                                                 *)
Push(c, result) ==
  judging' = [judging EXCEPT ![c].results = Append(@, result), ![c].at = @ + 1,
                ![c].state = IF judging[c].at < Len(Pipeline) THEN "keying" ELSE "done"]
-----------------------------------------------------------------------------
(* InMemoryLRUCache.                                                        *)

Others(key) == Filter(cache, {e \in ToSet(cache) : e.key # key})

Held(key) == {e \in ToSet(cache) : e.key = key}

Live(e) == e.expiresAt > now

(* Mutant: refusals are kept as long as acceptances.                        *)
SameTtl(verdict) == DefaultTtl

TtlOf(verdict) == IF verdict = "block" THEN BlockedTtl ELSE DefaultTtl

Smaller(a, b) == IF a < b THEN a ELSE b

(* set: last in the order, clamped to the cache's own limit; the first      *)
(* entries go while there are too many.                                     *)
Stored(key, name, verdict, ttl) ==
  LET entry == [key |-> key, name |-> name, verdict |-> verdict,
                expiresAt |-> now + Smaller(ttl, MaxTtl), storedAt |-> now]
      all == Append(Others(key), entry)
  IN IF Len(all) > MaxEntries THEN SubSeq(all, Len(all) - MaxEntries + 1, Len(all)) ELSE all
-----------------------------------------------------------------------------
CachedValidate(c, i) ==
  /\ Waiting(c, "idle")
  /\ judging' = [judging EXCEPT ![c].state = "keying", ![c].input = i, ![c].at = 1]
  /\ UNCHANGED <<cache, now>>

(* A live entry that its own validator stored.                              *)
Serves(e, name) == Live(e) /\ e.name = name

(* get: an entry that has expired is dropped, one that lives becomes the    *)
(* most recently used.  An entry with another validator's name, or a cache  *)
(* that throws, is a miss.                                                  *)
Lookup(c) ==
  /\ Waiting(c, "keying")
  /\ LET key == KeyOf(c)  name == Pipeline[judging[c].at]
         miss == judging' = [judging EXCEPT ![c].state = "validating"]
     IN \/ /\ Held(key) = {} \/ AdapterFails
           /\ miss /\ UNCHANGED cache
        \/ \E e \in Held(key) :
             /\ cache' = IF Live(e) THEN Append(Others(key), e) ELSE Others(key)
             /\ IF Serves(e, name)
                THEN Push(c, [name |-> name, verdict |-> e.verdict, fromCache |-> TRUE,
                              storedAt |-> e.storedAt, takenAt |-> now, own |-> e.name = name])
                ELSE miss
  /\ UNCHANGED now

(* The validator answers: a sound result is stored in the same step, unless *)
(* the cache throws, and counts in either case; a malformed one counts and  *)
(* is not stored.                                                           *)
Answers(c, verdict) ==
  /\ Waiting(c, "validating")
  /\ LET name == Pipeline[judging[c].at]
     IN /\ \/ cache' = Stored(KeyOf(c), name, verdict, TtlOf(verdict))
           \/ UNCHANGED cache  \* malformed; or AdapterFails
        /\ Push(c, [name |-> name, verdict |-> verdict, fromCache |-> FALSE,
                    storedAt |-> now, takenAt |-> now, own |-> TRUE])
  /\ UNCHANGED now

(* The validator throws, and cachedValidate with it: no results.            *)
ValidatorThrows(c) ==
  /\ Waiting(c, "validating")
  /\ judging' = [judging EXCEPT ![c].state = "thrown", ![c].results = <<>>]
  /\ UNCHANGED <<cache, now>>

(* Another user of the backend stores something under a key of ours.        *)
ForeignSet ==
  /\ Foreign
  /\ \E i \in Inputs, n, owner \in Names, v \in Verdicts :
       n # owner /\ cache' = Stored(<<i, n>>, owner, v, DefaultTtl)
  /\ UNCHANGED <<judging, now>>

ClearCache == cache' = <<>> /\ UNCHANGED <<judging, now>>

CacheTick == Advance /\ UNCHANGED <<cache, judging>>

CacheNext ==
  \/ \E c \in CacheCalls :
       \/ \E i \in Inputs : CachedValidate(c, i)
       \/ Lookup(c)
       \/ \E v \in Verdicts : Answers(c, v)
       \/ ValidatorThrows(c)
  \/ ForeignSet \/ ClearCache
  \/ CacheTick

CacheSpec == CacheInit /\ now = 0 /\ [][CacheNext]_cacheVars
-----------------------------------------------------------------------------
(* cached-validator.ts:257-323: a call that returns has one verdict per     *)
(* validator, in their order, each given by that validator itself: just     *)
(* now, or stored less than the span its kind of verdict is kept for.       *)
(* Neither failures of the adapter, foreign entries nor evictions change    *)
(* that.                                                                    *)
VerdictsAreRecent ==
  \A c \in CacheCalls :
    LET r == judging[c].results
    IN /\ judging[c].state = "done" => Len(r) = Len(Pipeline)
       /\ \A k \in 1..Len(r) :
            /\ r[k].name = Pipeline[k] /\ r[k].own
            /\ r[k].fromCache =>
                 r[k].takenAt - r[k].storedAt <
                   (IF r[k].verdict = "block" THEN BlockedTtl ELSE DefaultTtl)
=============================================================================
