--------------------------- MODULE OverrideToken ---------------------------
(***************************************************************************)
(* packages/core/src/security/override-token.ts: tokens that bypass the    *)
(* guardrails, signed by whoever holds the secret, each meant for one use. *)
(* A token carries the instant it was made at on its maker's clock; the    *)
(* validator remembers the used ones in a replay cache.  Every method is   *)
(* synchronous.                                                            *)
(***************************************************************************)
EXTENDS Clock, Integers, FiniteSets, Sequences

CONSTANTS
  Tokens,         \* what is presented, by nonce and scope
  TokenLifetime,  \* expirationMs
  TokenSkew,      \* the 60000 ms that a stamp may lie in the future
  MaxReplayCache, \* maxReplayCache
  MaxStamp,       \* bound: the latest stamp
  MaxUses         \* bound: acceptances of one token

ASSUME TokenAssumption ==
  /\ IsFiniteSet(Tokens)
  /\ {TokenLifetime, TokenSkew, MaxReplayCache, MaxStamp, MaxUses, MaxTime} \subseteq Nat

VARIABLES
  stamp,          \* the timestamp in each token; never changes
  signed,         \* tokens that are well formed and rightly signed; never changes
  replayCache,    \* usedAt of the tokens in the cache
  uses,           \* history: how often each token was accepted
  firstUse        \* history: when it was accepted first

tokenVars == <<stamp, signed, replayCache, uses, firstUse, now>>

Unused == [t \in Tokens |-> 0]

TokenInit ==
  /\ stamp \in [Tokens -> 0..MaxStamp]
  /\ signed \in SUBSET Tokens
  /\ replayCache = [t \in {} |-> 0]
  /\ uses = Unused /\ firstUse = Unused

Remembered == DOMAIN replayCache

OnlyThose(S) == [t \in S |-> replayCache[t]]
-----------------------------------------------------------------------------
(* validateToken up to markTokenUsed.                                       *)
Acceptable(t) ==
  /\ now - stamp[t] <= TokenLifetime
  /\ stamp[t] <= now + TokenSkew
  /\ t \notin Remembered
  /\ t \in signed

(* Mutant: entries are swept half a lifetime early.                         *)
ActiveBriefly == {t \in Remembered : 2 * (now - replayCache[t]) < TokenLifetime}

(* The entries that the sweep of markTokenUsed leaves.                      *)
ActiveEntries == {t \in Remembered : replayCache[t] + TokenLifetime > now}

(* markTokenUsed sweeps; a cache that is full of active entries throws and  *)
(* the token counts as not used.                                            *)
MarkTokenUsed(t) ==
  IF Cardinality(ActiveEntries) >= MaxReplayCache
  THEN replayCache' = OnlyThose(ActiveEntries) /\ UNCHANGED <<uses, firstUse>>
  ELSE /\ replayCache' = [u \in ActiveEntries \cup {t} |->
                            IF u = t THEN now ELSE replayCache[u]]
       /\ uses' = [uses EXCEPT ![t] = @ + 1]
       /\ firstUse' = IF uses[t] = 0 THEN [firstUse EXCEPT ![t] = now] ELSE firstUse

(* validateContent: of the tokens found in a text, in their order, the      *)
(* first that is acceptable is used; the others leave no trace.             *)
ValidateContent(found) ==
  \E i \in 1..Len(found) :
    /\ Acceptable(found[i]) /\ \A j \in 1..(i - 1) : ~Acceptable(found[j])
    /\ uses[found[i]] < MaxUses
    /\ MarkTokenUsed(found[i])
    /\ UNCHANGED <<stamp, signed, now>>

(* cleanupReplayCache with its default age.                                 *)
CleanupReplayCache ==
  /\ replayCache' =
       OnlyThose({t \in Remembered : replayCache[t] >= now - 2 * TokenLifetime})
  /\ UNCHANGED <<stamp, signed, uses, firstUse, now>>

(* clearReplayCache makes every token new.                                  *)
ClearReplayCache ==
  /\ replayCache' = OnlyThose({})
  /\ uses' = Unused /\ firstUse' = Unused
  /\ UNCHANGED <<stamp, signed, now>>

TokenTick == Advance /\ UNCHANGED <<stamp, signed, replayCache, uses, firstUse>>

(* A text holds one token or two of them.                                   *)
TokenNext ==
  \/ \E t, u \in Tokens : ValidateContent(<<t, u>>)
  \/ CleanupReplayCache \/ ClearReplayCache
  \/ TokenTick

TokenSpec == TokenInit /\ now = 0 /\ [][TokenNext]_tokenVars
-----------------------------------------------------------------------------
(* override-token.ts:268-274: used tokens stay blocked.  An entry outlives  *)
(* its token unless the token's stamp is not before its first use: made on  *)
(* a clock that runs ahead, or used in the instant it was made.  Only such  *)
(* a token is ever accepted again.                                          *)
AcceptedTwiceOnlyAtEdge ==
  \A t \in Tokens : uses[t] > 1 => stamp[t] >= firstUse[t]
=============================================================================
