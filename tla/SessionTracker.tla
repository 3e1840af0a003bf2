--------------------------- MODULE SessionTracker ---------------------------
(***************************************************************************)
(* packages/core/src/session/SessionTracker.ts: what the validators        *)
(* remember of a conversation between its turns.  Every function is        *)
(* synchronous, and the calls of all conversations share one store.        *)
(*                                                                         *)
(* One tick is DECAY_HALF_LIFE_MS, so that every span that is not zero is   *)
(* above the minute and the half of a half-life that the decay waits for.   *)
(* The turn count, the history of findings and what a call answers from    *)
(* the state are reported and change nothing; they are left out.           *)
(***************************************************************************)
EXTENDS Clock, Filters, Sequences, SequencesExt

CONSTANTS
  SessionIds,      \* conversations
  MaxSessions,     \* MAX_SESSIONS
  SessionTimeout,  \* SESSION_TIMEOUT_MS, in ticks
  SweepEvery,      \* CLEANUP_INTERVAL
  SweepCap,        \* maxCleanPerRun
  MaxFragments,    \* MAX_FRAGMENT_COUNT
  MaxRisk,         \* bound: the weight recorded of one session
  MaxCalls         \* bound: calls of the tracker

ASSUME SessionAssumption ==
  {MaxSessions, SessionTimeout, SweepEvery, SweepCap, MaxFragments} \subseteq Nat \ {0}

VARIABLES
  store,           \* the SessionStore and cleanupCounter
  sessionCalls     \* calls made (bounds the run)

sessionVars == <<store, sessionCalls, now>>

(* Fragments: the first and the second half of a phrase that is looked for, *)
(* and a keyword of neither.                                                *)
Fragment == {"head", "tail", "other"}

(* recorded is history: the weight when last_updated was set.               *)
SessionState ==
  [weight : Nat, repeats : Nat, updated : Time, fragments : Seq(Fragment),
   instructions : Nat, recorded : Nat]

createFreshState ==
  [weight |-> 0, repeats |-> 0, updated |-> now, fragments |-> <<>>,
   instructions |-> 0, recorded |-> 0]

SessionInit ==
  /\ store = [map |-> <<>>, keys |-> <<>>, order |-> <<>>, lookups |-> 0]
  /\ sessionCalls = 0
-----------------------------------------------------------------------------
(* class SessionStore, as functions of its fields: the map, its keys in the *)
(* order they were inserted, and accessOrder.                               *)

Has(s, id) == id \in DOMAIN s.map

Expired(state) == Since(state.updated) >= SessionTimeout

Keep(s, ids) ==
  [s EXCEPT !.map = [id \in DOMAIN s.map \cap ids |-> s.map[id]],
            !.keys = Filter(@, ids),
            !.order = Filter(@, ids)]

Unexpired(s) == {id \in DOMAIN s.map : ~Expired(s.map[id])}

(* Mutant: a deleted session keeps its place in the access order.           *)
DeleteFromMapOnly(s, id) == [Keep(s, SessionIds \ {id}) EXCEPT !.order = s.order]

Delete(s, id) == Keep(s, SessionIds \ {id})

(* What a sweep deletes: the first SweepCap expired sessions of the map.    *)
Swept(s) ==
  LET expired == Filter(s.keys, DOMAIN s.map \ Unexpired(s))
  IN {expired[i] : i \in DOMAIN expired \cap 1..SweepCap}

(* The lookup puts the session last in the access order; each SweepEvery-th *)
(* lookup sweeps.                                                           *)
Get(s, id) ==
  LET touched == IF Has(s, id) THEN [s EXCEPT !.order = Append(Without(@, id), id)] ELSE s
      counted == [touched EXCEPT !.lookups = (@ + 1) % SweepEvery]
  IN IF counted.lookups = 0 THEN Keep(counted, SessionIds \ Swept(s)) ELSE counted

(* A new session in a full store takes the place of the one first in the    *)
(* access order.                                                            *)
Set(s, id, state) ==
  LET full == Len(s.keys) >= MaxSessions /\ ~Has(s, id) /\ s.order # <<>>
      room == IF full THEN Delete(s, Head(s.order)) ELSE s
  IN [room EXCEPT !.map = [j \in DOMAIN @ \cup {id} |-> IF j = id THEN state ELSE @[j]],
                  !.keys = IF Has(room, id) THEN @ ELSE Append(@, id),
                  !.order = Append(Without(@, id), id)]
-----------------------------------------------------------------------------
(* Mutant: every read fades the session, also within the instant of its     *)
(* last update.                                                             *)
FadeAtOnce(state) == [state EXCEPT !.weight = @ \div 2]

(* b to the e-th, for the factor that the code takes of Math.pow.           *)
Power(b, e) ==
  LET p[i \in 0 .. e] == IF i = 0 THEN 1 ELSE b * p[i - 1] IN p[e]

(* Temporal decay, once there is something to wait for: half the weight     *)
(* and, rounded down, seven tenths of the repetitions per half-life since   *)
(* last_updated, which stays as it is.                                      *)
Decay(state) ==
  LET e == Since(state.updated)
  IN IF e = 0 THEN state
     ELSE [state EXCEPT !.weight = @ \div Power(2, e),
                        !.repeats = (@ * Power(7, e)) \div Power(10, e)]

(* getSessionState: the state handed out and the store it leaves.  A state  *)
(* that has decayed is stored again; one that has expired is deleted.       *)
getSessionState(id) ==
  LET got == Get(store, id)
      old == store.map[id]
      new == Decay(old)
  IN IF ~Has(store, id) THEN [store |-> got, state |-> createFreshState]
     ELSE IF Expired(old) THEN [store |-> Delete(got, id), state |-> createFreshState]
     ELSE IF Since(old.updated) > 0 THEN [store |-> Set(got, id, new), state |-> new]
     ELSE [store |-> got, state |-> new]

Called == sessionCalls < MaxCalls /\ sessionCalls' = sessionCalls + 1 /\ UNCHANGED now

saveSessionState(id, state) == store' = Set(getSessionState(id).store, id, state)

(* A turn with findings of the watched category (each of weight 1) or none: *)
(* the only call that renews last_updated.                                  *)
updateSessionState(id, findings) ==
  /\ Called
  /\ LET state == getSessionState(id).state
     IN /\ state.weight + findings <= MaxRisk
        /\ saveSessionState(id, [state EXCEPT !.weight = @ + findings,
                                              !.repeats = @ + findings,
                                              !.updated = now,
                                              !.recorded = state.weight + findings])

(* Content with keywords adds a fragment and keeps the last few; content    *)
(* without leaves after the read.                                           *)
updateFragmentBuffer(id, fragment) ==
  /\ Called
  /\ LET got == getSessionState(id)
         all == Append(got.state.fragments, fragment)
         last == IF Len(all) > MaxFragments THEN Tail(all) ELSE all
     IN saveSessionState(id, [got.state EXCEPT !.fragments = last])

updateInstructionCount(id) ==
  /\ Called
  /\ LET state == getSessionState(id).state
     IN /\ state.instructions < MaxRisk
        /\ saveSessionState(id, [state EXCEPT !.instructions = @ + 1])

(* isSessionEscalated, getSessionStats and content without keywords: a read *)
(* that keeps what the decay has done.                                      *)
ReadSession(id) == Called /\ store' = getSessionState(id).store

resetSessionState(id) == Called /\ store' = Delete(store, id)

clearAllSessions ==
  Called /\ store' = [store EXCEPT !.map = <<>>, !.keys = <<>>, !.order = <<>>]

(* Looks every session up, in the order of the map, and deletes the expired *)
(* ones: the lookups leave the access order that of the map.                *)
cleanupExpiredSessions ==
  /\ Called
  /\ LET live == Keep(store, Unexpired(store))
     IN store' = [live EXCEPT !.order = live.keys,
                              !.lookups = (@ + Len(store.keys)) % SweepEvery]

SessionTick == Advance /\ UNCHANGED <<store, sessionCalls>>

SessionNext ==
  \/ \E id \in SessionIds :
       \/ \E n \in 0..2 : updateSessionState(id, n)
       \/ \E f \in Fragment : updateFragmentBuffer(id, f)
       \/ updateInstructionCount(id)
       \/ ReadSession(id)
       \/ resetSessionState(id)
  \/ clearAllSessions \/ cleanupExpiredSessions
  \/ SessionTick

SessionSpec == SessionInit /\ now = 0 /\ [][SessionNext]_sessionVars
-----------------------------------------------------------------------------
(* SessionTracker.ts:159-185: map, keys and access order name the same      *)
(* sessions, each once, and no more than the limit: else an eviction would  *)
(* delete nothing and the map grow, or a live session never be evicted.     *)
StoreAgrees ==
  /\ IsInjective(store.order) /\ Len(store.order) = Len(store.keys)
  /\ ToSet(store.order) = DOMAIN store.map /\ ToSet(store.keys) = DOMAIN store.map
  /\ Len(store.keys) <= MaxSessions

(* What is held against a conversation is lost by silence only              *)
(* (SessionTracker.ts:242-264): whatever is called, and for whichever       *)
(* conversation, a step takes no more of it than one decay over the silence *)
(* so far, which is nothing in the instant it was recorded; it is forgotten *)
(* whole only past the timeout, by a reset, or when a full store makes room *)
(* for a new conversation.  How many steps take their share of the same     *)
(* silence is another matter: see HalvesPerHalfLife.                        *)
FadesOnlyInSilence ==
  [][\A id \in DOMAIN store.map :
       LET old == store.map[id]
           e == Since(old.updated)
           kept == /\ Has(store', id)
                   /\ store'.map[id].weight >= old.weight \div Power(2, e)
                   /\ store'.map[id].repeats >= (old.repeats * Power(7, e)) \div Power(10, e)
       IN \/ kept
          \/ Expired(old)
          \/ resetSessionState(id) \/ clearAllSessions
          \/ /\ Len(store.keys) = MaxSessions
             /\ ~Has(store', id)
             /\ DOMAIN store'.map \ DOMAIN store.map # {}]_sessionVars

(* SessionTracker.ts:18-20, "After 10 minutes, accumulated weight decays to *)
(* 50%": of what was recorded, half is left for each half-life of silence.  *)
(* The code stores what a read has decayed and leaves last_updated, so that *)
(* the next read takes the same silence off again.                          *)
HalvesPerHalfLife ==
  \A id \in DOMAIN store.map :
    LET state == store.map[id]
    IN ~Expired(state) => state.weight >= state.recorded \div Power(2, Since(state.updated))

=============================================================================
