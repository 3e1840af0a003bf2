---------------------------- MODULE HookManager ----------------------------
(***************************************************************************)
(* packages/core/src/hooks/index.ts, for the hooks of one phase.  Each     *)
(* execution walks, by index, the very array that registrations re-sort    *)
(* and removals splice while it waits for a hook.                          *)
(***************************************************************************)
EXTENDS Clock, Filters, Integers, Sequences, SequencesExt, FiniteSets

CONSTANTS
  Hooks,          \* hook definitions, each registered at most once
  Priority,       \* the priority of each
  Enabled,        \* the hooks that are enabled
  Executions,     \* calls of executeHooks
  MaxHookCalls,   \* rateLimit.maxCalls
  HookWindow,     \* rateLimit.windowMs, in ticks
  HookTimeout     \* timeout of a hook, in ticks

ASSUME HookAssumption ==
  /\ Priority \in [Hooks -> Int] /\ Enabled \subseteq Hooks
  /\ {MaxHookCalls, HookWindow, HookTimeout} \subseteq Nat

VARIABLES
  arrays,         \* the arrays of hooks: the current one is the last
  registered,     \* hooks that have been registered
  execution,      \* the executions
  startedAt       \* the instants that count for the rate limit

hookVars == <<arrays, registered, execution, startedAt, now>>

Idle == [state |-> "idle", array |-> 1, index |-> 1, ran |-> <<>>, blocked |-> FALSE,
         since |-> 0, stayed |-> {}, added |-> FALSE, removed |-> FALSE]

HookInit ==
  /\ arrays = << <<>> >>
  /\ registered = {}
  /\ execution = [e \in Executions |-> Idle]
  /\ startedAt = <<>>

Current == Len(arrays)

Walking(e) == execution[e].state = "waiting"

Array(e) == arrays[execution[e].array]

(* History: what becomes of the executions that walk the current array.     *)
WithWalkers(noted(_)) ==
  [e \in Executions |->
     IF Walking(e) /\ execution[e].array = Current THEN noted(execution[e]) ELSE execution[e]]
-----------------------------------------------------------------------------
(* registerHook: push and a stable sort by priority put the hook behind all *)
(* that are not of higher number.                                           *)
RegisterHook(h) ==
  /\ h \notin registered
  /\ LET a == arrays[Current]
         before == Filter(a, {g \in Hooks : Priority[g] <= Priority[h]})
         after == Filter(a, {g \in Hooks : Priority[g] > Priority[h]})
     IN arrays' = [arrays EXCEPT ![Current] = before \o <<h>> \o after]
  /\ registered' = registered \cup {h}
  /\ execution' = WithWalkers(LAMBDA x : [x EXCEPT !.added = TRUE])
  /\ UNCHANGED <<startedAt, now>>

UnregisterHook(h) ==
  /\ \E index \in DOMAIN arrays[Current] :
       /\ arrays[Current][index] = h
       /\ arrays' = [arrays EXCEPT ![Current] = RemoveAt(@, index)]
  /\ execution' = WithWalkers(LAMBDA x : [x EXCEPT !.removed = TRUE, !.stayed = @ \ {h}])
  /\ UNCHANGED <<registered, startedAt, now>>

(* clearHooks empties the map: the executions keep their array, which no    *)
(* later call changes.                                                      *)
ClearHooks ==
  /\ Current < 2
  /\ arrays' = Append(arrays, <<>>)
  /\ UNCHANGED <<registered, execution, startedAt, now>>
-----------------------------------------------------------------------------
Limited == Len(SelectSeq(startedAt, LAMBDA t : now - t < HookWindow)) >= MaxHookCalls

(* The loop from index i on: the first hook that is enabled; 0: none.       *)
NextEnabled(a, i) ==
  LET on == {j \in i..Len(a) : a[j] \in Enabled}
  IN IF on = {} THEN 0 ELSE CHOOSE j \in on : \A k \in on : j <= k

(* Mutant: the loop looks at its hook's place in the array once more.       *)
ContinueInPlace(x, a, i) ==
  LET j == NextEnabled(a, IF i > 1 THEN i - 1 ELSE i)
  IN IF j = 0 THEN [x EXCEPT !.state = "done"]
     ELSE [x EXCEPT !.state = "waiting", !.index = j, !.since = now,
                    !.ran = Append(@, a[j])]

(* The loop runs on to the next hook, calls it and waits, or returns.       *)
Continue(x, a, i) ==
  LET j == NextEnabled(a, i)
  IN IF j = 0 THEN [x EXCEPT !.state = "done"]
     ELSE [x EXCEPT !.state = "waiting", !.index = j, !.since = now,
                    !.ran = Append(@, a[j])]

(* executeHooks up to its first wait; beyond the rate limit it runs nothing *)
(* and says so in a single result that does not block.                      *)
ExecuteHooks(e) ==
  /\ execution[e].state = "idle"
  /\ IF Limited
     THEN /\ execution' = [execution EXCEPT ![e].state = "limited"]
          /\ UNCHANGED startedAt
     ELSE /\ startedAt' = Append(startedAt, now)
          /\ execution' = [execution EXCEPT ![e] =
               Continue([@ EXCEPT !.array = Current, !.stayed = ToSet(arrays[Current])],
                        arrays[Current], 1)]
  /\ UNCHANGED <<arrays, registered, now>>

(* The hook that is waited for is over, with this shouldBlock; the loop     *)
(* goes on by one in the array as it is now, also after a hook that blocks. *)
HookOver(e, shouldBlock) ==
  /\ Walking(e)
  /\ LET x == [execution[e] EXCEPT !.blocked = @ \/ shouldBlock]
     IN execution' = [execution EXCEPT ![e] = Continue(x, Array(e), x.index + 1)]
  /\ UNCHANGED <<arrays, registered, startedAt, now>>

(* The handler answers, or throws, which does not block.  What it answers   *)
(* after its timer has won the race is dropped.                             *)
HandlerEnds(e) == \E shouldBlock \in BOOLEAN : HookOver(e, shouldBlock)

HookTimesOut(e) == now - execution[e].since >= HookTimeout /\ HookOver(e, FALSE)

HookTick == Advance /\ UNCHANGED <<arrays, registered, execution, startedAt>>

HookNext ==
  \/ \E h \in Hooks : RegisterHook(h) \/ UnregisterHook(h)
  \/ ClearHooks
  \/ \E e \in Executions : ExecuteHooks(e) \/ HandlerEnds(e) \/ HookTimesOut(e)
  \/ HookTick

HookSpec == HookInit /\ now = 0 /\ [][HookNext]_hookVars
-----------------------------------------------------------------------------
Times(h, s) == Cardinality({i \in 1..Len(s) : s[i] = h})

(* hooks/index.ts:213-265: an execution that returns has run each enabled   *)
(* hook that stayed registered throughout, once: it misses one only if a    *)
(* hook was removed meanwhile, and repeats one only if one was added;       *)
(* clearing the registry meanwhile does neither.  One that is limited runs  *)
(* none.                                                                    *)
HooksRunOnce ==
  \A e \in Executions :
    LET x == execution[e]
    IN /\ x.state = "limited" => x.ran = <<>> /\ ~x.blocked
       /\ x.state = "done" =>
         \A h \in x.stayed \cap Enabled :
           /\ Times(h, x.ran) = 0 => x.removed
           /\ Times(h, x.ran) > 1 => x.added
=============================================================================
