----------------------------- MODULE ShadowLog -----------------------------
(***************************************************************************)
(* The hash-chained shadow log (packages/core/src/shadow-log/shadow-log.ts)*)
(* over its in-memory storage (in-memory-adapter.ts).  append awaits the   *)
(* storage several times under a lock per room; appends to other rooms go  *)
(* on meanwhile, and any call of the storage may reject, as those of a     *)
(* durable adapter do.                                                     *)
(*                                                                         *)
(* A content is what contentHash is a digest of: text, trust and author.   *)
(* Digests do not collide, so an entry's prevEntryHash is told by what it  *)
(* is computed from: the contents hashed into it, oldest first, and the    *)
(* null of a genesis entry is the empty sequence.                          *)
(***************************************************************************)
EXTENDS Integers, Sequences, FiniteSets, SequencesExt

CONSTANTS
  Appends,      \* calls of append; each bears a message of its own
  Rooms,
  Contents,
  Policies,     \* which eviction policies the log may be created with
  MaxPerRoom,   \* maxEntriesPerRoom
  MaxTotal,     \* maxTotalEntries
  Faulty        \* TRUE: the storage may reject a call

ASSUME ShadowAssumption ==
  /\ Policies \subseteq {"refuse-write", "drop-oldest"}
  /\ IsFiniteSet(Rooms)
  /\ MaxPerRoom \in Nat \ {0}
  /\ MaxTotal \in Nat \ {0}
  /\ Faulty \in BOOLEAN

VARIABLES
  policy,    \* evictionPolicy
  store,     \* the entries of each room, in the order they were stored
  queue,     \* who has asked for each room's lock; the first one holds it
  pc,        \* what each append does next
  room,      \* input.roomId of each append
  content,   \* and the content it logs
  link,      \* prevEntryHash
  outcome,   \* how it ended
  dropped    \* history: rooms that have lost an entry to eviction

local == <<pc, room, content, link, outcome>>
shadowVars == <<policy, store, queue, local, dropped>>

Entry == [message : Appends, content : Contents, prev : Seq(Contents)]

Step == {"idle", "link", "count", "evict", "store", "check", "done"}

Outcome == {"none", "appended", "storage_full", "storage_integrity_failure", "rejected"}

ShadowTypeOK ==
  /\ policy \in Policies
  /\ store \in [Rooms -> Seq(Entry)]
  /\ queue \in [Rooms -> Seq(Appends)]
  /\ pc \in [Appends -> Step]
  /\ room \in [Appends -> Rooms]
  /\ content \in [Appends -> Contents]
  /\ link \in [Appends -> Seq(Contents)]
  /\ outcome \in [Appends -> Outcome]
  /\ dropped \subseteq Rooms

ShadowInit ==
  /\ policy \in Policies
  /\ store = [r \in Rooms |-> <<>>]
  /\ queue = [r \in Rooms |-> <<>>]
  /\ pc = [a \in Appends |-> "idle"]
  /\ room \in [Appends -> Rooms]
  /\ content \in [Appends -> Contents]
  /\ link = [a \in Appends |-> <<>>]
  /\ outcome = [a \in Appends |-> "none"]
  /\ dropped = {}

(* countByRoom of every room, and totalCount.                               *)
RoomCounts == [r \in Rooms |-> Len(store[r])]

EntryCount == SumFunction(RoomCounts)
-----------------------------------------------------------------------------
(* withRoomLock: each caller waits for the promise of the one before it.    *)
Call(a) ==
  /\ pc[a] = "idle"
  /\ pc' = [pc EXCEPT ![a] = "link"]
  /\ queue' = [queue EXCEPT ![room[a]] = Append(@, a)]
  /\ UNCHANGED <<policy, store, room, content, link, outcome, dropped>>

(* Mutant: nobody waits.                                                    *)
HoldsOnceAsked(a) == a \in ToSet(queue[room[a]])

HoldsLock(a) == queue[room[a]] # <<>> /\ Head(queue[room[a]]) = a

(* The step of append that waits for the storage call named step.           *)
At(a, step) == pc[a] = step /\ HoldsLock(a)

GoOn(a, step) == pc' = [pc EXCEPT ![a] = step]

(* Mutant: the lock is not released by an append that throws.               *)
EndsKeepingLock(a, how) ==
  /\ GoOn(a, "done")
  /\ outcome' = [outcome EXCEPT ![a] = how]
  /\ queue' = IF how = "appended" THEN [queue EXCEPT ![room[a]] = Tail(@)] ELSE queue

(* append returns or throws: the finally block releases the lock.           *)
Ends(a, how) ==
  /\ GoOn(a, "done")
  /\ outcome' = [outcome EXCEPT ![a] = how]
  /\ queue' = [queue EXCEPT ![room[a]] = Tail(@)]

(* recent.find: the first entry of the room with the newest content, which  *)
(* is the newest entry unless that content was logged before.               *)
PriorLink(log, newest) == log[SelectInSeq(log, LAMBDA e : e.content = newest)].prev

(* getLatestHashForRoom, then readByRoom unless the room is empty.  Nobody  *)
(* else writes to the room, so the two calls see one state of it.           *)
ReadPrior(a) ==
  /\ At(a, "link")
  /\ LET log == store[room[a]]
         newest == Last(log).content
     IN link' = [link EXCEPT ![a] =
          IF log = <<>> THEN <<>> ELSE Append(PriorLink(log, newest), newest)]
  /\ GoOn(a, "count")
  /\ UNCHANGED <<policy, store, queue, room, content, outcome, dropped>>

(* Mutant: a limit of the rooms only.                                       *)
CountRoomOnly(a) ==
  /\ At(a, "count")
  /\ LET full == Len(store[room[a]]) >= MaxPerRoom IN
     \/ ~full /\ GoOn(a, "store") /\ UNCHANGED <<queue, outcome>>
     \/ full /\ policy = "drop-oldest" /\ GoOn(a, "evict") /\ UNCHANGED <<queue, outcome>>
     \/ full /\ policy = "refuse-write" /\ Ends(a, "storage_full")
  /\ UNCHANGED <<policy, store, room, content, link, dropped>>

(* applyBoundedStoragePolicy: countByRoom, then totalCount, which other     *)
(* rooms move, and the decision.                                            *)
Count(a) ==
  /\ At(a, "count")
  /\ LET full == Len(store[room[a]]) >= MaxPerRoom \/ EntryCount >= MaxTotal IN
     \/ ~full /\ GoOn(a, "store") /\ UNCHANGED <<queue, outcome>>
     \/ full /\ policy = "drop-oldest" /\ GoOn(a, "evict") /\ UNCHANGED <<queue, outcome>>
     \/ full /\ policy = "refuse-write" /\ Ends(a, "storage_full")
  /\ UNCHANGED <<policy, store, room, content, link, dropped>>

(* Of the writer's room, also when only the total is full and it is empty.  *)
Evict(a) ==
  /\ At(a, "evict")
  /\ IF store[room[a]] = <<>>
     THEN UNCHANGED <<store, dropped>>
     ELSE /\ store' = [store EXCEPT ![room[a]] = Tail(@)]
          /\ dropped' = dropped \cup {room[a]}
  /\ GoOn(a, "store")
  /\ UNCHANGED <<policy, queue, room, content, link, outcome>>

StoreOnce(a) ==
  /\ At(a, "store")
  /\ LET log == store[room[a]] IN
     store' = IF log # <<>> /\ Last(log).content = content[a] THEN store
              ELSE [store EXCEPT ![room[a]] =
                Append(@, [message |-> a, content |-> content[a], prev |-> link[a]])]
  /\ GoOn(a, "check")
  /\ UNCHANGED <<policy, queue, room, content, link, outcome, dropped>>

Store(a) ==
  /\ At(a, "store")
  /\ store' = [store EXCEPT ![room[a]] =
       Append(@, [message |-> a, content |-> content[a], prev |-> link[a]])]
  /\ GoOn(a, "check")
  /\ UNCHANGED <<policy, queue, room, content, link, outcome, dropped>>

(* The re-validation at the adapter's boundary.                             *)
ReadBack(a) ==
  /\ At(a, "check")
  /\ LET log == store[room[a]] IN
     IF log # <<>> /\ Last(log).content = content[a]
     THEN Ends(a, "appended")
     ELSE Ends(a, "storage_integrity_failure")
  /\ UNCHANGED <<policy, store, room, content, link, dropped>>

(* A call of the storage rejects, and append with it.                       *)
Reject(a) ==
  /\ Faulty
  /\ pc[a] \notin {"idle", "done"} /\ HoldsLock(a)
  /\ Ends(a, "rejected")
  /\ UNCHANGED <<policy, store, room, content, link, dropped>>

Proceed(a) ==
  ReadPrior(a) \/ Count(a) \/ Evict(a) \/ Store(a) \/ ReadBack(a)

ShadowNext == \E a \in Appends : Call(a) \/ Proceed(a) \/ Reject(a)

ShadowSpec == ShadowInit /\ [][ShadowNext]_shadowVars
-----------------------------------------------------------------------------
(* verifyChain, of entries that nobody has touched: their contents hash to  *)
(* their contentHash, and what is left is the walk along the links.         *)
VerifyChain(log) ==
  \A i \in DOMAIN log :
    log[i].prev = IF i = 1 THEN <<>> ELSE Append(log[i - 1].prev, log[i - 1].content)

Untouched(r) == r \notin dropped

(* No content of the room is logged again, its newest entry excepted.       *)
Unrepeated(log) ==
  \A i, j \in 1 .. Len(log) - 1 : log[i].content = log[j].content => i = j

(* types.ts:34, shadow-log.test.ts:234: however appends to one room        *)
(* overlap, fail and are refused, the chain of a room that has lost no      *)
(* entry verifies, as long as no content comes back.                        *)
ChainVerifies ==
  \A r \in Rooms : Untouched(r) /\ Unrepeated(store[r]) => VerifyChain(store[r])

(* types.ts:214-215 "Returns { ok: true } when intact": the same without    *)
(* the last condition.  The code does not keep it.                          *)
IntactVerifies == \A r \in Rooms : Untouched(r) => VerifyChain(store[r])

(* A room never holds more than its share, under either policy, whatever    *)
(* the other rooms do (types.ts:229-230).                                   *)
RoomCapped == \A r \in Rooms : Len(store[r]) <= MaxPerRoom

(* The total is counted under the lock of one room only.  When writes are   *)
(* refused, the appends that counted before the others stored can take it   *)
(* past the limit, by one for every other room and no more.                 *)
TotalOvershoot ==
  policy = "refuse-write" => EntryCount < MaxTotal + Cardinality(Rooms)

(* The re-validation accuses the storage of corrupting writes only when it  *)
(* did: a concurrent append never comes between a write and its check.      *)
NoFalseAlarm == \A a \in Appends : outcome[a] # "storage_integrity_failure"

(* What the caller is told is what happened to the message: one refused is  *)
(* not in the log, one acknowledged is, once, unless its room has dropped   *)
(* entries (shadow-log.ts:148-149, "never gets a partial append").          *)
Times(a) == Cardinality({i \in DOMAIN store[room[a]] : store[room[a]][i].message = a})

ToldTruth ==
  \A a \in Appends :
    /\ outcome[a] = "storage_full" => Times(a) = 0
    /\ outcome[a] = "appended" =>
         Times(a) = 1 \/ (Times(a) = 0 /\ room[a] \in dropped)

(* The lock of a room is held by an append that still runs, and an append   *)
(* that runs waits in exactly one queue, once: whoever returns, throws or   *)
(* is refused has handed it on.                                             *)
LockHandedOn ==
  \A r \in Rooms, a \in Appends :
    Cardinality({i \in DOMAIN queue[r] : queue[r][i] = a}) =
      IF room[a] = r /\ pc[a] \notin {"idle", "done"} THEN 1 ELSE 0
=============================================================================
