-------------------------- MODULE ShadowLog_proofs --------------------------
(***************************************************************************)
(* Proofs about the shadow log, for any appends, rooms, contents, limits   *)
(* and policies, and any calls of the storage failing.  The argument is    *)
(* the lock: whoever is past its first await is at the head of its room's  *)
(* queue, so what it read of its room still holds when it writes.          *)
(***************************************************************************)
EXTENDS ShadowLog, FoldLemmas

-----------------------------------------------------------------------------
(* Finding the predecessor.                                                 *)

(* The least of some indexes is one of them and not above any.              *)
LEMMA LeastIndex ==
  ASSUME NEW I \in SUBSET Nat, I # {}
  PROVE  /\ Min(I) \in I
         /\ \A i \in I : Min(I) <= i
BY LeastNumber DEF Min

(* What PriorLink finds is a link of the room, and that of the newest entry *)
(* if no content was logged twice.                                          *)
LEMMA FindFacts ==
  ASSUME NEW log \in Seq(Entry), log # <<>>
  PROVE  /\ Last(log) \in Entry
         /\ PriorLink(log, Last(log).content) \in Seq(Contents)
         /\ (\A i, j \in 1 .. Len(log) : log[i].content = log[j].content => i = j)
              => PriorLink(log, Last(log).content) = Last(log).prev
<1> DEFINE newest == Last(log).content
           I == {i \in 1 .. Len(log) : log[i].content = newest}
<1>1. /\ Len(log) \in Nat \ {0}
      /\ \A i \in 1 .. Len(log) : log[i] \in Entry
      /\ Last(log) = log[Len(log)]
  BY EmptySeq, ElementOfSeq DEF Last
<1>2. Len(log) \in I /\ I \subseteq 1 .. Len(log) /\ I \in SUBSET Nat
  BY <1>1
<1>3. PriorLink(log, newest) = log[Min(I)].prev
  BY <1>2 DEF PriorLink, SelectInSeq
<1>4. Min(I) \in I
  <2> HIDE DEF I
  <2> QED  BY <1>2, LeastIndex
<1>5. log[Min(I)] \in Entry /\ Last(log) \in Entry
  BY <1>1, <1>2, <1>4
<1>6. log[Min(I)].prev \in Seq(Contents)
  BY <1>5 DEF Entry
<1>7. ASSUME \A i, j \in 1 .. Len(log) : log[i].content = log[j].content => i = j
      PROVE  Min(I) = Len(log)
  BY <1>7, <1>1, <1>2, <1>4
<1> QED  BY <1>1, <1>3, <1>5, <1>6, <1>7

(* What ReadPrior computes.                                                 *)
LinkOf(log) ==
  IF log = <<>> THEN <<>> ELSE Append(PriorLink(log, Last(log).content), Last(log).content)

(* A link is a sequence of contents.                                        *)
LEMMA LinkTyped == ASSUME NEW log \in Seq(Entry) PROVE LinkOf(log) \in Seq(Contents)
<1>1. CASE log = <<>>
  BY <1>1 DEF LinkOf
<1>2. CASE log # <<>>
  <2>1. Last(log).content \in Contents
    BY <1>2, FindFacts DEF Entry
  <2> QED  BY <2>1, <1>2, FindFacts DEF LinkOf
<1> QED  BY <1>1, <1>2

(* A chain that verifies still does with an entry linked by LinkOf behind,  *)
(* when no content before it is repeated.                                   *)
LEMMA ChainGrows ==
  ASSUME NEW log \in Seq(Entry), NEW e \in Entry,
         e.prev = LinkOf(log),
         Unrepeated(log) => VerifyChain(log),
         Unrepeated(Append(log, e))
  PROVE  VerifyChain(Append(log, e))
<1> DEFINE longer == Append(log, e)
<1>1. /\ Len(log) \in Nat
      /\ Len(longer) = Len(log) + 1
      /\ DOMAIN longer = 1 .. Len(log) + 1
      /\ DOMAIN log = 1 .. Len(log)
      /\ \A i \in 1 .. Len(log) : longer[i] = log[i]
      /\ longer[Len(log) + 1] = e
  BY AppendProperties
<1> HIDE DEF longer
<1>2. \A i, j \in 1 .. Len(log) : log[i].content = log[j].content => i = j
  BY <1>1 DEF Unrepeated, longer
<1>3. VerifyChain(log)
  BY <1>1, <1>2 DEF Unrepeated
<1>4. ASSUME NEW i \in 1 .. Len(log)
      PROVE  longer[i].prev = IF i = 1 THEN <<>>
                              ELSE Append(longer[i - 1].prev, longer[i - 1].content)
  <2>1. longer[i] = log[i] /\ (i # 1 => longer[i - 1] = log[i - 1])
    BY <1>1
  <2> QED  BY <2>1, <1>1, <1>3 DEF VerifyChain
<1>5. e.prev = IF Len(log) + 1 = 1 THEN <<>>
               ELSE Append(longer[Len(log)].prev, longer[Len(log)].content)
  <2>1. CASE log = <<>>
    BY <2>1, <1>1 DEF LinkOf
  <2>2. CASE log # <<>>
    <3>1. Len(log) \in 1 .. Len(log) /\ Last(log) = log[Len(log)]
      BY <2>2, <1>1, EmptySeq DEF Last
    <3>2. PriorLink(log, Last(log).content) = Last(log).prev
      BY <2>2, <1>2, FindFacts
    <3> QED  BY <3>1, <3>2, <2>2, <1>1 DEF LinkOf
  <2> QED  BY <2>1, <2>2
<1>6. VerifyChain(longer)
  BY <1>1, <1>4, <1>5 DEF VerifyChain
<1> QED  BY <1>6 DEF longer

-----------------------------------------------------------------------------
(* Types.                                                                   *)

(* Every step keeps the types, ...                                          *)
LEMMA TypeStep == ASSUME ShadowTypeOK, [ShadowNext]_shadowVars PROVE ShadowTypeOK'
<1> USE DEF ShadowTypeOK
<1>1. \A a \in Appends : HoldsLock(a) => Tail(queue[room[a]]) \in Seq(Appends)
  BY HeadTailProperties DEF HoldsLock
<1>2. ASSUME NEW a \in Appends, NEW how \in Outcome, HoldsLock(a), Ends(a, how)
      PROVE  /\ pc' \in [Appends -> Step]
             /\ outcome' \in [Appends -> Outcome]
             /\ queue' \in [Rooms -> Seq(Appends)]
  BY <1>1, <1>2 DEF Ends, GoOn, Step
<1>3. ASSUME NEW a \in Appends, Call(a) PROVE ShadowTypeOK'
  <2>1. queue' \in [Rooms -> Seq(Appends)]
    BY <1>3, AppendProperties DEF Call
  <2>2. pc' \in [Appends -> Step]
    BY <1>3 DEF Call, Step
  <2> QED  BY <1>3, <2>1, <2>2 DEF Call
<1>4. ASSUME NEW a \in Appends, ReadPrior(a) PROVE ShadowTypeOK'
  <2>1. link' = [link EXCEPT ![a] = LinkOf(store[room[a]])]
    BY <1>4 DEF ReadPrior, LinkOf
  <2>2. link' \in [Appends -> Seq(Contents)]
    <3>1. LinkOf(store[room[a]]) \in Seq(Contents)
      BY LinkTyped
    <3> QED  BY <2>1, <3>1
  <2>3. pc' \in [Appends -> Step]
    BY <1>4 DEF ReadPrior, GoOn, Step
  <2> QED  BY <1>4, <2>2, <2>3 DEF ReadPrior
<1>5. ASSUME NEW a \in Appends, Count(a) PROVE ShadowTypeOK'
  <2>1. HoldsLock(a)
    BY <1>5 DEF Count, At
  <2>2. CASE Ends(a, "storage_full")
    BY <1>5, <2>1, <2>2, <1>2 DEF Count, Outcome
  <2>3. CASE (GoOn(a, "store") \/ GoOn(a, "evict")) /\ UNCHANGED <<queue, outcome>>
    <3>1. pc' \in [Appends -> Step]
      BY <2>3 DEF GoOn, Step
    <3> QED  BY <1>5, <2>3, <3>1 DEF Count
  <2> QED  BY <1>5, <2>2, <2>3 DEF Count
<1>6. ASSUME NEW a \in Appends, Evict(a) PROVE ShadowTypeOK'
  <2>1. pc' \in [Appends -> Step]
    BY <1>6 DEF Evict, GoOn, Step
  <2>2. store' \in [Rooms -> Seq(Entry)] /\ dropped' \subseteq Rooms
    <3>1. CASE store[room[a]] = <<>>
      BY <1>6, <3>1 DEF Evict
    <3>2. CASE store[room[a]] # <<>>
      <4>1. Tail(store[room[a]]) \in Seq(Entry)
        BY <3>2, HeadTailProperties
      <4>2. /\ store' = [store EXCEPT ![room[a]] = Tail(@)]
            /\ dropped' = dropped \cup {room[a]}
        BY <1>6, <3>2 DEF Evict
      <4> QED  BY <4>1, <4>2
    <3> QED  BY <3>1, <3>2
  <2> QED  BY <1>6, <2>1, <2>2 DEF Evict
<1>7. ASSUME NEW a \in Appends, Store(a) PROVE ShadowTypeOK'
  <2>1. pc' \in [Appends -> Step]
    BY <1>7 DEF Store, GoOn, Step
  <2>2. [message |-> a, content |-> content[a], prev |-> link[a]] \in Entry
    BY DEF Entry
  <2>3. store' \in [Rooms -> Seq(Entry)]
    BY <1>7, <2>2, AppendProperties DEF Store
  <2> QED  BY <1>7, <2>1, <2>3 DEF Store
<1>8. ASSUME NEW a \in Appends, ReadBack(a) PROVE ShadowTypeOK'
  <2>1. Ends(a, "appended") \/ Ends(a, "storage_integrity_failure")
    BY <1>8 DEF ReadBack
  <2> QED  BY <1>8, <2>1, <1>2 DEF ReadBack, At, Outcome
<1>9. ASSUME NEW a \in Appends, Reject(a) PROVE ShadowTypeOK'
  BY <1>9, <1>2 DEF Reject, Outcome
<1> QED
  BY <1>3, <1>4, <1>5, <1>6, <1>7, <1>8, <1>9 DEF ShadowNext, Proceed, shadowVars, local

(* ... which the log has at first.                                          *)
LEMMA TypeInit == ASSUME ShadowInit PROVE ShadowTypeOK
  BY DEF ShadowInit, ShadowTypeOK, Step, Outcome

(* Every reachable state of the log has the types declared for it.          *)
THEOREM ShadowTypeCorrect == ShadowSpec => []ShadowTypeOK
  BY TypeInit, TypeStep, PTL DEF ShadowSpec

-----------------------------------------------------------------------------
(* The lock.                                                                *)

(* Whoever waits in a room's queue runs, and logs to that room, ...         *)
Queued ==
  \A r \in Rooms : \A i \in DOMAIN queue[r] :
    room[queue[r][i]] = r /\ pc[queue[r][i]] \notin {"idle", "done"}

(* No two places of a queue are one append's.                               *)
Once(q) == \A i, j \in DOMAIN q : q[i] = q[j] => i = j

(* ... and waits there once.                                                *)
QueuedOnce == \A r \in Rooms : Once(queue[r])

(* The append has been given the lock.                                      *)
PastFirstAwait(a) == pc[a] \in {"count", "evict", "store", "check"}

(* The queues, and that the lock is held by whoever acts under it.          *)
LockInv ==
  /\ Queued
  /\ QueuedOnce
  /\ \A a \in Appends : PastFirstAwait(a) => HoldsLock(a)

(* A queue without its first keeps the others, once each, ...               *)
LEMMA TailOnce ==
  ASSUME NEW S, NEW q \in Seq(S), q # <<>>, Once(q)
  PROVE  /\ Tail(q) \in Seq(S)
         /\ Once(Tail(q))
         /\ \A i \in DOMAIN Tail(q) : /\ i + 1 \in DOMAIN q
                                      /\ Tail(q)[i] = q[i + 1]
                                      /\ Tail(q)[i] # Head(q)
<1> DEFINE t == Tail(q)
<1>1. /\ Len(q) \in Nat \ {0} /\ DOMAIN q = 1 .. Len(q)
      /\ Head(q) = q[1]
  BY EmptySeq
<1>2. /\ t \in Seq(S) /\ DOMAIN t = 1 .. Len(q) - 1
      /\ \A i \in 1 .. Len(q) - 1 : t[i] = q[i + 1]
  BY <1>1, HeadTailProperties
<1> HIDE DEF t
<1>3. \A i \in DOMAIN t : i \in Nat \ {0} /\ i + 1 \in DOMAIN q /\ t[i] = q[i + 1]
  BY <1>1, <1>2
<1>4. 1 \in DOMAIN q
  BY <1>1
<1>5. ASSUME NEW i \in DOMAIN t PROVE t[i] # Head(q)
  BY <1>1, <1>3, <1>4 DEF Once
<1>6. ASSUME NEW i \in DOMAIN t, NEW j \in DOMAIN t, t[i] = t[j] PROVE i = j
  <2>1. i + 1 = j + 1
    BY <1>3, <1>6 DEF Once
  <2> QED  BY <1>3, <2>1
<1> QED  BY <1>2, <1>3, <1>5, <1>6 DEF Once, t

(* ... and so does one with somebody new behind.                            *)
LEMMA AppendOnce ==
  ASSUME NEW S, NEW q \in Seq(S), NEW e \in S, Once(q), \A i \in DOMAIN q : q[i] # e
  PROVE  /\ Once(Append(q, e))
         /\ \A i \in DOMAIN Append(q, e) :
               Append(q, e)[i] = e \/ (i \in DOMAIN q /\ Append(q, e)[i] = q[i])
         /\ q # <<>> => Head(Append(q, e)) = Head(q)
<1> DEFINE t == Append(q, e)
<1>1. /\ Len(q) \in Nat /\ DOMAIN q = 1 .. Len(q)
      /\ t \in Seq(S) /\ Len(t) = Len(q) + 1 /\ DOMAIN t = 1 .. Len(q) + 1
      /\ \A i \in 1 .. Len(q) : t[i] = q[i]
      /\ t[Len(q) + 1] = e
  BY AppendProperties
<1> HIDE DEF t
<1>2. \A i \in DOMAIN t : (i = Len(q) + 1 /\ t[i] = e) \/ (i \in DOMAIN q /\ t[i] = q[i])
  BY <1>1
<1>3. ASSUME NEW i \in DOMAIN t, NEW j \in DOMAIN t, t[i] = t[j] PROVE i = j
  BY <1>2, <1>3 DEF Once
<1>4. ASSUME q # <<>> PROVE Head(t) = Head(q)
  <2>1. 1 \in 1 .. Len(q) /\ Head(q) = q[1]
    BY <1>1, <1>4, EmptySeq
  <2>2. t # <<>>
    BY <1>1, EmptySeq
  <2>3. Head(t) = t[1]
    BY <1>1, <2>2
  <2> QED  BY <2>1, <2>3, <1>1
<1> QED  BY <1>2, <1>3, <1>4 DEF Once, t

(* The shapes of the steps: an append under the lock goes on, or ends.      *)
LEMMA GoOnKeepsLock ==
  ASSUME ShadowTypeOK, LockInv, NEW a \in Appends, NEW step \in Step \ {"idle", "done"},
         HoldsLock(a), GoOn(a, step), UNCHANGED <<queue, room>>
  PROVE  LockInv'
<1> USE DEF ShadowTypeOK, GoOn
<1>1. Queued'
  <2>1. \A r \in Rooms : \A i \in DOMAIN queue[r] : queue[r][i] \in Appends
    OBVIOUS
  <2> QED  BY <2>1 DEF LockInv, Queued
<1>2. QueuedOnce'
  BY DEF LockInv, QueuedOnce
<1>3. ASSUME NEW b \in Appends, PastFirstAwait(b)' PROVE HoldsLock(b)'
  <2>1. CASE b = a
    BY <2>1 DEF HoldsLock
  <2>2. CASE b # a
    BY <1>3, <2>2 DEF LockInv, PastFirstAwait, HoldsLock
  <2> QED  BY <2>1, <2>2
<1> QED  BY <1>1, <1>2, <1>3 DEF LockInv

(* One that ends leaves the lock to the next.                               *)
LEMMA EndsKeepsLock ==
  ASSUME ShadowTypeOK, LockInv, NEW a \in Appends, NEW how,
         HoldsLock(a), Ends(a, how), UNCHANGED room
  PROVE  LockInv'
<1> DEFINE q == queue[room[a]]
           t == Tail(q)
<1> USE DEF ShadowTypeOK
<1>1. /\ queue'[room[a]] = t
      /\ \A r \in Rooms \ {room[a]} : queue'[r] = queue[r]
      /\ pc' = [pc EXCEPT ![a] = "done"]
      /\ room' = room
  BY DEF Ends, GoOn
<1>2. /\ q \in Seq(Appends) /\ q # <<>> /\ Head(q) = a
      /\ Once(q)
  BY DEF HoldsLock, LockInv, QueuedOnce
<1> HIDE DEF q
<1>3. /\ t \in Seq(Appends) /\ Once(t)
      /\ \A i \in DOMAIN t : i + 1 \in DOMAIN q /\ t[i] = q[i + 1] /\ t[i] # a
  BY <1>2, TailOnce
<1> HIDE DEF t
<1>4. Queued'
  <2>1. ASSUME NEW r \in Rooms, NEW i \in DOMAIN queue'[r]
        PROVE  /\ queue'[r][i] # a /\ queue'[r][i] \in Appends
               /\ room[queue'[r][i]] = r /\ pc[queue'[r][i]] \notin {"idle", "done"}
    <3>1. CASE r = room[a]
      <4>1. i \in DOMAIN t /\ queue'[r][i] = t[i] /\ t[i] \in Appends
        BY <3>1, <1>1, <1>3
      <4>2. i + 1 \in DOMAIN queue[r] /\ t[i] = queue[r][i + 1] /\ t[i] # a
        BY <3>1, <4>1, <1>3 DEF q
      <4>3. room[queue[r][i + 1]] = r /\ pc[queue[r][i + 1]] \notin {"idle", "done"}
        BY <4>2 DEF LockInv, Queued
      <4> QED  BY <4>1, <4>2, <4>3
    <3>2. CASE r # room[a]
      <4>1. queue'[r] = queue[r]
        BY <3>2, <1>1
      <4>2. i \in DOMAIN queue[r] /\ queue[r][i] \in Appends
        BY <4>1
      <4>3. room[queue[r][i]] = r /\ pc[queue[r][i]] \notin {"idle", "done"}
        BY <4>2 DEF LockInv, Queued
      <4>4. queue[r][i] # a
        BY <3>2, <4>3
      <4> QED  BY <4>1, <4>2, <4>3, <4>4
    <3> QED  BY <3>1, <3>2
  <2> QED  BY <2>1, <1>1 DEF Queued
<1>5. QueuedOnce'
  <2>1. ASSUME NEW r \in Rooms PROVE Once(queue'[r])
    BY <1>1, <1>3 DEF LockInv, QueuedOnce
  <2> QED  BY <2>1 DEF QueuedOnce, Once
<1>6. ASSUME NEW b \in Appends, PastFirstAwait(b)' PROVE HoldsLock(b)'
  <2>1. b # a /\ PastFirstAwait(b)
    BY <1>1, <1>6 DEF PastFirstAwait
  <2>2. HoldsLock(b) /\ room[b] # room[a]
    BY <2>1 DEF LockInv, HoldsLock
  <2> QED  BY <2>2, <1>1 DEF HoldsLock
<1> QED  BY <1>4, <1>5, <1>6 DEF LockInv

(* One that asks for the lock waits behind the others.                      *)
LEMMA CallKeepsLock ==
  ASSUME ShadowTypeOK, LockInv, NEW a \in Appends, Call(a)
  PROVE  LockInv'
<1> DEFINE q == queue[room[a]]
           t == Append(q, a)
<1> USE DEF ShadowTypeOK
<1>1. /\ queue'[room[a]] = t
      /\ \A r \in Rooms \ {room[a]} : queue'[r] = queue[r]
      /\ pc' = [pc EXCEPT ![a] = "link"]
      /\ room' = room
      /\ pc[a] = "idle"
  BY DEF Call
<1>2. /\ q \in Seq(Appends) /\ Once(q)
      /\ \A i \in DOMAIN q : q[i] # a
  <2>1. \A i \in DOMAIN q : pc[q[i]] # "idle"
    BY DEF LockInv, Queued
  <2> QED  BY <1>1, <2>1 DEF LockInv, QueuedOnce
<1> HIDE DEF q
<1>3. /\ Once(t) /\ t # <<>>
      /\ \A i \in DOMAIN t : t[i] = a \/ (i \in DOMAIN q /\ t[i] = q[i])
      /\ q # <<>> => Head(t) = Head(q)
  <2>1. t # <<>>
    <3>1. t \in Seq(Appends) /\ Len(t) = Len(q) + 1 /\ Len(q) \in Nat
      BY <1>2, AppendProperties
    <3> HIDE DEF t
    <3> QED  BY <3>1, EmptySeq
  <2>2. Once(t) /\ (q # <<>> => Head(t) = Head(q))
    BY <1>2, AppendOnce
  <2>3. \A i \in DOMAIN t : t[i] = a \/ (i \in DOMAIN q /\ t[i] = q[i])
    BY <1>2, AppendOnce, SMTT(40)
  <2> QED  BY <2>1, <2>2, <2>3
<1> HIDE DEF t
<1>4. Queued'
  <2>1. ASSUME NEW r \in Rooms, NEW i \in DOMAIN queue'[r]
        PROVE  /\ queue'[r][i] \in Appends /\ room[queue'[r][i]] = r
               /\ pc[queue'[r][i]] \notin {"idle", "done"} \/ queue'[r][i] = a
    <3>1. CASE r = room[a] /\ queue'[r][i] = a
      BY <3>1
    <3>2. CASE r = room[a] /\ queue'[r][i] # a
      <4>1. i \in DOMAIN q /\ queue'[r][i] = q[i] /\ q[i] \in Appends
        BY <3>2, <1>1, <1>2, <1>3
      <4>2. room[q[i]] = r /\ pc[q[i]] \notin {"idle", "done"}
        BY <3>2, <4>1 DEF LockInv, Queued, q
      <4> QED  BY <4>1, <4>2
    <3>3. CASE r # room[a]
      <4>1. queue'[r] = queue[r]
        BY <3>3, <1>1
      <4>2. i \in DOMAIN queue[r] /\ queue[r][i] \in Appends
        BY <4>1
      <4>3. room[queue[r][i]] = r /\ pc[queue[r][i]] \notin {"idle", "done"}
        BY <4>2 DEF LockInv, Queued
      <4> QED  BY <4>1, <4>2, <4>3
    <3> QED  BY <3>1, <3>2, <3>3
  <2> QED  BY <2>1, <1>1 DEF Queued
<1>5. QueuedOnce'
  <2>1. ASSUME NEW r \in Rooms PROVE Once(queue'[r])
    BY <1>1, <1>3 DEF LockInv, QueuedOnce
  <2> QED  BY <2>1 DEF QueuedOnce, Once
<1>6. ASSUME NEW b \in Appends, PastFirstAwait(b)' PROVE HoldsLock(b)'
  <2>1. b # a /\ PastFirstAwait(b)
    BY <1>1, <1>6 DEF PastFirstAwait
  <2>2. HoldsLock(b)
    BY <2>1 DEF LockInv
  <2>3. CASE room[b] = room[a]
    <3>1. q # <<>> /\ Head(q) = b
      BY <2>2, <2>3 DEF HoldsLock, q
    <3> QED  BY <2>3, <3>1, <1>1, <1>3 DEF HoldsLock
  <2>4. CASE room[b] # room[a]
    BY <2>2, <2>4, <1>1 DEF HoldsLock
  <2> QED  BY <2>3, <2>4
<1> QED  BY <1>4, <1>5, <1>6 DEF LockInv

-----------------------------------------------------------------------------
(* What an append read of its room is still so when it acts on it.          *)

(* What an append has read of its room, and what it has written there, is   *)
(* so.                                                                      *)
Fit(a) ==
  /\ pc[a] \in {"count", "evict", "store"} /\ Untouched(room[a])
       => link[a] = LinkOf(store[room[a]])
  /\ pc[a] = "store" => Len(store[room[a]]) < MaxPerRoom
  /\ pc[a] = "check" => store[room[a]] # <<>> /\ Last(store[room[a]]).content = content[a]

(* The invariant of the log.                                                *)
ShadowInv ==
  /\ ShadowTypeOK
  /\ LockInv
  /\ \A a \in Appends : Fit(a)
  /\ ChainVerifies
  /\ RoomCapped
  /\ NoFalseAlarm

(* The lock: nothing the append that acts does concerns the other appends.  *)
LEMMA OthersFit ==
  ASSUME ShadowTypeOK, LockInv, NEW a \in Appends, HoldsLock(a),
         NEW b \in Appends \ {a}, Fit(b),
         UNCHANGED <<room, content>>, pc'[b] = pc[b], link'[b] = link[b],
         \A r \in Rooms \ {room[a]} : store'[r] = store[r] /\ (Untouched(r)' => Untouched(r))
  PROVE  Fit(b)'
<1>1. CASE PastFirstAwait(b)
  <2>1. room[b] \in Rooms \ {room[a]}
    BY <1>1 DEF LockInv, HoldsLock, ShadowTypeOK
  <2> QED  BY <2>1 DEF Fit
<1>2. CASE ~ PastFirstAwait(b)
  BY <1>2 DEF PastFirstAwait, Fit
<1> QED  BY <1>1, <1>2

(* Steps that leave the store and the history alone.                        *)
LEMMA StoreUnchanged ==
  ASSUME ChainVerifies, RoomCapped, UNCHANGED <<store, dropped>>
  PROVE  ChainVerifies' /\ RoomCapped'
BY DEF ChainVerifies, RoomCapped, Untouched

(* Asking for the lock keeps the invariant, ...                             *)
LEMMA CallStep ==
  ASSUME ShadowInv, NEW a \in Appends, Call(a) PROVE ShadowInv'
<1>1. ShadowTypeOK'
  BY TypeStep DEF ShadowInv, ShadowNext
<1>2. LockInv'
  BY CallKeepsLock DEF ShadowInv
<1>3. ASSUME NEW b \in Appends PROVE Fit(b)'
  <2>1. Fit(b) /\ pc \in [Appends -> Step]
    BY DEF ShadowInv, ShadowTypeOK
  <2> QED  BY <2>1 DEF Call, Fit, Untouched
<1> QED
  BY <1>1, <1>2, <1>3, StoreUnchanged DEF ShadowInv, Call, NoFalseAlarm

(* ... so does finding the predecessor, ...                                 *)
LEMMA ReadPriorStep ==
  ASSUME ShadowInv, NEW a \in Appends, ReadPrior(a) PROVE ShadowInv'
<1>1. ShadowTypeOK' /\ ShadowTypeOK /\ LockInv
  BY TypeStep DEF ShadowInv, ShadowNext, Proceed
<1>2. /\ HoldsLock(a)
      /\ pc' = [pc EXCEPT ![a] = "count"]
      /\ link' = [link EXCEPT ![a] = LinkOf(store[room[a]])]
      /\ UNCHANGED <<policy, store, queue, room, content, outcome, dropped>>
  BY DEF ReadPrior, At, GoOn, LinkOf
<1>3. LockInv'
  BY <1>1, <1>2, GoOnKeepsLock DEF GoOn, Step
<1>4. ASSUME NEW b \in Appends PROVE Fit(b)'
  <2>1. CASE b = a
    BY <1>1, <1>2, <2>1 DEF Fit, ShadowTypeOK
  <2>2. CASE b # a
    <3>1. Fit(b) /\ pc'[b] = pc[b] /\ link'[b] = link[b]
      BY <1>1, <1>2, <2>2 DEF ShadowInv, ShadowTypeOK
    <3> QED  BY <3>1, <2>2, <1>1, <1>2, OthersFit DEF Untouched
  <2> QED  BY <2>1, <2>2
<1> QED
  BY <1>1, <1>2, <1>3, <1>4, StoreUnchanged DEF ShadowInv, NoFalseAlarm

(* An append that ends, in whatever way but by a false alarm.               *)
LEMMA EndStep ==
  ASSUME ShadowInv, NEW a \in Appends, NEW how, how # "storage_integrity_failure",
         ShadowTypeOK', HoldsLock(a), Ends(a, how),
         UNCHANGED <<policy, store, room, content, link, dropped>>
  PROVE  ShadowInv'
<1>1. ShadowTypeOK /\ LockInv
  BY DEF ShadowInv
<1>2. /\ pc' = [pc EXCEPT ![a] = "done"]
      /\ outcome' = [outcome EXCEPT ![a] = how]
  BY DEF Ends, GoOn
<1>3. LockInv'
  BY <1>1, EndsKeepsLock
<1>4. ASSUME NEW b \in Appends PROVE Fit(b)'
  <2>1. CASE b = a
    BY <1>1, <1>2, <2>1 DEF Fit, ShadowTypeOK
  <2>2. CASE b # a
    <3>1. Fit(b) /\ pc'[b] = pc[b] /\ link'[b] = link[b]
      BY <1>1, <1>2, <2>2 DEF ShadowInv, ShadowTypeOK
    <3> QED  BY <3>1, <2>2, <1>1, OthersFit DEF Untouched
  <2> QED  BY <2>1, <2>2
<1>5. NoFalseAlarm'
  BY <1>1, <1>2 DEF ShadowInv, NoFalseAlarm, ShadowTypeOK
<1> QED
  BY <1>3, <1>4, <1>5, StoreUnchanged DEF ShadowInv

(* ... counting, ...                                                        *)
LEMMA CountStep ==
  ASSUME ShadowInv, NEW a \in Appends, Count(a) PROVE ShadowInv'
<1>1. ShadowTypeOK' /\ ShadowTypeOK /\ LockInv
  BY TypeStep DEF ShadowInv, ShadowNext, Proceed
<1>2. /\ HoldsLock(a) /\ pc[a] = "count"
      /\ UNCHANGED <<policy, store, room, content, link, dropped>>
  BY DEF Count, At
<1>3. CASE Ends(a, "storage_full")
  BY <1>1, <1>2, <1>3, EndStep
<1>4. ASSUME NEW step \in {"store", "evict"}, GoOn(a, step), UNCHANGED <<queue, outcome>>,
             step = "store" => Len(store[room[a]]) < MaxPerRoom
      PROVE  ShadowInv'
  <2>1. LockInv'
    BY <1>1, <1>2, <1>4, GoOnKeepsLock DEF Step
  <2>2. pc' = [pc EXCEPT ![a] = step]
    BY <1>4 DEF GoOn
  <2>3. ASSUME NEW b \in Appends PROVE Fit(b)'
    <3>1. CASE b = a
      <4>1. Fit(a)
        BY DEF ShadowInv
      <4>2. pc'[a] = step
        BY <1>1, <2>2 DEF ShadowTypeOK
      <4> QED  BY <3>1, <4>1, <4>2, <1>2, <1>4 DEF Fit, Untouched
    <3>2. CASE b # a
      <4>1. Fit(b) /\ pc'[b] = pc[b] /\ link'[b] = link[b]
        BY <1>1, <1>2, <2>2, <3>2 DEF ShadowInv, ShadowTypeOK
      <4> QED  BY <4>1, <3>2, <1>1, <1>2, OthersFit DEF Untouched
    <3> QED  BY <3>1, <3>2
  <2> QED
    BY <2>1, <2>3, <1>1, <1>2, <1>4, StoreUnchanged DEF ShadowInv, NoFalseAlarm
<1>5. ASSUME ~ (Len(store[room[a]]) >= MaxPerRoom) PROVE Len(store[room[a]]) < MaxPerRoom
  <2>1. Len(store[room[a]]) \in Nat
    BY <1>1 DEF ShadowTypeOK
  <2> QED  BY <1>5, <2>1, ShadowAssumption
<1> QED  BY <1>3, <1>4, <1>5 DEF Count

(* ... evicting, ...                                                        *)
LEMMA EvictStep ==
  ASSUME ShadowInv, NEW a \in Appends, Evict(a) PROVE ShadowInv'
<1> DEFINE log == store[room[a]]
<1>1. ShadowTypeOK' /\ ShadowTypeOK /\ LockInv
  BY TypeStep DEF ShadowInv, ShadowNext, Proceed
<1>2. /\ HoldsLock(a) /\ pc[a] = "evict"
      /\ pc' = [pc EXCEPT ![a] = "store"]
      /\ UNCHANGED <<policy, queue, room, content, link, outcome>>
  BY DEF Evict, At, GoOn
<1>3. LockInv'
  BY <1>1, <1>2, GoOnKeepsLock DEF GoOn, Step
<1>4. /\ log \in Seq(Entry) /\ Len(log) \in Nat /\ Len(log) <= MaxPerRoom
      /\ room[a] \in Rooms
  BY <1>1 DEF ShadowInv, RoomCapped, ShadowTypeOK
<1>5. \/ log = <<>> /\ UNCHANGED <<store, dropped>>
      \/ /\ log # <<>>
         /\ store' = [store EXCEPT ![room[a]] = Tail(log)]
         /\ dropped' = dropped \cup {room[a]}
  BY DEF Evict
<1>6. /\ \A r \in Rooms \ {room[a]} : store'[r] = store[r]
      /\ dropped \subseteq dropped'
      /\ Len(store'[room[a]]) < MaxPerRoom
      /\ room[a] \notin dropped' => store'[room[a]] = log
  <2>1. CASE log = <<>> /\ UNCHANGED <<store, dropped>>
    <3>1. Len(store'[room[a]]) = 0
      BY <2>1
    <3> QED  BY <2>1, <3>1, ShadowAssumption
  <2>2. CASE log # <<>> /\ store' = [store EXCEPT ![room[a]] = Tail(log)]
             /\ dropped' = dropped \cup {room[a]}
    <3>1. Len(Tail(log)) = Len(log) - 1
      BY <2>2, <1>4, HeadTailProperties
    <3>2. store'[room[a]] = Tail(log) /\ \A r \in Rooms \ {room[a]} : store'[r] = store[r]
      BY <2>2, <1>1, <1>4 DEF ShadowTypeOK
    <3>3. Len(Tail(log)) < MaxPerRoom
      <4> HIDE DEF log
      <4> QED  BY <3>1, <1>4, ShadowAssumption
    <3>4. dropped \subseteq dropped' /\ room[a] \in dropped'
      BY <2>2
    <3> QED  BY <3>2, <3>3, <3>4
  <2> QED  BY <2>1, <2>2, <1>5
<1>7. ASSUME NEW b \in Appends PROVE Fit(b)'
  <2>1. CASE b = a
    <3>1. Fit(a)
      BY DEF ShadowInv
    <3>2. pc'[a] = "store"
      BY <1>1, <1>2 DEF ShadowTypeOK
    <3> QED  BY <2>1, <3>1, <3>2, <1>2, <1>6 DEF Fit, Untouched
  <2>2. CASE b # a
    <3>1. Fit(b) /\ pc'[b] = pc[b] /\ link'[b] = link[b]
      BY <1>1, <1>2, <2>2 DEF ShadowInv, ShadowTypeOK
    <3> QED  BY <3>1, <2>2, <1>1, <1>2, <1>6, OthersFit DEF Untouched
  <2> QED  BY <2>1, <2>2
<1>8. ChainVerifies'
  <2>1. ASSUME NEW r \in Rooms, Untouched(r)' PROVE Untouched(r) /\ store'[r] = store[r]
    BY <2>1, <1>6 DEF Untouched
  <2> QED  BY <2>1 DEF ShadowInv, ChainVerifies
<1>9. RoomCapped'
  <2>1. ASSUME NEW r \in Rooms PROVE Len(store'[r]) <= MaxPerRoom
    <3>1. CASE r = room[a]
      <4>1. Len(store'[r]) \in Nat
        BY <1>1 DEF ShadowTypeOK
      <4> QED  BY <3>1, <4>1, <1>6, ShadowAssumption
    <3>2. CASE r # room[a]
      BY <3>2, <1>6 DEF ShadowInv, RoomCapped
    <3> QED  BY <3>1, <3>2
  <2> QED  BY <2>1 DEF RoomCapped
<1> QED
  BY <1>1, <1>2, <1>3, <1>7, <1>8, <1>9 DEF ShadowInv, NoFalseAlarm

(* ... storing, ...                                                         *)
LEMMA StoreStep ==
  ASSUME ShadowInv, NEW a \in Appends, Store(a) PROVE ShadowInv'
<1> DEFINE log == store[room[a]]
           e == [message |-> a, content |-> content[a], prev |-> link[a]]
           longer == Append(log, e)
<1>1. ShadowTypeOK' /\ ShadowTypeOK /\ LockInv
  BY TypeStep DEF ShadowInv, ShadowNext, Proceed
<1>2. /\ HoldsLock(a) /\ pc[a] = "store"
      /\ pc' = [pc EXCEPT ![a] = "check"]
      /\ store' = [store EXCEPT ![room[a]] = longer]
      /\ UNCHANGED <<policy, queue, room, content, link, outcome, dropped>>
  BY DEF Store, At, GoOn
<1>3. LockInv'
  BY <1>1, <1>2, GoOnKeepsLock DEF GoOn, Step
<1>4. /\ log \in Seq(Entry) /\ Len(log) \in Nat /\ room[a] \in Rooms
      /\ content[a] \in Contents /\ link[a] \in Seq(Contents)
  BY <1>1 DEF ShadowTypeOK
<1>5. e \in Entry /\ e.content = content[a] /\ e.prev = link[a]
  BY <1>4 DEF Entry
<1>6. /\ store'[room[a]] = longer
      /\ \A r \in Rooms \ {room[a]} : store'[r] = store[r]
  BY <1>1, <1>2, <1>4 DEF ShadowTypeOK
<1>7. Fit(a)
  BY DEF ShadowInv
<1> HIDE DEF e
<1>8. longer \in Seq(Entry) /\ Len(longer) = Len(log) + 1 /\ longer[Len(log) + 1] = e
  BY <1>4, <1>5, AppendProperties
<1>9. longer # <<>> /\ Last(longer) = e
  <2> HIDE DEF longer, log
  <2>1. longer # <<>>
    BY <1>4, <1>8, EmptySeq
  <2> QED  BY <2>1, <1>8 DEF Last
<1>10. ASSUME NEW b \in Appends PROVE Fit(b)'
  <2>1. CASE b = a
    <3>1. pc'[a] = "check"
      BY <1>1, <1>2 DEF ShadowTypeOK
    <3>2. store'[room'[a]] = longer /\ content' = content
      BY <1>2, <1>6
    <3> HIDE DEF longer
    <3> QED  BY <2>1, <3>1, <3>2, <1>5, <1>9 DEF Fit
  <2>2. CASE b # a
    <3>1. Fit(b) /\ pc'[b] = pc[b] /\ link'[b] = link[b]
      BY <1>1, <1>2, <2>2 DEF ShadowInv, ShadowTypeOK
    <3> QED  BY <3>1, <2>2, <1>1, <1>2, <1>6, OthersFit DEF Untouched
  <2> QED  BY <2>1, <2>2
<1>11. ChainVerifies'
  <2>1. ASSUME NEW r \in Rooms, r \notin dropped, Unrepeated(store'[r])
        PROVE  VerifyChain(store'[r])
    <3>1. CASE r = room[a]
      <4>1. e.prev = LinkOf(log)
        BY <2>1, <3>1, <1>2, <1>5, <1>7 DEF Fit, Untouched
      <4>2. Unrepeated(log) => VerifyChain(log)
        BY <2>1, <3>1 DEF ShadowInv, ChainVerifies, Untouched
      <4>3. Unrepeated(longer)
        BY <2>1, <3>1, <1>6
      <4>4. VerifyChain(longer)
        BY <4>1, <4>2, <4>3, <1>4, <1>5, ChainGrows
      <4> QED  BY <3>1, <4>4, <1>6
    <3>2. CASE r # room[a]
      BY <2>1, <3>2, <1>6 DEF ShadowInv, ChainVerifies, Untouched
    <3> QED  BY <3>1, <3>2
  <2> QED  BY <2>1, <1>2 DEF ChainVerifies, Untouched
<1>12. RoomCapped'
  <2>1. Len(log) + 1 <= MaxPerRoom
    <3>1. Len(log) < MaxPerRoom
      BY <1>2, <1>7 DEF Fit
    <3> HIDE DEF log
    <3> QED  BY <3>1, <1>4, ShadowAssumption
  <2>2. ASSUME NEW r \in Rooms PROVE Len(store'[r]) <= MaxPerRoom
    <3>1. CASE r = room[a]
      BY <3>1, <2>1, <1>6, <1>8
    <3>2. CASE r # room[a]
      BY <3>2, <1>6 DEF ShadowInv, RoomCapped
    <3> QED  BY <3>1, <3>2
  <2> QED  BY <2>2 DEF RoomCapped
<1> QED
  BY <1>1, <1>2, <1>3, <1>10, <1>11, <1>12 DEF ShadowInv, NoFalseAlarm

(* ... reading back ...                                                     *)
LEMMA ReadBackStep ==
  ASSUME ShadowInv, NEW a \in Appends, ReadBack(a) PROVE ShadowInv'
<1>1. ShadowTypeOK'
  BY TypeStep DEF ShadowInv, ShadowNext, Proceed
<1>2. HoldsLock(a) /\ pc[a] = "check" /\ Fit(a)
  BY DEF ReadBack, At, ShadowInv
<1>3. Ends(a, "appended") /\ UNCHANGED <<policy, store, room, content, link, dropped>>
  BY <1>2 DEF ReadBack, Fit
<1> QED  BY <1>1, <1>2, <1>3, EndStep

(* ... and meeting a storage that fails.                                    *)
LEMMA RejectStep ==
  ASSUME ShadowInv, NEW a \in Appends, Reject(a) PROVE ShadowInv'
<1>1. ShadowTypeOK'
  BY TypeStep DEF ShadowInv, ShadowNext
<1> QED  BY <1>1, EndStep DEF Reject

(* A new log has it, ...                                                    *)
LEMMA ShadowInvInit == ASSUME ShadowInit PROVE ShadowInv
<1> USE DEF ShadowInit
<1>1. ShadowTypeOK
  BY TypeInit
<1>2. LockInv
  <2>1. \A r \in Rooms : queue[r] = <<>>
    OBVIOUS
  <2>2. Queued /\ QueuedOnce
    BY <2>1 DEF Queued, QueuedOnce, Once
  <2> QED  BY <2>2 DEF LockInv, PastFirstAwait
<1>3. \A a \in Appends : Fit(a)
  BY DEF Fit
<1>4. ChainVerifies
  BY DEF ChainVerifies, VerifyChain
<1>5. RoomCapped
  BY ShadowAssumption DEF RoomCapped
<1>6. NoFalseAlarm
  BY DEF NoFalseAlarm
<1> QED  BY <1>1, <1>2, <1>3, <1>4, <1>5, <1>6 DEF ShadowInv

(* ... every step keeps it ...                                              *)
LEMMA ShadowInvStep == ASSUME ShadowInv, [ShadowNext]_shadowVars PROVE ShadowInv'
<1>1. ASSUME NEW a \in Appends, Call(a) \/ Proceed(a) \/ Reject(a) PROVE ShadowInv'
  BY <1>1, CallStep, ReadPriorStep, CountStep, EvictStep, StoreStep, ReadBackStep,
     RejectStep DEF Proceed
<1>2. CASE UNCHANGED shadowVars
  <2> USE <1>2 DEF shadowVars, local
  <2>1. ShadowTypeOK'
    BY DEF ShadowInv, ShadowTypeOK
  <2>2. LockInv'
    BY DEF ShadowInv, LockInv, Queued, QueuedOnce, PastFirstAwait, HoldsLock
  <2>3. \A a \in Appends : Fit(a)'
    BY DEF ShadowInv, Fit, Untouched
  <2> QED  BY <2>1, <2>2, <2>3, StoreUnchanged DEF ShadowInv, NoFalseAlarm
<1> QED  BY <1>1, <1>2 DEF ShadowNext

(* ... and it holds throughout.                                             *)
LEMMA ShadowInvariant == ShadowSpec => []ShadowInv
  BY ShadowInvInit, ShadowInvStep, PTL DEF ShadowSpec

(* The chain of a room that lost no entry verifies, unless a content came   *)
(* back, however appends overlap, fail and are refused.                     *)
THEOREM ShadowChainVerifies == ShadowSpec => []ChainVerifies
<1>1. ShadowInv => ChainVerifies
  BY DEF ShadowInv
<1> QED  BY <1>1, ShadowInvariant, PTL

(* No room ever holds more than maxEntriesPerRoom.                          *)
THEOREM ShadowRoomCapped == ShadowSpec => []RoomCapped
<1>1. ShadowInv => RoomCapped
  BY DEF ShadowInv
<1> QED  BY <1>1, ShadowInvariant, PTL

(* A storage that writes what it is given is never accused of corruption:   *)
(* no other append comes between a write and the check of it.               *)
THEOREM ShadowNoFalseAlarm == ShadowSpec => []NoFalseAlarm
<1>1. ShadowInv => NoFalseAlarm
  BY DEF ShadowInv
<1> QED  BY <1>1, ShadowInvariant, PTL
-----------------------------------------------------------------------------
(* The other direction of the lock: whoever runs waits in its room's queue. *)

(* Whoever runs has a place in its room's queue.                            *)
Waiting ==
  \A a \in Appends : pc[a] \notin {"idle", "done"} =>
    \E i \in DOMAIN queue[room[a]] : queue[room[a]][i] = a

(* An append that goes on keeps its place and everybody else's.             *)
LEMMA GoOnKeepsWaiting ==
  ASSUME ShadowTypeOK, Waiting, NEW a \in Appends, NEW step,
         HoldsLock(a), GoOn(a, step), UNCHANGED <<queue, room>>
  PROVE  Waiting'
<1>1. \E i \in DOMAIN queue[room[a]] : queue[room[a]][i] = a
  <2>1. queue[room[a]] \in Seq(Appends) /\ queue[room[a]] # <<>> /\ Head(queue[room[a]]) = a
    BY DEF ShadowTypeOK, HoldsLock
  <2>2. 1 \in DOMAIN queue[room[a]] /\ queue[room[a]][1] = a
    BY <2>1
  <2> QED  BY <2>2
<1>2. ASSUME NEW b \in Appends, pc'[b] \notin {"idle", "done"}
      PROVE  \E i \in DOMAIN queue[room[b]] : queue[room[b]][i] = b
  <2>1. CASE b = a
    BY <1>1, <2>1
  <2>2. CASE b # a
    <3>1. pc'[b] = pc[b]
      BY <2>2 DEF GoOn, ShadowTypeOK
    <3> QED  BY <1>2, <3>1 DEF Waiting
  <2> QED  BY <2>1, <2>2
<1> QED  BY <1>2 DEF Waiting

(* An append that ends leaves its queue; the others move up.                *)
LEMMA EndsKeepsWaiting ==
  ASSUME ShadowTypeOK, Waiting, NEW a \in Appends, NEW how,
         HoldsLock(a), Ends(a, how), UNCHANGED room
  PROVE  Waiting'
<1> DEFINE q == queue[room[a]]
           t == Tail(q)
<1>1. /\ queue'[room[a]] = t
      /\ \A r \in Rooms \ {room[a]} : queue'[r] = queue[r]
      /\ \A b \in Appends \ {a} : pc'[b] = pc[b] /\ room[b] \in Rooms
      /\ pc'[a] = "done" /\ room' = room
  BY DEF Ends, GoOn, ShadowTypeOK
<1>2. q \in Seq(Appends) /\ q # <<>> /\ Head(q) = a
  BY DEF HoldsLock, ShadowTypeOK
<1> HIDE DEF q
<1>3. /\ Len(q) \in Nat /\ DOMAIN q = 1 .. Len(q) /\ Head(q) = q[1]
      /\ DOMAIN t = 1 .. Len(q) - 1
      /\ \A i \in 1 .. Len(q) - 1 : t[i] = q[i + 1]
  BY <1>2, HeadTailProperties
<1> HIDE DEF t
<1>4. ASSUME NEW b \in Appends, pc'[b] \notin {"idle", "done"}
      PROVE  \E i \in DOMAIN queue'[room'[b]] : queue'[room'[b]][i] = b
  <2>1. b # a /\ pc[b] \notin {"idle", "done"} /\ room[b] \in Rooms
    BY <1>1, <1>4
  <2>2. PICK i \in DOMAIN queue[room[b]] : queue[room[b]][i] = b
    BY <2>1 DEF Waiting
  <2>3. CASE room[b] = room[a]
    <3>1. i \in 1 .. Len(q) /\ q[i] = b /\ i # 1
      BY <1>2, <1>3, <2>1, <2>2, <2>3 DEF q
    <3>2. i - 1 \in 1 .. Len(q) - 1 /\ (i - 1) + 1 = i
      BY <1>3, <3>1
    <3>3. i - 1 \in DOMAIN t /\ t[i - 1] = b
      BY <1>3, <3>1, <3>2
    <3> QED  BY <1>1, <2>3, <3>3
  <2>4. CASE room[b] # room[a]
    BY <1>1, <2>1, <2>2, <2>4
  <2> QED  BY <2>3, <2>4
<1> QED  BY <1>4 DEF Waiting

(* An append that asks for the lock takes its place at the end.             *)
LEMMA CallKeepsWaiting ==
  ASSUME ShadowTypeOK, Waiting, NEW a \in Appends, Call(a)
  PROVE  Waiting'
<1> DEFINE q == queue[room[a]]
           t == Append(q, a)
<1>1. /\ queue'[room[a]] = t
      /\ \A r \in Rooms \ {room[a]} : queue'[r] = queue[r]
      /\ \A b \in Appends \ {a} : pc'[b] = pc[b] /\ room[b] \in Rooms
      /\ room' = room
  BY DEF Call, ShadowTypeOK
<1>2. q \in Seq(Appends)
  BY DEF ShadowTypeOK
<1> HIDE DEF q
<1>3. /\ Len(q) \in Nat /\ DOMAIN q = 1 .. Len(q) /\ DOMAIN t = 1 .. Len(q) + 1
      /\ \A i \in 1 .. Len(q) : t[i] = q[i]
      /\ t[Len(q) + 1] = a
  BY <1>2, AppendProperties
<1> HIDE DEF t
<1>4. \A i \in DOMAIN q : i \in DOMAIN t /\ t[i] = q[i]
  BY <1>3
<1>5. Len(q) + 1 \in DOMAIN t
  BY <1>3
<1>6. ASSUME NEW b \in Appends, pc'[b] \notin {"idle", "done"}
      PROVE  \E i \in DOMAIN queue'[room'[b]] : queue'[room'[b]][i] = b
  <2>1. CASE b = a
    BY <1>1, <1>3, <1>5, <2>1
  <2>2. CASE b # a
    <3>1. pc[b] \notin {"idle", "done"} /\ room[b] \in Rooms
      BY <1>1, <1>6, <2>2
    <3>2. PICK i \in DOMAIN queue[room[b]] : queue[room[b]][i] = b
      BY <3>1 DEF Waiting
    <3>3. CASE room[b] = room[a]
      BY <1>1, <1>4, <3>2, <3>3 DEF q
    <3>4. CASE room[b] # room[a]
      BY <1>1, <3>1, <3>2, <3>4
    <3> QED  BY <3>3, <3>4
  <2> QED  BY <2>1, <2>2
<1> QED  BY <1>6 DEF Waiting

(* Every step keeps everybody's place.                                      *)
LEMMA WaitingStep ==
  ASSUME ShadowTypeOK, Waiting, [ShadowNext]_shadowVars
  PROVE  Waiting'
<1>1. CASE UNCHANGED shadowVars
  BY <1>1 DEF Waiting, shadowVars, local
<1>2. ASSUME NEW a \in Appends, Call(a) \/ Proceed(a) \/ Reject(a)
      PROVE  Waiting'
  <2>1. CASE Call(a)
    BY <2>1, CallKeepsWaiting
  <2>2. CASE ReadPrior(a)
    BY <2>2, GoOnKeepsWaiting DEF ReadPrior, At
  <2>3. CASE Count(a)
    <3>1. HoldsLock(a) /\ UNCHANGED room
      BY <2>3 DEF Count, At
    <3>2. \/ \E step \in Step : GoOn(a, step) /\ UNCHANGED queue
          \/ Ends(a, "storage_full")
      BY <2>3 DEF Count, Step
    <3> QED  BY <3>1, <3>2, GoOnKeepsWaiting, EndsKeepsWaiting
  <2>4. CASE Evict(a)
    BY <2>4, GoOnKeepsWaiting DEF Evict, At
  <2>5. CASE Store(a)
    BY <2>5, GoOnKeepsWaiting DEF Store, At
  <2>6. CASE ReadBack(a)
    <3>1. HoldsLock(a) /\ UNCHANGED room
      BY <2>6 DEF ReadBack, At
    <3>2. \E how \in Outcome : Ends(a, how)
      BY <2>6, Zenon DEF ReadBack, Outcome
    <3> QED  BY <3>1, <3>2, EndsKeepsWaiting
  <2>7. CASE Reject(a)
    BY <2>7, EndsKeepsWaiting DEF Reject
  <2> QED  BY <1>2, <2>1, <2>2, <2>3, <2>4, <2>5, <2>6, <2>7 DEF Proceed
<1> QED  BY <1>1, <1>2 DEF ShadowNext

(* So it holds throughout.                                                  *)
LEMMA WaitingInvariant == ShadowSpec => []Waiting
<1>1. ShadowInit => Waiting
  BY DEF ShadowInit, Waiting
<1>2. ShadowTypeOK /\ Waiting /\ [ShadowNext]_shadowVars => Waiting'
  BY WaitingStep
<1> QED  BY <1>1, <1>2, ShadowTypeCorrect, PTL DEF ShadowSpec

(* The lock of a room is always handed on: whoever runs waits in its room's *)
(* queue, once, and whoever returned, threw or was refused is in none.      *)
THEOREM ShadowLockHandedOn == ShadowSpec => []LockHandedOn
<1>1. ASSUME ShadowTypeOK, LockInv, Waiting PROVE LockHandedOn
  <2>1. ASSUME NEW r \in Rooms, NEW a \in Appends
        PROVE  Cardinality({i \in DOMAIN queue[r] : queue[r][i] = a}) =
                 IF room[a] = r /\ pc[a] \notin {"idle", "done"} THEN 1 ELSE 0
    <3> DEFINE places == {i \in DOMAIN queue[r] : queue[r][i] = a}
    <3>1. CASE room[a] = r /\ pc[a] \notin {"idle", "done"}
      <4>1. PICK i \in DOMAIN queue[r] : queue[r][i] = a
        BY <1>1, <3>1 DEF Waiting
      <4>2. \A j \in DOMAIN queue[r] : queue[r][j] = a => j = i
        BY <1>1, <4>1 DEF LockInv, QueuedOnce, Once
      <4>3. places = {i}
        BY <4>1, <4>2
      <4> QED  BY <3>1, <4>3, FS_Singleton
    <3>2. CASE ~(room[a] = r /\ pc[a] \notin {"idle", "done"})
      <4>1. places = {}
        BY <1>1, <3>2 DEF LockInv, Queued
      <4> QED  BY <3>2, <4>1, FS_EmptySet
    <3> QED  BY <3>1, <3>2
  <2> QED  BY <2>1 DEF LockHandedOn
<1>2. ShadowInv => ShadowTypeOK /\ LockInv
  BY DEF ShadowInv
<1> QED  BY <1>1, <1>2, ShadowInvariant, WaitingInvariant, PTL
-----------------------------------------------------------------------------
(* The total.  An append that has counted and not yet stored is the only    *)
(* one of its room, so at most one entry per room is under way.             *)

(* The rooms whose next entry has been counted and not yet stored.          *)
UnderWay == {r \in Rooms : \E a \in Appends : pc[a] = "store" /\ room[a] = r}

(* The total and what is under way stay within the limit and one entry for  *)
(* each room but one.                                                       *)
TotalInv ==
  policy = "refuse-write" =>
    /\ \A a \in Appends : pc[a] # "evict"
    /\ EntryCount + Cardinality(UnderWay) < MaxTotal + Cardinality(Rooms)

(* What is counted is the sum over the rooms, ...                           *)
LEMMA EntryCountIsSum == EntryCount = SetSum(RoomCounts, Rooms)
<1>1. DOMAIN RoomCounts = Rooms
  BY DEF RoomCounts
<1>2. EntryCount = MapThenFoldSet(+, 0, LAMBDA r : RoomCounts[r],
                                  LAMBDA s : CHOOSE x \in s : TRUE, Rooms)
  BY <1>1, Zenon DEF EntryCount, SumFunction, SumFunctionOnSet, FoldFunctionOnSet
<1> QED  BY <1>2, Zenon DEF MapThenFoldSet, SetSum, SetSums, Picked

(* ... a number, ...                                                        *)
LEMMA EntryCountType == ASSUME ShadowTypeOK PROVE EntryCount \in Nat
<1>1. \A r \in Rooms : RoomCounts[r] = Len(store[r]) /\ Len(store[r]) \in Nat
  BY DEF RoomCounts, ShadowTypeOK
<1> QED  BY <1>1, EntryCountIsSum, SetSumType, ShadowAssumption

(* ... that an entry more in one room makes one more.                       *)
LEMMA EntryCountGrows ==
  ASSUME ShadowTypeOK, ShadowTypeOK', NEW r \in Rooms,
         Len(store'[r]) = Len(store[r]) + 1,
         \A s \in Rooms \ {r} : store'[s] = store[s]
  PROVE  EntryCount' = EntryCount + 1
<1> DEFINE rest == Rooms \ {r}
           f == RoomCounts
           g == RoomCounts'
<1>1. /\ IsFiniteSet(Rooms) /\ IsFiniteSet(rest) /\ rest = Rooms \ {r} /\ r \in Rooms
  BY ShadowAssumption, FS_RemoveElement
<1>2. \A s \in Rooms : f[s] \in Nat /\ g[s] \in Nat
  <2>1. \A s \in Rooms : f[s] = Len(store[s]) /\ g[s] = Len(store'[s])
    BY DEF RoomCounts
  <2>2. \A s \in Rooms : Len(store[s]) \in Nat /\ Len(store'[s]) \in Nat
    BY DEF ShadowTypeOK
  <2> QED BY <2>1, <2>2
<1>3. g[r] = f[r] + 1 /\ \A s \in rest : g[s] = f[s]
  BY DEF RoomCounts
<1>4. EntryCount = SetSum(f, Rooms)
  BY EntryCountIsSum
<1>5. EntryCount' = SetSum(g, Rooms)
  <2>1. (EntryCount = SetSum(RoomCounts, Rooms))'
    BY EntryCountIsSum, PTL
  <2> QED BY <2>1
<1> HIDE DEF rest, f, g
<1>6. SetSum(f, Rooms) = f[r] + SetSum(f, rest)
  BY <1>1, <1>2, SetSumWithout
<1>7. SetSum(g, Rooms) = g[r] + SetSum(g, rest)
  BY <1>1, <1>2, SetSumWithout
<1>8. SetSum(g, rest) = SetSum(f, rest)
  BY <1>1, <1>3, SetSumSame
<1>9. SetSum(f, rest) \in Nat
  <2>1. \A s \in rest : f[s] \in Nat
    BY <1>1, <1>2
  <2> QED BY <1>1, <2>1, SetSumType
<1>10. f[r] \in Nat
  BY <1>2
<1> QED BY <1>3, <1>4, <1>5, <1>6, <1>7, <1>8, <1>9, <1>10

(* At most one entry of each room is under way.                             *)
LEMMA UnderWayFacts ==
  /\ IsFiniteSet(Rooms) /\ IsFiniteSet(UnderWay)
  /\ Cardinality(Rooms) \in Nat /\ Cardinality(UnderWay) \in Nat
  /\ Cardinality(UnderWay) <= Cardinality(Rooms)
<1>1. UnderWay \in SUBSET Rooms
  BY DEF UnderWay
<1> QED  BY <1>1, ShadowAssumption, FS_Subset, FS_CardinalityType

(* Whoever stops being under way makes one less.                            *)
LEMMA UnderWayShrinks ==
  ASSUME UnderWay' \subseteq UnderWay
  PROVE  Cardinality(UnderWay') \in Nat /\ Cardinality(UnderWay') <= Cardinality(UnderWay)
<1>1. IsFiniteSet(UnderWay)
  BY UnderWayFacts
<1> QED  BY <1>1, FS_Subset, FS_CardinalityType

(* An append that neither stores nor is about to leaves the total as it is, *)
(* and at most as many under way.                                           *)
LEMMA QuietKeepsTotal ==
  ASSUME ShadowTypeOK, TotalInv, UNCHANGED <<policy, room>>,
         RoomCounts' = RoomCounts,
         NEW a \in Appends, pc' = [pc EXCEPT ![a] = pc'[a]],
         pc'[a] \notin {"store", "evict"}
  PROVE  TotalInv'
<1>1. \A b \in Appends : pc'[b] = IF b = a THEN pc'[a] ELSE pc[b]
  BY DEF ShadowTypeOK
<1>2. UnderWay' \subseteq UnderWay
  BY <1>1 DEF UnderWay
<1>3. EntryCount' = EntryCount
  BY DEF EntryCount
<1>4. /\ EntryCount \in Nat
      /\ Cardinality(UnderWay) \in Nat /\ Cardinality(Rooms) \in Nat /\ MaxTotal \in Nat
      /\ Cardinality(UnderWay') \in Nat /\ Cardinality(UnderWay') <= Cardinality(UnderWay)
  BY <1>2, EntryCountType, UnderWayFacts, UnderWayShrinks, ShadowAssumption
<1>5. ASSUME policy' = "refuse-write"
      PROVE  EntryCount' + Cardinality(UnderWay') < MaxTotal + Cardinality(Rooms)
  <2>1. EntryCount + Cardinality(UnderWay) < MaxTotal + Cardinality(Rooms)
    BY <1>5 DEF TotalInv
  <2> HIDE DEF EntryCount
  <2> QED  BY <2>1, <1>3, <1>4
<1>6. ASSUME policy' = "refuse-write", NEW b \in Appends PROVE pc'[b] # "evict"
  BY <1>1, <1>6 DEF TotalInv
<1> QED  BY <1>5, <1>6 DEF TotalInv

(* One that counts below the limit may be under way with all other rooms'.  *)
LEMMA CountKeepsTotal ==
  ASSUME ShadowTypeOK, TotalInv, NEW a \in Appends, Count(a)
  PROVE  TotalInv'
<1>1. /\ policy' = policy /\ room' = room /\ RoomCounts' = RoomCounts
      /\ pc \in [Appends -> Step] /\ EntryCount' = EntryCount
  BY DEF Count, RoomCounts, EntryCount, ShadowTypeOK
<1>2. CASE Ends(a, "storage_full")
  BY <1>1, <1>2, QuietKeepsTotal DEF Ends, GoOn
<1>3. CASE GoOn(a, "evict") /\ policy = "drop-oldest"
  BY <1>1, <1>3 DEF TotalInv
<1>4. CASE GoOn(a, "store") /\ ~ (EntryCount >= MaxTotal)
  <2>1. EntryCount + Cardinality(UnderWay') < MaxTotal + Cardinality(Rooms)
    <3>1. (/\ IsFiniteSet(Rooms) /\ IsFiniteSet(UnderWay)
           /\ Cardinality(Rooms) \in Nat /\ Cardinality(UnderWay) \in Nat
           /\ Cardinality(UnderWay) <= Cardinality(Rooms))'
      BY UnderWayFacts, PTL
    <3>2. EntryCount \in Nat /\ MaxTotal \in Nat
      BY EntryCountType, ShadowAssumption
    <3> QED  BY <1>4, <3>1, <3>2
  <2>2. ASSUME policy = "refuse-write", NEW b \in Appends PROVE pc'[b] # "evict"
    BY <1>1, <1>4, <2>2 DEF TotalInv, GoOn
  <2> QED  BY <1>1, <2>1, <2>2 DEF TotalInv
<1> QED  BY <1>2, <1>3, <1>4 DEF Count

(* One that stores is one more in the total, and one less under way: it     *)
(* held its room's lock, so no other append of its room was under way.      *)
LEMMA StoreKeepsTotal ==
  ASSUME ShadowTypeOK, ShadowTypeOK', LockInv, TotalInv, NEW a \in Appends, Store(a)
  PROVE  TotalInv'
<1> DEFINE r == room[a]
           e == [message |-> a, content |-> content[a], prev |-> link[a]]
<1>1. /\ r \in Rooms /\ room' = room /\ policy' = policy
      /\ pc[a] = "store" /\ HoldsLock(a)
      /\ \A b \in Appends : pc'[b] = IF b = a THEN "check" ELSE pc[b]
      /\ store[r] \in Seq(Entry) /\ e \in Entry
      /\ store'[r] = Append(store[r], e)
      /\ \A s \in Rooms \ {r} : store'[s] = store[s]
  BY DEF Store, At, GoOn, ShadowTypeOK, Entry
<1>2. EntryCount' = EntryCount + 1
  <2>1. Len(store'[r]) = Len(store[r]) + 1
    BY <1>1, AppendProperties
  <2> QED  BY <1>1, <2>1, EntryCountGrows
<1>3. UnderWay' = UnderWay \ {r} /\ r \in UnderWay
  <2>1. \A b \in Appends : pc[b] = "store" /\ b # a => room[b] # r
    BY <1>1 DEF LockInv, PastFirstAwait, HoldsLock
  <2> QED  BY <1>1, <2>1 DEF UnderWay
<1>4. Cardinality(UnderWay') = Cardinality(UnderWay) - 1
  BY <1>3, UnderWayFacts, FS_RemoveElement
<1>5. ASSUME policy' = "refuse-write"
      PROVE  EntryCount' + Cardinality(UnderWay') < MaxTotal + Cardinality(Rooms)
  <2>1. EntryCount + Cardinality(UnderWay) < MaxTotal + Cardinality(Rooms)
    BY <1>1, <1>5 DEF TotalInv
  <2>2. EntryCount \in Nat /\ Cardinality(UnderWay) \in Nat /\ Cardinality(Rooms) \in Nat
        /\ MaxTotal \in Nat
    BY EntryCountType, UnderWayFacts, ShadowAssumption
  <2> QED  BY <2>1, <2>2, <1>2, <1>4
<1>6. ASSUME policy' = "refuse-write", NEW b \in Appends PROVE pc'[b] # "evict"
  BY <1>1, <1>6 DEF TotalInv
<1> QED  BY <1>5, <1>6 DEF TotalInv

(* Every step keeps the bound, ...                                          *)
LEMMA TotalStep ==
  ASSUME ShadowTypeOK, ShadowTypeOK', LockInv, TotalInv, [ShadowNext]_shadowVars
  PROVE  TotalInv'
<1>1. ASSUME UNCHANGED <<policy, room, pc, store>> PROVE TotalInv'
  BY <1>1 DEF TotalInv, UnderWay, EntryCount, RoomCounts
<1>2. ASSUME NEW a \in Appends, Call(a) \/ Proceed(a) \/ Reject(a) PROVE TotalInv'
  <2>1. CASE Count(a)
    BY <2>1, CountKeepsTotal
  <2>2. CASE Store(a)
    BY <2>2, StoreKeepsTotal
  <2>3. CASE Evict(a)
    <3>1. policy' = policy /\ policy # "refuse-write"
      BY <2>3 DEF Evict, At, TotalInv
    <3> QED  BY <3>1 DEF TotalInv
  <2>4. CASE Call(a) \/ ReadPrior(a) \/ ReadBack(a) \/ Reject(a)
    <3>1. /\ UNCHANGED <<policy, room, store>>
          /\ \E step \in {"link", "count", "done"} : pc' = [pc EXCEPT ![a] = step]
      BY <2>4, Zenon DEF Call, ReadPrior, ReadBack, Reject, Ends, GoOn
    <3>2. /\ pc' = [pc EXCEPT ![a] = pc'[a]] /\ pc'[a] \in {"link", "count", "done"}
      BY <3>1 DEF ShadowTypeOK
    <3> QED  BY <3>1, <3>2, QuietKeepsTotal DEF RoomCounts
  <2> QED  BY <1>2, <2>1, <2>2, <2>3, <2>4 DEF Proceed
<1> QED  BY <1>1, <1>2 DEF ShadowNext, shadowVars, local

(* ... and it holds at first.                                               *)
LEMMA TotalInit == ASSUME ShadowInit PROVE TotalInv
<1>1. \A r \in Rooms : RoomCounts[r] = 0
  BY DEF ShadowInit, RoomCounts
<1>2. EntryCount = 0
  BY <1>1, EntryCountIsSum, SetSumOfZeros, ShadowAssumption
<1>3. UnderWay = {}
  BY DEF ShadowInit, UnderWay
<1>4. Cardinality(UnderWay) = 0
  BY <1>3, FS_EmptySet
<1>5. EntryCount + Cardinality(UnderWay) < MaxTotal + Cardinality(Rooms)
  <2>1. Cardinality(Rooms) \in Nat /\ MaxTotal \in Nat \ {0}
    BY UnderWayFacts, ShadowAssumption
  <2> QED  BY <2>1, <1>2, <1>4
<1> QED  BY <1>5 DEF TotalInv, ShadowInit

(* When writes are refused, the total is never past its limit by more than  *)
(* one entry for every other room (applyBoundedStoragePolicy counts it      *)
(* under the lock of one room only).                                        *)
THEOREM ShadowTotalOvershoot == ShadowSpec => []TotalOvershoot
<1>1. ASSUME ShadowTypeOK, TotalInv PROVE TotalOvershoot
  <2>1. ASSUME policy = "refuse-write" PROVE EntryCount < MaxTotal + Cardinality(Rooms)
    <3>1. EntryCount + Cardinality(UnderWay) < MaxTotal + Cardinality(Rooms)
      BY <1>1, <2>1 DEF TotalInv
    <3>2. /\ EntryCount \in Nat /\ Cardinality(UnderWay) \in Nat
          /\ Cardinality(Rooms) \in Nat /\ MaxTotal \in Nat
      BY <1>1, EntryCountType, UnderWayFacts, ShadowAssumption
    <3> QED  BY <3>1, <3>2
  <2> QED  BY <2>1 DEF TotalOvershoot
<1>2. ShadowInv => ShadowTypeOK /\ LockInv
  BY DEF ShadowInv
<1>3. ShadowTypeOK /\ ShadowTypeOK' /\ LockInv /\ TotalInv /\ [ShadowNext]_shadowVars
        => TotalInv'
  BY TotalStep
<1>4. ShadowInit => TotalInv
  BY TotalInit
<1> QED  BY <1>1, <1>2, <1>3, <1>4, ShadowInvariant, PTL DEF ShadowSpec
=============================================================================
