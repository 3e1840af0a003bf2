-------------------------- MODULE Services_proofs --------------------------
(***************************************************************************)
(* Proofs about the services of the core that keep state of their own: the *)
(* session tracker, override tokens, the rate limiter, the cache of        *)
(* verdicts, the hook manager, the authentication of requests to the       *)
(* server, the check digits of the guards, the automaton of the audio      *)
(* stream, and the telemetry.  Each part has its invariant, one lemma per  *)
(* action, and its theorems; what they say holds for all values of the     *)
(* constants.                                                              *)
(***************************************************************************)
EXTENDS SessionTracker, OverrideToken, RateLimiter, CachedValidator, HookManager, ServerAuth,
        CheckDigits, AudioStream, Telemetry, FoldLemmas

-------------------------------------------------------------------------------
(***************************************************************************)
(* The session tracker.  Its store is a map with an order of use, and      *)
(* every operation of it has to keep the two in agreement.                 *)
(***************************************************************************)
(* A store has its four fields and no more.                                 *)
IsStore(s) ==
  s = [map |-> s.map, keys |-> s.keys, order |-> s.order, lookups |-> s.lookups]

(* Its keys and its order of use list the sessions of its map, each once,   *)
(* and no more than the limit.                                              *)
Agrees(s) ==
  /\ IsStore(s)
  /\ s.keys \in Seq(SessionIds) /\ s.order \in Seq(SessionIds)
  /\ IsInjective(s.keys) /\ IsInjective(s.order)
  /\ ToSet(s.keys) = DOMAIN s.map /\ ToSet(s.order) = DOMAIN s.map
  /\ Len(s.keys) <= MaxSessions

(* So the map has the sessions of the order.                                *)
LEMMA AgreesDomain ==
  ASSUME NEW s, Agrees(s)
  PROVE  /\ DOMAIN s.map \subseteq SessionIds /\ IsFiniteSet(DOMAIN s.map)
         /\ Cardinality(DOMAIN s.map) = Len(s.keys) /\ Cardinality(DOMAIN s.map) = Len(s.order)
         /\ Len(s.keys) \in Nat /\ Len(s.order) \in Nat
<1>1. /\ s.keys \in Seq(SessionIds) /\ s.order \in Seq(SessionIds)
      /\ IsInjective(s.keys) /\ IsInjective(s.order)
      /\ ToSet(s.keys) = DOMAIN s.map /\ ToSet(s.order) = DOMAIN s.map
  BY DEF Agrees
<1>2. ToSet(s.keys) \subseteq SessionIds
  BY <1>1, ToSetType
<1>3. /\ IsFiniteSet(ToSet(s.keys)) /\ Cardinality(ToSet(s.keys)) = Len(s.keys)
      /\ Cardinality(ToSet(s.order)) = Len(s.order)
  BY <1>1, InjectiveLen
<1>4. Len(s.keys) \in Nat /\ Len(s.order) \in Nat
  BY <1>1, LenProperties
<1> QED BY <1>1, <1>2, <1>3, <1>4

(* Dropping sessions from both keeps them in agreement, ...                 *)
LEMMA KeepAgrees ==
  ASSUME NEW s, Agrees(s), NEW ids
  PROVE  /\ Agrees(Keep(s, ids))
         /\ DOMAIN Keep(s, ids).map = DOMAIN s.map \cap ids
         /\ \A id \in DOMAIN s.map \cap ids : Keep(s, ids).map[id] = s.map[id]
<1> DEFINE k == Keep(s, ids)
<1>1. /\ s.keys \in Seq(SessionIds) /\ s.order \in Seq(SessionIds)
      /\ IsInjective(s.keys) /\ IsInjective(s.order)
      /\ ToSet(s.keys) = DOMAIN s.map /\ ToSet(s.order) = DOMAIN s.map
      /\ Len(s.keys) <= MaxSessions /\ IsStore(s) /\ MaxSessions \in Nat
  BY SessionAssumption DEF Agrees, SessionAssumption
<1>10. PICK m, ks, o, l : s = [map |-> m, keys |-> ks, order |-> o, lookups |-> l]
  BY <1>1 DEF IsStore
<1> DEFINE M == [id \in DOMAIN s.map \cap ids |-> s.map[id]]
           F == Filter(s.keys, ids)
           G == Filter(s.order, ids)
<1>11. k = [s EXCEPT !.map = M, !.keys = F, !.order = G]
  BY DEF Keep
<1>2. k = [map |-> M, keys |-> F, order |-> G, lookups |-> s.lookups]
  <2> HIDE DEF M, F, G, k
  <2> QED BY <1>10, <1>11
<1>3. /\ Filter(s.keys, ids) \in Seq(SessionIds) /\ Len(Filter(s.keys, ids)) <= Len(s.keys)
      /\ ToSet(Filter(s.keys, ids)) = ToSet(s.keys) \cap ids /\ IsInjective(Filter(s.keys, ids))
  BY <1>1, FilterFacts
<1>4. /\ Filter(s.order, ids) \in Seq(SessionIds) /\ ToSet(Filter(s.order, ids)) = ToSet(s.order) \cap ids
      /\ IsInjective(Filter(s.order, ids))
  BY <1>1, FilterFacts
<1>5. Len(Filter(s.keys, ids)) <= MaxSessions
  <2>1. Len(Filter(s.keys, ids)) \in Nat /\ Len(s.keys) \in Nat
    BY <1>1, <1>3, LenProperties
  <2> QED BY <1>1, <1>3, <2>1
<1> HIDE DEF k
<1>6. /\ k.keys = Filter(s.keys, ids) /\ k.order = Filter(s.order, ids)
      /\ DOMAIN k.map = DOMAIN s.map \cap ids /\ IsStore(k)
      /\ \A id \in DOMAIN s.map \cap ids : k.map[id] = s.map[id]
  BY <1>2 DEF IsStore
<1> QED BY <1>1, <1>3, <1>4, <1>5, <1>6 DEF Agrees, k

(* To the end of the order.                                                 *)
LEMMA MoveToEnd ==
  ASSUME NEW o \in Seq(SessionIds), IsInjective(o), NEW id \in SessionIds
  PROVE  LET p == Append(Without(o, id), id)
         IN p \in Seq(SessionIds) /\ IsInjective(p) /\ ToSet(p) = ToSet(o) \cup {id}
<1> DEFINE w == Without(o, id)
<1>1. w \in Seq(SessionIds) /\ ToSet(w) = ToSet(o) \ {id} /\ IsInjective(w)
  BY WithoutFacts
<1> HIDE DEF w
<1>2. Append(w, id) \in Seq(SessionIds) /\ ToSet(Append(w, id)) = ToSet(w) \cup {id}
      /\ IsInjective(Append(w, id))
  BY <1>1, ToSetAppend, InjectiveAppend, AppendProperties
<1> QED BY <1>1, <1>2 DEF w

(* A sweep deletes expired sessions only, however many it may delete.       *)
LEMMA SweptAreExpired ==
  ASSUME NEW s, Agrees(s)
  PROVE  Swept(s) \subseteq DOMAIN s.map \ Unexpired(s)
<1> DEFINE old == DOMAIN s.map \ Unexpired(s)
           expired == Filter(s.keys, old)
<1>1. s.keys \in Seq(SessionIds)
  BY DEF Agrees
<1>2. ToSet(expired) = ToSet(s.keys) \cap old
  BY <1>1, FilterFacts
<1>3. \A i \in DOMAIN expired : expired[i] \in ToSet(expired)
  BY DEF ToSet
<1>4. Swept(s) = {expired[i] : i \in DOMAIN expired \cap 1..SweepCap}
  BY DEF Swept
<1> HIDE DEF expired, old
<1>5. Swept(s) \subseteq old
  BY <1>2, <1>3, <1>4
<1> QED BY <1>5 DEF old

(* ... and so do get, which moves a session to the end, ...                 *)
LEMMA GetAgrees ==
  ASSUME NEW s, Agrees(s), NEW id \in SessionIds
  PROVE  /\ Agrees(Get(s, id))
         /\ DOMAIN Get(s, id).map \subseteq DOMAIN s.map
         /\ Unexpired(s) \subseteq DOMAIN Get(s, id).map
         /\ \A j \in DOMAIN Get(s, id).map : Get(s, id).map[j] = s.map[j]
<1> DEFINE touched == IF Has(s, id) THEN [s EXCEPT !.order = Append(Without(@, id), id)] ELSE s
           counted == [touched EXCEPT !.lookups = (@ + 1) % SweepEvery]
<1>1. Agrees(touched) /\ touched.map = s.map
  <2>1. CASE Has(s, id)
    <3>1. /\ Append(Without(s.order, id), id) \in Seq(SessionIds)
          /\ IsInjective(Append(Without(s.order, id), id))
          /\ ToSet(Append(Without(s.order, id), id)) = ToSet(s.order) \cup {id}
      BY MoveToEnd DEF Agrees
    <3>2. touched = [map |-> s.map, keys |-> s.keys, order |-> Append(Without(s.order, id), id),
                     lookups |-> s.lookups]
      BY <2>1 DEF Agrees, IsStore
    <3> HIDE DEF touched
    <3>3. touched.map = s.map /\ touched.keys = s.keys /\ IsStore(touched)
          /\ touched.order = Append(Without(s.order, id), id)
      BY <3>2 DEF IsStore
    <3> QED BY <2>1, <3>1, <3>3 DEF Agrees, Has
  <2>2. CASE ~Has(s, id)
    BY <2>2
  <2> QED BY <2>1, <2>2
<1> HIDE DEF touched
<1>2. Agrees(counted) /\ counted.map = s.map
  <2>1. counted = [map |-> touched.map, keys |-> touched.keys, order |-> touched.order,
                   lookups |-> (touched.lookups + 1) % SweepEvery]
    BY <1>1, SMTT(40) DEF Agrees, IsStore
  <2> HIDE DEF counted
  <2>2. counted.map = touched.map /\ counted.keys = touched.keys /\ counted.order = touched.order
        /\ IsStore(counted)
    BY <2>1 DEF IsStore
  <2> QED BY <1>1, <2>2 DEF Agrees
<1>3. Get(s, id) = Keep(counted, SessionIds \ Swept(s)) \/ Get(s, id) = counted
  BY DEF Get, touched
<1> HIDE DEF counted
<1>4. Unexpired(s) \subseteq DOMAIN s.map /\ Unexpired(s) \subseteq SessionIds \ Swept(s)
  BY SweptAreExpired, AgreesDomain DEF Unexpired
<1>5. CASE Get(s, id) = counted
  BY <1>2, <1>4, <1>5
<1>6. CASE Get(s, id) = Keep(counted, SessionIds \ Swept(s))
  <2> DEFINE ids == SessionIds \ Swept(s)
  <2>1. /\ Agrees(Keep(counted, ids))
        /\ DOMAIN Keep(counted, ids).map = DOMAIN s.map \cap ids
        /\ \A j \in DOMAIN s.map \cap ids : Keep(counted, ids).map[j] = s.map[j]
    BY <1>2, KeepAgrees
  <2> QED BY <1>4, <1>6, <2>1
<1> QED BY <1>3, <1>5, <1>6

(* ... and set, which makes room by dropping the first.                     *)
LEMMA SetAgrees ==
  ASSUME NEW s, Agrees(s), NEW id \in SessionIds, NEW state
  PROVE  LET t == Set(s, id, state)
         IN /\ Agrees(t) /\ id \in DOMAIN t.map /\ t.map[id] = state
            /\ \A j \in DOMAIN t.map \ {id} : j \in DOMAIN s.map /\ t.map[j] = s.map[j]
            /\ \A j \in DOMAIN s.map \ DOMAIN t.map :
                 Len(s.keys) = MaxSessions /\ id \notin DOMAIN s.map
<1> DEFINE full == Len(s.keys) >= MaxSessions /\ ~Has(s, id) /\ s.order # <<>>
           room == IF full THEN Delete(s, Head(s.order)) ELSE s
           t == Set(s, id, state)
           newKeys == IF Has(room, id) THEN room.keys ELSE Append(room.keys, id)
           newOrder == Append(Without(room.order, id), id)
<1>0. MaxSessions \in Nat \ {0} /\ Len(s.keys) \in Nat /\ Len(s.keys) <= MaxSessions
  BY SessionAssumption, AgreesDomain DEF SessionAssumption, Agrees
<1>1. /\ Agrees(room) /\ DOMAIN room.map \subseteq DOMAIN s.map
      /\ \A j \in DOMAIN room.map : room.map[j] = s.map[j]
      /\ Has(room, id) \/ Len(room.keys) < MaxSessions
      /\ \A j \in DOMAIN s.map \ DOMAIN room.map : full
      /\ id \in DOMAIN s.map => id \in DOMAIN room.map
  <2>1. CASE full
    <3> DEFINE h == Head(s.order)
    <3>1. h \in ToSet(s.order) /\ h \in SessionIds
      <4>1. s.order \in Seq(SessionIds) /\ s.order # <<>>
        BY <2>1 DEF Agrees
      <4>2. Len(s.order) \in Nat \ {0} /\ h = s.order[1]
        BY <4>1, EmptySeq, LenProperties
      <4>3. 1 \in 1 .. Len(s.order)
        BY <4>2
      <4>4. h \in ToSet(s.order)
        BY <4>2, <4>3 DEF ToSet
      <4> QED BY <4>1, <4>4, ToSetType
    <3>2. room = Keep(s, SessionIds \ {h})
      BY <2>1 DEF Delete
    <3> HIDE DEF h, room
    <3>3. /\ Agrees(room) /\ DOMAIN room.map = DOMAIN s.map \cap (SessionIds \ {h})
          /\ \A j \in DOMAIN s.map \cap (SessionIds \ {h}) : room.map[j] = s.map[j]
      BY <3>2, KeepAgrees
    <3>4. DOMAIN room.map = DOMAIN s.map \ {h} /\ h \in DOMAIN s.map /\ IsFiniteSet(DOMAIN s.map)
      BY <3>1, <3>3, AgreesDomain DEF Agrees
    <3>5. Cardinality(DOMAIN s.map \ {h}) = Cardinality(DOMAIN s.map) - 1
      BY <3>4, FS_RemoveElement
    <3>6. Cardinality(DOMAIN room.map) = Cardinality(DOMAIN s.map) - 1
      BY <3>4, <3>5
    <3>7. Cardinality(DOMAIN room.map) = Len(room.keys) /\ Cardinality(DOMAIN s.map) = Len(s.keys)
          /\ Len(room.keys) \in Nat
      BY <3>3, AgreesDomain
    <3>8. Len(room.keys) < MaxSessions
      BY <1>0, <3>6, <3>7
    <3> QED BY <2>1, <3>3, <3>4, <3>8 DEF Has
  <2>2. CASE ~full
    <3>1. room = s
      BY <2>2
    <3>2. ASSUME ~Has(s, id) PROVE Len(s.keys) < MaxSessions
      <4>1. CASE Len(s.keys) < MaxSessions
        BY <4>1
      <4>2. CASE s.order = <<>>
        <5>1. Len(s.order) = 0
          BY <4>2
        <5>2. Len(s.keys) = Len(s.order)
          BY AgreesDomain
        <5> QED BY <1>0, <5>1, <5>2
      <4> QED BY <1>0, <2>2, <3>2, <4>1, <4>2
    <3> QED BY <3>1, <3>2
  <2> QED BY <2>1, <2>2
<1> DEFINE newMap == [j \in DOMAIN room.map \cup {id} |-> IF j = id THEN state ELSE room.map[j]]
<1>2. t = [room EXCEPT !.map = [j \in DOMAIN @ \cup {id} |-> IF j = id THEN state ELSE @[j]],
                  !.keys = IF Has(room, id) THEN @ ELSE Append(@, id),
                  !.order = Append(Without(@, id), id)]
  BY DEF Set
<1> HIDE DEF room
<1>3. t = [map |-> newMap, keys |-> newKeys, order |-> newOrder,
           lookups |-> room.lookups]
  BY <1>1, <1>2 DEF Agrees, IsStore
<1>4. /\ newOrder \in Seq(SessionIds) /\ IsInjective(newOrder)
      /\ ToSet(newOrder) = ToSet(room.order) \cup {id}
  BY <1>1, MoveToEnd DEF Agrees
<1>5. /\ newKeys \in Seq(SessionIds) /\ IsInjective(newKeys)
      /\ ToSet(newKeys) = ToSet(room.keys) \cup {id} /\ Len(newKeys) <= MaxSessions
  <2>1. room.keys \in Seq(SessionIds) /\ IsInjective(room.keys) /\ Len(room.keys) \in Nat
        /\ ToSet(room.keys) = DOMAIN room.map /\ Len(room.keys) <= MaxSessions
    BY <1>1, LenProperties DEF Agrees
  <2>2. CASE Has(room, id)
    <3>1. newKeys = room.keys
      BY <2>2
    <3> QED BY <2>1, <2>2, <3>1 DEF Has
  <2>3. CASE ~Has(room, id)
    <3>1. newKeys = Append(room.keys, id)
      BY <2>3
    <3>2. Append(room.keys, id) \in Seq(SessionIds) /\ Len(Append(room.keys, id)) = Len(room.keys) + 1
          /\ ToSet(Append(room.keys, id)) = ToSet(room.keys) \cup {id}
      BY <2>1, AppendProperties, ToSetAppend
    <3>3. IsInjective(Append(room.keys, id))
      BY <2>1, <2>3, InjectiveAppend DEF Has
    <3>4. Len(room.keys) + 1 <= MaxSessions
      BY <1>0, <1>1, <2>1, <2>3
    <3> QED BY <3>1, <3>2, <3>3, <3>4
  <2> QED BY <2>2, <2>3
<1>6. /\ DOMAIN newMap = DOMAIN room.map \cup {id}
      /\ newMap[id] = state
      /\ \A j \in DOMAIN room.map \ {id} : newMap[j] = room.map[j]
  OBVIOUS
<1> HIDE DEF newMap, newKeys, newOrder, t
<1>7. /\ DOMAIN t.map = DOMAIN room.map \cup {id} /\ t.map[id] = state /\ IsStore(t)
      /\ \A j \in DOMAIN room.map \ {id} : t.map[j] = room.map[j]
      /\ t.keys = newKeys /\ t.order = newOrder
  BY <1>3, <1>6 DEF IsStore
<1>8. Agrees(t)
  BY <1>1, <1>4, <1>5, <1>7 DEF Agrees
<1>9. \A j \in DOMAIN t.map \ {id} : j \in DOMAIN s.map /\ t.map[j] = s.map[j]
  BY <1>1, <1>7
<1>10. \A j \in DOMAIN s.map \ DOMAIN t.map : Len(s.keys) = MaxSessions /\ id \notin DOMAIN s.map
  BY <1>0, <1>1, <1>7 DEF Has
<1> QED BY <1>7, <1>8, <1>9, <1>10 DEF t
(* Whole division of naturals.                                              *)
LEMMA DivType ==
  ASSUME NEW a \in Nat, NEW b \in Nat \ {0}
  PROVE  a \div b \in Nat
OBVIOUS
(* Products of naturals.                                                    *)
LEMMA TimesType ==
  ASSUME NEW a \in Nat, NEW b \in Nat
  PROVE  a * b \in Nat /\ (a # 0 /\ b # 0 => a * b # 0)
OBVIOUS

(* Products grow with their factors.                                        *)
LEMMA TimesGrow ==
  ASSUME NEW a \in Nat, NEW b \in Nat, NEW c \in Nat, NEW d \in Nat, a <= b, c <= d
  PROVE  a * c <= b * d
<1>1. PICK k \in Nat : b = a + k
  <2>1. b - a \in Nat /\ b = a + (b - a)
    OBVIOUS
  <2> QED BY <2>1
<1>2. PICK l \in Nat : d = c + l
  <2>1. d - c \in Nat /\ d = c + (d - c)
    OBVIOUS
  <2> QED BY <2>1
<1>3. b * d = a * c + a * l + k * c + k * l
  BY <1>1, <1>2
<1>4. a * c \in Nat /\ a * l \in Nat /\ k * c \in Nat /\ k * l \in Nat
  BY TimesType
<1> QED BY <1>3, <1>4

(* A number that n times another bounds holds it at most n times.           *)
LEMMA DivNoMore ==
  ASSUME NEW m \in Nat, NEW n \in Nat, NEW y \in Nat \ {0}, m <= n * y
  PROVE  m \div y <= n
<1> DEFINE q == m \div y
<1>1. q \in Nat /\ y * q <= m
  OBVIOUS
<1> HIDE DEF q
<1>2. SUFFICES ASSUME q > n PROVE FALSE
  BY <1>1 DEF q
<1>3. n + 1 <= q /\ n + 1 \in Nat /\ y <= y
  BY <1>1, <1>2
<1>4. (n + 1) * y <= q * y
  BY <1>1, <1>3, TimesGrow
<1>5. (n + 1) * y = n * y + y /\ q * y = y * q /\ n * y \in Nat /\ y * q \in Nat
  BY <1>1, TimesType
<1> QED BY <1>1, <1>4, <1>5

(* The powers of a base up to an exponent, one from the other.              *)
ArePowers(p, b, n) == p = [i \in 0 .. n |-> IF i = 0 THEN 1 ELSE b * p[i - 1]]

(* There are such powers: by induction on the exponent.                     *)
LEMMA PowersExist ==
  ASSUME NEW b, NEW n \in Nat
  PROVE  \E p : ArePowers(p, b, n)
<1> DEFINE I == {m \in Nat : \E p : ArePowers(p, b, m)}
<1>1. 0 \in I
  <2> DEFINE g == [i \in 0 .. 0 |-> 1]
  <2>1. \A i \in 0 .. 0 : i = 0
    OBVIOUS
  <2>2. ArePowers(g, b, 0)
    BY <2>1 DEF ArePowers
  <2> QED BY <2>2
<1>2. ASSUME NEW m \in I PROVE m + 1 \in I
  <2>1. PICK g : ArePowers(g, b, m)
    OBVIOUS
  <2> DEFINE h == [i \in 0 .. m + 1 |-> IF i = m + 1 THEN b * g[m] ELSE g[i]]
  <2>2. \A i \in 0 .. m : i \in 0 .. m + 1 /\ h[i] = g[i]
    OBVIOUS
  <2>3. \A i \in 0 .. m + 1 : i \in 0 .. m \/ i = m + 1
    OBVIOUS
  <2>4. \A i \in 0 .. m : i = 0 \/ i - 1 \in 0 .. m
    OBVIOUS
  <2>5. m + 1 # 0 /\ (m + 1) - 1 = m /\ m \in 0 .. m /\ m + 1 \in 0 .. m + 1
    OBVIOUS
  <2>6. h[m + 1] = b * h[m]
    BY <2>2, <2>5
  <2>7. h = [i \in 0 .. m + 1 |-> h[i]]
    OBVIOUS
  <2> HIDE DEF h
  <2>8. ASSUME NEW i \in 0 .. m + 1
        PROVE  h[i] = IF i = 0 THEN 1 ELSE b * h[i - 1]
    <3>1. CASE i \in 0 .. m
      <4>1. g[i] = IF i = 0 THEN 1 ELSE b * g[i - 1]
        BY <2>1, <3>1 DEF ArePowers
      <4>2. h[i] = g[i] /\ (i # 0 => h[i - 1] = g[i - 1])
        BY <2>2, <2>4, <3>1
      <4> QED BY <4>1, <4>2
    <3>2. CASE i = m + 1
      BY <2>5, <2>6, <3>2
    <3> QED BY <2>3, <3>1, <3>2
  <2>9. ArePowers(h, b, m + 1)
    BY <2>7, <2>8 DEF ArePowers
  <2> QED BY <2>9
<1> HIDE DEF I
<1>3. I = Nat
  <2>1. I \in SUBSET Nat
    BY DEF I
  <2> QED BY <1>1, <1>2, <2>1, NumbersByInduction
<1> QED BY <1>3 DEF I

(* p holds the powers of b up to the e-th.                                  *)
LeadsTo(p, b, e) ==
  /\ Power(b, e) = p[e] /\ p[0] = 1
  /\ \A i \in Nat : i + 1 <= e => p[i + 1] = b * p[i]

(* What a power is, one from the other.                                     *)
LEMMA PowerStep ==
  ASSUME NEW b \in Nat \ {0}, NEW e \in Nat
  PROVE  \E p : LeadsTo(p, b, e)
<1> DEFINE P == CHOOSE p : p = [i \in 0 .. e |-> IF i = 0 THEN 1 ELSE b * p[i - 1]]
<1>1. PICK f : ArePowers(f, b, e)
  BY PowersExist
<1>2. \E p : p = [i \in 0 .. e |-> IF i = 0 THEN 1 ELSE b * p[i - 1]]
  BY <1>1, Zenon DEF ArePowers
<1>3. P = [i \in 0 .. e |-> IF i = 0 THEN 1 ELSE b * P[i - 1]]
  BY <1>2, Zenon
<1>4. Power(b, e) = P[e]
  BY Zenon DEF Power
<1> HIDE DEF P
<1>5. P[0] = 1
  <2>1. 0 \in 0 .. e
    OBVIOUS
  <2> QED BY <1>3, <2>1
<1>6. ASSUME NEW i \in Nat, i + 1 <= e PROVE P[i + 1] = b * P[i]
  <2>1. i + 1 \in 0 .. e /\ i + 1 # 0 /\ (i + 1) - 1 = i
    BY <1>6
  <2> QED BY <1>3, <2>1
<1> QED BY <1>4, <1>5, <1>6 DEF LeadsTo

(* The power of a positive number is positive, and grows with its base: by  *)
(* induction on the exponent.                                               *)
LEMMA PowersGrow ==
  ASSUME NEW a \in Nat \ {0}, NEW b \in Nat \ {0}, a <= b, NEW e \in Nat
  PROVE  Power(a, e) \in Nat \ {0} /\ Power(b, e) \in Nat \ {0} /\ Power(a, e) <= Power(b, e)
<1>1. PICK p : LeadsTo(p, a, e)
  BY PowerStep
<1>2. PICK q : LeadsTo(q, b, e)
  BY PowerStep
<1> DEFINE I == {i \in Nat : i <= e => p[i] \in Nat \ {0} /\ q[i] \in Nat \ {0} /\ p[i] <= q[i]}
<1>3. 0 \in I
  BY <1>1, <1>2 DEF LeadsTo
<1>4. ASSUME NEW i \in I PROVE i + 1 \in I
  <2> SUFFICES ASSUME i + 1 <= e
               PROVE  p[i + 1] \in Nat \ {0} /\ q[i + 1] \in Nat \ {0} /\ p[i + 1] <= q[i + 1]
    OBVIOUS
  <2>1. i \in Nat /\ i <= e
    OBVIOUS
  <2>2. p[i] \in Nat \ {0} /\ q[i] \in Nat \ {0} /\ p[i] <= q[i]
    BY <2>1
  <2>3. p[i + 1] = a * p[i] /\ q[i + 1] = b * q[i]
    BY <1>1, <1>2, <2>1 DEF LeadsTo
  <2>4. a * p[i] \in Nat \ {0} /\ b * q[i] \in Nat \ {0}
    BY <2>2, TimesType
  <2>5. a * p[i] <= b * q[i]
    BY <2>2, TimesGrow
  <2> QED BY <2>3, <2>4, <2>5
<1> HIDE DEF I
<1>5. I = Nat
  <2>1. I \in SUBSET Nat
    BY DEF I
  <2> QED BY <1>3, <1>4, <2>1, NumbersByInduction
<1>6. e \in I /\ e <= e
  BY <1>5
<1> QED BY <1>1, <1>2, <1>6 DEF I, LeadsTo

(* A fraction of a number is one, ...                                       *)
LEMMA ShareIsNumber ==
  ASSUME NEW n \in Nat, NEW e \in Nat
  PROVE  (n * Power(7, e)) \div Power(10, e) \in Nat
<1>1. Power(7, e) \in Nat /\ Power(10, e) \in Nat \ {0}
  BY PowersGrow
<1> DEFINE x == Power(7, e)
           y == Power(10, e)
<1> HIDE DEF x, y
<1>2. n * x \in Nat /\ y \in Nat \ {0}
  BY <1>1, TimesType DEF x, y
<1> QED BY <1>2, DivType DEF x, y

(* ... and below one, no more than the number.                              *)
LEMMA ShareIsNoMore ==
  ASSUME NEW n \in Nat, NEW a \in Nat \ {0}, NEW b \in Nat \ {0}, a <= b, NEW e \in Nat
  PROVE  (n * Power(a, e)) \div Power(b, e) <= n
<1> DEFINE x == Power(a, e)
           y == Power(b, e)
<1>1. x \in Nat \ {0} /\ y \in Nat \ {0} /\ x <= y
  BY PowersGrow
<1> HIDE DEF x, y
<1>2. n * x <= n * y /\ n * x \in Nat
  BY <1>1, TimesGrow, TimesType
<1> QED BY <1>1, <1>2, DivNoMore DEF x, y

-----------------------------------------------------------------------------
(* The inductive invariant.                                                 *)
SessionInv ==
  /\ now \in Time
  /\ Agrees(store)
  /\ \A id \in DOMAIN store.map : store.map[id] \in SessionState

(* The numbers of the tracker are naturals.                                 *)
LEMMA SessionNumbers ==
  /\ MaxTime \in Nat /\ \A t \in Time : t \in Nat
  /\ SessionTimeout \in Nat \ {0} /\ MaxSessions \in Nat \ {0}
BY SessionAssumption, ClockAssumption DEF SessionAssumption, Time

(* What one decay over the silence since old was updated leaves of it is    *)
(* still in new.                                                            *)
KeepsShare(old, new) ==
  LET e == Since(old.updated)
  IN /\ new.weight >= old.weight \div Power(2, e)
     /\ new.repeats >= (old.repeats * Power(7, e)) \div Power(10, e)

(* A session is its own share.                                              *)
LEMMA ShareOfItself ==
  ASSUME now \in Time, NEW state \in SessionState
  PROVE  KeepsShare(state, state) /\ Since(state.updated) \in Nat
<1> DEFINE e == Since(state.updated)
           w == state.weight
           r == state.repeats
<1>1. e \in Nat
  BY SessionNumbers DEF Since, SessionState
<1>2. w \in Nat /\ r \in Nat
  BY DEF SessionState
<1> HIDE DEF e, w, r
<1>3. Power(2, e) \in Nat \ {0} /\ w <= w * Power(2, e)
  <2>1. Power(2, e) \in Nat \ {0}
    BY <1>1, PowersGrow
  <2>2. w * 1 <= w * Power(2, e)
    BY <1>2, <2>1, TimesGrow
  <2> QED BY <1>2, <2>1, <2>2
<1>4. w \div Power(2, e) <= w
  BY <1>2, <1>3, DivNoMore
<1>5. (r * Power(7, e)) \div Power(10, e) <= r
  BY <1>1, <1>2, ShareIsNoMore
<1>6. w \div Power(2, e) \in Nat
  BY <1>2, <1>3, DivType
<1>7. (r * Power(7, e)) \div Power(10, e) \in Nat
  BY <1>1, <1>2, ShareIsNumber
<1>8. w >= w \div Power(2, e) /\ r >= (r * Power(7, e)) \div Power(10, e)
  BY <1>2, <1>4, <1>5, <1>6, <1>7
<1>9. Since(state.updated) = e /\ state.weight = w /\ state.repeats = r
  BY DEF e, w, r
<1> QED BY <1>1, <1>8, <1>9 DEF KeepsShare

(* Decay leaves the share, and is nothing before a half-life of silence.    *)
LEMMA DecayFacts ==
  ASSUME now \in Time, NEW state \in SessionState
  PROVE  /\ Decay(state) \in SessionState
         /\ Since(state.updated) \in Nat
         /\ KeepsShare(state, Decay(state))
<1> DEFINE e == Since(state.updated)
<1>1. e \in Nat
  BY SessionNumbers DEF Since, SessionState
<1> HIDE DEF e
<1>2. CASE e = 0
  <2>1. Decay(state) = state
    BY <1>2, Zenon DEF Decay, e
  <2> QED BY <1>1, <2>1, ShareOfItself DEF e
<1>3. CASE e # 0
  <2> DEFINE w == state.weight \div Power(2, e)
             r == (state.repeats * Power(7, e)) \div Power(10, e)
  <2>1. Power(2, e) \in Nat \ {0} /\ Power(7, e) \in Nat \ {0} /\ Power(10, e) \in Nat \ {0}
    BY <1>1, PowersGrow
  <2>2. state.weight \in Nat /\ state.repeats \in Nat
    BY DEF SessionState
  <2>3. w \in Nat /\ r \in Nat
    BY <2>1, <2>2, DivType, TimesType
  <2>4. Decay(state) = [state EXCEPT !.weight = w, !.repeats = r]
    BY <1>3, Zenon DEF Decay, e
  <2> HIDE DEF w, r
  <2> DEFINE new == [state EXCEPT !.weight = w, !.repeats = r]
  <2>5. new \in SessionState /\ new.weight = w /\ new.repeats = r
    BY <2>3 DEF SessionState
  <2> HIDE DEF new
  <2>6. new.weight >= w /\ new.repeats >= r
    BY <2>3, <2>5
  <2>7. KeepsShare(state, new)
    BY <2>6 DEF KeepsShare, w, r, e
  <2> QED BY <1>1, <2>4, <2>5, <2>7 DEF e, new
<1> QED BY <1>2, <1>3

(* A fresh session is a session.                                            *)
LEMMA FreshState ==
  ASSUME now \in Time
  PROVE  createFreshState \in SessionState
<1>1. <<>> \in Seq(Fragment)
  BY EmptySeq
<1> QED BY <1>1 DEF createFreshState, SessionState

(* What a read leaves: of a session that has not expired, its share.        *)
LEMMA ReadFacts ==
  ASSUME SessionInv, NEW id \in SessionIds
  PROVE  LET g == getSessionState(id)
         IN /\ Agrees(g.store) /\ g.state \in SessionState
            /\ DOMAIN g.store.map \subseteq DOMAIN store.map
            /\ \A j \in DOMAIN g.store.map : g.store.map[j] \in SessionState
            /\ \A j \in DOMAIN store.map : ~Expired(store.map[j]) =>
                 /\ j \in DOMAIN g.store.map /\ KeepsShare(store.map[j], g.store.map[j])
                 /\ j = id => KeepsShare(store.map[j], g.state)
<1> DEFINE g == getSessionState(id)
           fetched == Get(store, id)
           old == store.map[id]
           new == Decay(old)
<1>1. /\ Agrees(fetched) /\ DOMAIN fetched.map \subseteq DOMAIN store.map
      /\ Unexpired(store) \subseteq DOMAIN fetched.map
      /\ \A j \in DOMAIN fetched.map : fetched.map[j] = store.map[j]
  BY GetAgrees DEF SessionInv
<1>2. \A j \in DOMAIN store.map :
         /\ store.map[j] \in SessionState /\ Since(store.map[j].updated) \in Nat
         /\ KeepsShare(store.map[j], store.map[j])
         /\ ~Expired(store.map[j]) => j \in Unexpired(store)
  BY ShareOfItself DEF SessionInv, Unexpired
<1>3. /\ createFreshState \in SessionState
      /\ id \in DOMAIN store.map => new \in SessionState /\ KeepsShare(old, new)
  BY <1>2, DecayFacts, FreshState DEF SessionInv
<1> HIDE DEF fetched
<1>4. CASE ~Has(store, id)
  <2>1. g = [store |-> fetched, state |-> createFreshState]
    BY <1>4 DEF getSessionState, fetched
  <2> HIDE DEF g
  <2> QED BY <1>1, <1>2, <1>3, <1>4, <2>1 DEF g, Has
<1>5. CASE Has(store, id) /\ Expired(old)
  <2> DEFINE d == Keep(fetched, SessionIds \ {id})
  <2>1. g = [store |-> d, state |-> createFreshState]
    BY <1>5 DEF getSessionState, fetched, Delete
  <2>2. /\ Agrees(d) /\ DOMAIN d.map = DOMAIN fetched.map \cap (SessionIds \ {id})
        /\ \A j \in DOMAIN fetched.map \cap (SessionIds \ {id}) : d.map[j] = fetched.map[j]
    BY <1>1, KeepAgrees
  <2> HIDE DEF d, g
  <2>3. DOMAIN store.map \subseteq SessionIds
    BY AgreesDomain DEF SessionInv
  <2> QED BY <1>1, <1>2, <1>3, <1>5, <2>1, <2>2, <2>3 DEF g
<1>6. CASE Has(store, id) /\ ~Expired(old) /\ Since(old.updated) > 0
  <2> DEFINE d == Set(fetched, id, new)
  <2>1. g = [store |-> d, state |-> new]
    BY <1>6 DEF getSessionState, fetched
  <2>2. id \in DOMAIN fetched.map
    BY <1>1, <1>6 DEF Unexpired, Has
  <2>3. /\ Agrees(d) /\ id \in DOMAIN d.map /\ d.map[id] = new
        /\ \A j \in DOMAIN d.map \ {id} : j \in DOMAIN fetched.map /\ d.map[j] = fetched.map[j]
        /\ \A j \in DOMAIN fetched.map \ DOMAIN d.map : id \notin DOMAIN fetched.map
    BY <1>1, SetAgrees
  <2> HIDE DEF d, g, new
  <2>4. new \in SessionState /\ id \in DOMAIN store.map
    BY <1>3, <1>6 DEF Has
  <2>5. DOMAIN d.map \subseteq DOMAIN store.map
    BY <1>1, <2>2, <2>3
  <2>6. \A j \in DOMAIN d.map : d.map[j] \in SessionState
    BY <1>1, <1>2, <2>3, <2>4
  <2>7. KeepsShare(store.map[id], new)
    BY <1>3, <2>4
  <2>8. \A j \in DOMAIN store.map : ~Expired(store.map[j]) =>
           j \in DOMAIN d.map /\ KeepsShare(store.map[j], d.map[j])
    <3> SUFFICES ASSUME NEW j \in DOMAIN store.map, ~Expired(store.map[j])
                 PROVE  j \in DOMAIN d.map /\ KeepsShare(store.map[j], d.map[j])
      OBVIOUS
    <3>1. j \in DOMAIN fetched.map /\ j \in DOMAIN d.map
      BY <1>1, <1>2, <2>2, <2>3
    <3>2. CASE j = id
      BY <2>3, <2>7, <3>1, <3>2
    <3>3. CASE j # id
      <4>1. d.map[j] = store.map[j]
        BY <1>1, <2>3, <3>1, <3>3
      <4> QED BY <1>2, <3>1, <4>1
    <3> QED BY <3>2, <3>3
  <2> QED BY <2>1, <2>3, <2>4, <2>5, <2>6, <2>7, <2>8 DEF g
<1>7. CASE Has(store, id) /\ ~Expired(old) /\ ~(Since(old.updated) > 0)
  <2>1. g = [store |-> fetched, state |-> new]
    BY <1>7 DEF getSessionState, fetched
  <2>2. id \in DOMAIN store.map
    BY <1>7 DEF Has
  <2> HIDE DEF g, new
  <2> QED BY <1>1, <1>2, <1>3, <2>1, <2>2 DEF g
<1> QED BY <1>4, <1>5, <1>6, <1>7

(* Of session id, no more is lost than by one decay, past the timeout or    *)
(* for room.                                                                *)
NothingLost(id) ==
  \/ Has(store', id) /\ KeepsShare(store.map[id], store'.map[id])
  \/ Expired(store.map[id])
  \/ /\ Len(store.keys) = MaxSessions
     /\ ~Has(store', id)
     /\ DOMAIN store'.map \ DOMAIN store.map # {}

(* Saving a session keeps the store in agreement and fades no other         *)
(* session.                                                                 *)
LEMMA SaveStep ==
  ASSUME SessionInv, NEW id \in SessionIds, NEW state \in SessionState, UNCHANGED now,
         saveSessionState(id, state),
         id \in DOMAIN store.map /\ ~Expired(store.map[id]) => KeepsShare(store.map[id], state)
  PROVE  SessionInv' /\ \A j \in DOMAIN store.map : NothingLost(j)
<1> DEFINE s == getSessionState(id).store
           t == Set(s, id, state)
<1>1. store' = t
  BY DEF saveSessionState
<1>2. /\ Agrees(s) /\ DOMAIN s.map \subseteq DOMAIN store.map
      /\ \A j \in DOMAIN s.map : s.map[j] \in SessionState
      /\ \A j \in DOMAIN store.map : ~Expired(store.map[j]) =>
           j \in DOMAIN s.map /\ KeepsShare(store.map[j], s.map[j])
  BY ReadFacts
<1> HIDE DEF s
<1>3. /\ Agrees(t) /\ id \in DOMAIN t.map /\ t.map[id] = state
      /\ \A j \in DOMAIN t.map \ {id} : j \in DOMAIN s.map /\ t.map[j] = s.map[j]
      /\ \A j \in DOMAIN s.map \ DOMAIN t.map : Len(s.keys) = MaxSessions /\ id \notin DOMAIN s.map
  BY <1>2, SetAgrees
<1> HIDE DEF t
<1>4. \A j \in DOMAIN t.map : t.map[j] \in SessionState
  BY <1>2, <1>3
<1>5. SessionInv'
  <2>1. now' \in Time
    BY DEF SessionInv
  <2>2. Agrees(store)' /\ \A j \in DOMAIN store'.map : store'.map[j] \in SessionState
    BY <1>1, <1>3, <1>4 DEF Agrees, IsStore
  <2> QED BY <2>1, <2>2 DEF SessionInv
<1>6. ASSUME NEW j \in DOMAIN store.map, ~Expired(store.map[j]) PROVE NothingLost(j)
  <2>2. j \in DOMAIN s.map /\ KeepsShare(store.map[j], s.map[j])
    BY <1>2, <1>6
  <2>3. CASE j = id
    BY <1>1, <1>3, <1>6, <2>3 DEF NothingLost, Has
  <2>4. CASE j # id /\ j \in DOMAIN t.map
    <3>1. t.map[j] = s.map[j]
      BY <1>3, <2>4
    <3> QED BY <1>1, <2>2, <2>4, <3>1 DEF NothingLost, Has
  <2>5. CASE j \notin DOMAIN t.map
    <3>1. Len(s.keys) = MaxSessions /\ id \notin DOMAIN s.map
      BY <1>3, <2>2, <2>5
    <3>2. /\ IsFiniteSet(DOMAIN store.map) /\ Cardinality(DOMAIN store.map) = Len(store.keys)
          /\ Cardinality(DOMAIN s.map) = Len(s.keys) /\ Len(store.keys) <= MaxSessions
          /\ Len(store.keys) \in Nat
      BY <1>2, AgreesDomain DEF SessionInv, Agrees
    <3>3. Cardinality(DOMAIN s.map) <= Cardinality(DOMAIN store.map)
      BY <1>2, <3>2, FS_Subset
    <3>4. Len(store.keys) = MaxSessions
      BY <3>1, <3>2, <3>3, SessionNumbers
    <3>5. DOMAIN s.map = DOMAIN store.map
      <4>1. Cardinality(DOMAIN s.map) = Cardinality(DOMAIN store.map)
        BY <3>1, <3>2, <3>4
      <4> QED BY <1>2, <3>2, <4>1, FS_Subset
    <3>6. id \in DOMAIN t.map \ DOMAIN store.map
      BY <1>3, <3>1, <3>5
    <3> QED BY <1>1, <2>5, <3>4, <3>6 DEF NothingLost, Has
  <2> QED BY <2>3, <2>4, <2>5
<1>7. \A j \in DOMAIN store.map : NothingLost(j)
  BY <1>6 DEF NothingLost
<1> QED BY <1>5, <1>7

(* A session that nothing touches keeps what it has.                        *)
LEMMA UntouchedIsKept ==
  ASSUME SessionInv, NEW j \in DOMAIN store.map,
         ~Expired(store.map[j]) => j \in DOMAIN store'.map /\ store'.map[j] = store.map[j]
  PROVE  NothingLost(j)
BY ShareOfItself DEF NothingLost, Has, SessionInv

(* What each call has to show.                                              *)
SessionStep == SessionInv' /\ \A j \in DOMAIN store.map : NothingLost(j)

(* What adds to a share has it.                                             *)
LEMMA ShareOfMore ==
  ASSUME SessionInv, NEW id \in DOMAIN store.map, NEW mid \in SessionState, NEW new \in SessionState,
         KeepsShare(store.map[id], mid), new.weight >= mid.weight, new.repeats >= mid.repeats
  PROVE  KeepsShare(store.map[id], new)
<1> DEFINE old == store.map[id]
           e == Since(old.updated)
           w == old.weight \div Power(2, e)
           r == (old.repeats * Power(7, e)) \div Power(10, e)
<1>1. old \in SessionState /\ e \in Nat
  BY ShareOfItself DEF SessionInv
<1>2. old.weight \in Nat /\ old.repeats \in Nat
  BY <1>1 DEF SessionState
<1> HIDE DEF e, old
<1>3. w \in Nat /\ r \in Nat
  <2>1. Power(2, e) \in Nat \ {0}
    BY <1>1, PowersGrow
  <2> QED BY <1>1, <1>2, <2>1, DivType, ShareIsNumber
<1>4. mid.weight \in Nat /\ mid.repeats \in Nat /\ new.weight \in Nat /\ new.repeats \in Nat
  BY DEF SessionState
<1>5. mid.weight >= w /\ mid.repeats >= r
  BY DEF KeepsShare, w, r, e, old
<1> HIDE DEF w, r
<1>6. new.weight >= w /\ new.repeats >= r
  BY <1>3, <1>4, <1>5
<1> QED BY <1>6 DEF KeepsShare, w, r, e, old

(* updateSessionState adds findings to what has not faded.                  *)
LEMMA UpdateStep ==
  ASSUME SessionInv, NEW id \in SessionIds, NEW n \in 0 .. 2, updateSessionState(id, n)
  PROVE  SessionStep
<1> DEFINE old == getSessionState(id).state
           w == old.weight + n
           r == old.repeats + n
           new == [old EXCEPT !.weight = w, !.repeats = r, !.updated = now, !.recorded = w]
<1>1. saveSessionState(id, new) /\ UNCHANGED now
  BY DEF updateSessionState, Called
<1>2. /\ old \in SessionState
      /\ id \in DOMAIN store.map /\ ~Expired(store.map[id]) => KeepsShare(store.map[id], old)
  BY ReadFacts
<1> HIDE DEF old
<1>3. old.weight \in Nat /\ old.repeats \in Nat /\ now \in Time
  BY <1>2 DEF SessionState, SessionInv
<1>4. w \in Nat /\ r \in Nat /\ w >= old.weight /\ r >= old.repeats
  BY <1>3
<1> HIDE DEF w, r
<1>5. new \in SessionState /\ new.weight = w /\ new.repeats = r
  BY <1>2, <1>3, <1>4 DEF SessionState
<1> HIDE DEF new
<1>6. id \in DOMAIN store.map /\ ~Expired(store.map[id]) => KeepsShare(store.map[id], new)
  BY <1>2, <1>4, <1>5, ShareOfMore
<1> QED BY <1>1, <1>5, <1>6, SaveStep DEF SessionStep

(* updateFragmentBuffer leaves the weight as it was read.                   *)
LEMMA FragmentStep ==
  ASSUME SessionInv, NEW id \in SessionIds, NEW f \in Fragment, updateFragmentBuffer(id, f)
  PROVE  SessionStep
<1> DEFINE old == getSessionState(id).state
           all == Append(old.fragments, f)
           last == IF Len(all) > MaxFragments THEN Tail(all) ELSE all
           new == [old EXCEPT !.fragments = last]
<1>1. saveSessionState(id, new) /\ UNCHANGED now
  BY DEF updateFragmentBuffer, Called
<1>2. /\ old \in SessionState
      /\ id \in DOMAIN store.map /\ ~Expired(store.map[id]) => KeepsShare(store.map[id], old)
  BY ReadFacts
<1> HIDE DEF old
<1>3. old.fragments \in Seq(Fragment) /\ old.weight \in Nat /\ old.repeats \in Nat
  BY <1>2 DEF SessionState
<1>4. all \in Seq(Fragment) /\ all # <<>>
  BY <1>3, AppendProperties, EmptySeq
<1> HIDE DEF all
<1>5. last \in Seq(Fragment)
  BY <1>4, HeadTailProperties
<1> HIDE DEF last
<1>6. new \in SessionState /\ new.weight = old.weight /\ new.repeats = old.repeats
  BY <1>2, <1>5 DEF SessionState
<1> HIDE DEF new
<1>7. id \in DOMAIN store.map /\ ~Expired(store.map[id]) => KeepsShare(store.map[id], new)
  BY <1>2, <1>3, <1>6, ShareOfMore
<1> QED BY <1>1, <1>6, <1>7, SaveStep DEF SessionStep

(* So does the count of instructions.                                       *)
LEMMA InstructionStep ==
  ASSUME SessionInv, NEW id \in SessionIds, updateInstructionCount(id)
  PROVE  SessionStep
<1> DEFINE old == getSessionState(id).state
           n == old.instructions + 1
           new == [old EXCEPT !.instructions = n]
<1>1. saveSessionState(id, new) /\ UNCHANGED now
  BY DEF updateInstructionCount, Called
<1>2. /\ old \in SessionState
      /\ id \in DOMAIN store.map /\ ~Expired(store.map[id]) => KeepsShare(store.map[id], old)
  BY ReadFacts
<1> HIDE DEF old
<1>3. old.instructions \in Nat /\ old.weight \in Nat /\ old.repeats \in Nat
  BY <1>2 DEF SessionState
<1>4. n \in Nat
  BY <1>3
<1> HIDE DEF n
<1>5. new \in SessionState /\ new.weight = old.weight /\ new.repeats = old.repeats
  BY <1>2, <1>4 DEF SessionState
<1> HIDE DEF new
<1>6. id \in DOMAIN store.map /\ ~Expired(store.map[id]) => KeepsShare(store.map[id], new)
  BY <1>2, <1>3, <1>5, ShareOfMore
<1> QED BY <1>1, <1>5, <1>6, SaveStep DEF SessionStep

(* Reading a session saves nothing.                                         *)
LEMMA ReadStep ==
  ASSUME SessionInv, NEW id \in SessionIds, ReadSession(id)
  PROVE  SessionStep
<1> DEFINE s == getSessionState(id).store
<1>1. store' = s /\ UNCHANGED now
  BY DEF ReadSession, Called
<1>2. /\ Agrees(s) /\ \A j \in DOMAIN s.map : s.map[j] \in SessionState
      /\ \A j \in DOMAIN store.map : ~Expired(store.map[j]) =>
           j \in DOMAIN s.map /\ KeepsShare(store.map[j], s.map[j])
  BY ReadFacts
<1> HIDE DEF s
<1>3. Agrees(store)' /\ now' \in Time /\ \A j \in DOMAIN store'.map : store'.map[j] \in SessionState
  BY <1>1, <1>2 DEF Agrees, IsStore, SessionInv
<1>4. \A j \in DOMAIN store.map : NothingLost(j)
  BY <1>1, <1>2 DEF NothingLost, Has
<1> QED BY <1>3, <1>4 DEF SessionStep, SessionInv

(* A session that is reset is gone.                                         *)
LEMMA ForgetSessionStep ==
  ASSUME SessionInv, NEW id \in SessionIds, resetSessionState(id)
  PROVE  SessionInv'
<1> DEFINE s == Keep(store, SessionIds \ {id})
<1>1. store' = s /\ UNCHANGED now
  BY DEF resetSessionState, Called, Delete
<1>2. /\ Agrees(s) /\ DOMAIN s.map = DOMAIN store.map \cap (SessionIds \ {id})
      /\ \A j \in DOMAIN store.map \cap (SessionIds \ {id}) : s.map[j] = store.map[j]
  BY KeepAgrees DEF SessionInv
<1> HIDE DEF s
<1> QED BY <1>1, <1>2 DEF SessionInv, Agrees, IsStore

(* All of them are.                                                         *)
LEMMA ClearStep ==
  ASSUME SessionInv, clearAllSessions
  PROVE  SessionInv'
<1>1. PICK m, ks, o, l : store = [map |-> m, keys |-> ks, order |-> o, lookups |-> l]
  BY DEF SessionInv, Agrees, IsStore
<1>2. store' = [map |-> <<>>, keys |-> <<>>, order |-> <<>>, lookups |-> l] /\ UNCHANGED now
  BY <1>1 DEF clearAllSessions, Called
<1>3. <<>> \in Seq(SessionIds) /\ ToSet(<<>>) = {} /\ Len(<<>>) = 0 /\ DOMAIN <<>> = {}
      /\ IsInjective(<<>>)
  BY EmptySeq, ToSetOfNothing DEF IsInjective
<1> QED BY <1>2, <1>3, SessionNumbers DEF SessionInv, Agrees, IsStore

(* The cleanup drops those that expired from map and order alike.           *)
LEMMA CleanupStep ==
  ASSUME SessionInv, cleanupExpiredSessions
  PROVE  SessionStep
<1> DEFINE live == Keep(store, Unexpired(store))
           n == (store.lookups + Len(store.keys)) % SweepEvery
           s == [live EXCEPT !.order = live.keys, !.lookups = n]
<1>1. store' = [live EXCEPT !.order = live.keys, !.lookups = (@ + Len(store.keys)) % SweepEvery]
      /\ UNCHANGED now
  BY DEF cleanupExpiredSessions, Called
<1>2. /\ Agrees(live) /\ DOMAIN live.map = DOMAIN store.map \cap Unexpired(store)
      /\ \A j \in DOMAIN store.map \cap Unexpired(store) : live.map[j] = store.map[j]
  BY KeepAgrees DEF SessionInv
<1> HIDE DEF live
<1>3. PICK m, ks, o, l : live = [map |-> m, keys |-> ks, order |-> o, lookups |-> l]
  BY <1>2 DEF Agrees, IsStore
<1>4. store' = [map |-> m, keys |-> ks, order |-> ks, lookups |-> (l + Len(store.keys)) % SweepEvery]
  BY <1>1, <1>3
<1>5. store'.map = live.map /\ store'.keys = live.keys /\ store'.order = live.keys /\ IsStore(store)'
  BY <1>3, <1>4 DEF IsStore
<1>6. Agrees(store)'
  BY <1>2, <1>5 DEF Agrees
<1>7. \A j \in DOMAIN store'.map : store'.map[j] \in SessionState
  BY <1>2, <1>5 DEF SessionInv
<1>8. \A j \in DOMAIN store.map : NothingLost(j)
  <2>1. \A j \in DOMAIN store.map : ~Expired(store.map[j]) => j \in Unexpired(store)
    BY DEF Unexpired
  <2> QED BY <1>2, <1>5, <2>1, UntouchedIsKept
<1> QED BY <1>1, <1>6, <1>7, <1>8 DEF SessionInv, SessionStep

(* The store is empty at first.                                             *)
LEMMA SessionInvInit == SessionInit /\ now = 0 => SessionInv
<1> SUFFICES ASSUME SessionInit, now = 0 PROVE SessionInv
  OBVIOUS
<1>1. store = [map |-> <<>>, keys |-> <<>>, order |-> <<>>, lookups |-> 0]
  BY DEF SessionInit
<1>2. <<>> \in Seq(SessionIds) /\ ToSet(<<>>) = {} /\ Len(<<>>) = 0 /\ DOMAIN <<>> = {}
      /\ IsInjective(<<>>)
  BY EmptySeq, ToSetOfNothing DEF IsInjective
<1>3. now \in Time
  BY SessionNumbers DEF Time
<1> QED BY <1>1, <1>2, <1>3, SessionNumbers DEF SessionInv, Agrees, IsStore

(* Every call does what it has to, and so does the clock.                   *)
LEMMA SessionNextStep ==
  ASSUME SessionInv, [SessionNext]_sessionVars
  PROVE  /\ SessionInv'
         /\ \A id \in DOMAIN store.map :
              \/ NothingLost(id)
              \/ resetSessionState(id) \/ clearAllSessions
<1>0. DOMAIN store.map \subseteq SessionIds
  BY AgreesDomain DEF SessionInv
<1>1. ASSUME NEW id \in SessionIds, NEW n \in 0 .. 2, updateSessionState(id, n) PROVE SessionStep
  BY <1>1, UpdateStep
<1>2. ASSUME NEW id \in SessionIds, NEW f \in Fragment, updateFragmentBuffer(id, f) PROVE SessionStep
  BY <1>2, FragmentStep
<1>3. ASSUME NEW id \in SessionIds, updateInstructionCount(id) PROVE SessionStep
  BY <1>3, InstructionStep
<1>4. ASSUME NEW id \in SessionIds, ReadSession(id) PROVE SessionStep
  BY <1>4, ReadStep
<1>5. ASSUME NEW id \in SessionIds, resetSessionState(id)
      PROVE  /\ SessionInv'
             /\ \A j \in DOMAIN store.map : NothingLost(j) \/ resetSessionState(j)
  <2>1. SessionInv'
    BY <1>5, ForgetSessionStep
  <2> DEFINE s == Keep(store, SessionIds \ {id})
  <2>2. store' = s
    BY <1>5 DEF resetSessionState, Called, Delete
  <2>3. /\ DOMAIN s.map = DOMAIN store.map \cap (SessionIds \ {id})
        /\ \A j \in DOMAIN store.map \cap (SessionIds \ {id}) : s.map[j] = store.map[j]
    BY KeepAgrees DEF SessionInv
  <2> HIDE DEF s
  <2>4. ASSUME NEW j \in DOMAIN store.map, j # id PROVE NothingLost(j)
    <3>1. j \in DOMAIN store'.map /\ store'.map[j] = store.map[j]
      BY <1>0, <2>2, <2>3, <2>4
    <3> QED BY <3>1, UntouchedIsKept
  <2> QED BY <1>5, <2>1, <2>4
<1>6. ASSUME clearAllSessions PROVE SessionInv'
  BY <1>6, ClearStep
<1>7. ASSUME cleanupExpiredSessions PROVE SessionStep
  BY <1>7, CleanupStep
<1>8. ASSUME SessionTick PROVE SessionStep
  <2>1. now' \in Time /\ store' = store
    BY <1>8, SessionNumbers DEF SessionTick, Advance, SessionInv, Time
  <2>2. \A j \in DOMAIN store.map : NothingLost(j)
    BY <2>1, UntouchedIsKept
  <2> QED BY <2>1, <2>2 DEF SessionInv, SessionStep, Agrees, IsStore
<1>9. ASSUME UNCHANGED sessionVars PROVE SessionStep
  <2>1. now' = now /\ store' = store
    BY <1>9 DEF sessionVars
  <2>2. \A j \in DOMAIN store.map : NothingLost(j)
    BY <2>1, UntouchedIsKept
  <2> QED BY <2>1, <2>2 DEF SessionInv, SessionStep, Agrees, IsStore
<1>10. CASE \E id \in SessionIds : resetSessionState(id)
  BY <1>5, <1>10
<1>11. CASE clearAllSessions
  BY <1>6, <1>11
<1>12. CASE SessionStep
  BY <1>12 DEF SessionStep
<1> QED BY <1>1, <1>2, <1>3, <1>4, <1>7, <1>8, <1>9, <1>10, <1>11, <1>12 DEF SessionNext

(* SessionTracker.ts:159-185: for any calls on any sessions and any limit,  *)
(* map, keys and order of use name the same sessions, each once, and no     *)
(* more than the limit; neither eviction, expiry nor reset leaves one       *)
(* without the others.                                                      *)
THEOREM StoreAlwaysAgrees == SessionSpec => []StoreAgrees
<1>1. SessionInv /\ [SessionNext]_sessionVars => SessionInv'
  BY SessionNextStep
<1>2. SessionInv => StoreAgrees
  BY AgreesDomain DEF SessionInv, StoreAgrees, Agrees
<1> QED BY <1>1, <1>2, SessionInvInit, PTL DEF SessionSpec

(* SessionTracker.ts:242-264: for any timeout, limits and sweeps, and any   *)
(* calls on any conversations, a step takes no more of what is held against *)
(* a conversation than one decay over the silence so far, and forgets it    *)
(* whole only past the timeout, by a reset, or in a full store for a new    *)
(* conversation.                                                            *)
THEOREM OneDecayAStep == SessionSpec => FadesOnlyInSilence
<1>1. SessionInv /\ [SessionNext]_sessionVars => SessionInv'
  BY SessionNextStep
<1> DEFINE Fades ==
  \A id \in DOMAIN store.map :
       LET old == store.map[id]
           e == Since(old.updated)
           kept == /\ Has(store', id)
                   /\ store'.map[id].weight >= old.weight \div Power(2, e)
                   /\ store'.map[id].repeats >= (old.repeats * Power(7, e)) \div Power(10, e)
       IN \/ kept
          \/ Expired(old)
          \/ resetSessionState(id) \/ clearAllSessions
          \/ /\ Len(store.keys) = MaxSessions
             /\ ~Has(store', id)
             /\ DOMAIN store'.map \ DOMAIN store.map # {}
<1>2. SessionInv /\ [SessionNext]_sessionVars => Fades
  BY SessionNextStep DEF NothingLost, KeepsShare
<1>3. FadesOnlyInSilence <=> [][Fades]_sessionVars
  BY DEF FadesOnlyInSilence
<1> HIDE DEF Fades
<1> QED BY <1>1, <1>2, <1>3, SessionInvInit, PTL DEF SessionSpec

-------------------------------------------------------------------------------
(***************************************************************************)
(* Override tokens.                                                        *)
(***************************************************************************)
(* The type invariant.                                                      *)
TokenTypeOK ==
  /\ now \in Nat
  /\ stamp \in [Tokens -> Nat]
  /\ uses \in [Tokens -> Nat] /\ firstUse \in [Tokens -> Nat]
  /\ replayCache \in [Remembered -> Nat]

(* A token that was made before its first use is used up: the cache knows   *)
(* it, or its time is over.                                                 *)
UsedUp(t) ==
  /\ uses[t] = 1
  /\ \/ t \in Remembered /\ replayCache[t] = firstUse[t]
     \/ stamp[t] + TokenLifetime < now

(* A token that has been used is remembered, or too old by now.             *)
UsedOnceBeforeEdge == \A t \in Tokens : uses[t] > 0 => stamp[t] >= firstUse[t] \/ UsedUp(t)

(* The inductive invariant.                                                 *)
TokenInv == TokenTypeOK /\ UsedOnceBeforeEdge

(* At first no token has been used.                                         *)
LEMMA TokenInvInit == TokenInit /\ now = 0 => TokenInv
<1> SUFFICES ASSUME TokenInit, now = 0 PROVE TokenInv
  OBVIOUS
<1>1. 0 .. MaxStamp \subseteq Nat
  BY TokenAssumption DEF TokenAssumption
<1>2. stamp \in [Tokens -> Nat]
  BY <1>1 DEF TokenInit
<1>3. replayCache \in [Remembered -> Nat]
  BY DEF TokenInit, Remembered
<1> QED BY <1>2, <1>3 DEF TokenInit, TokenInv, TokenTypeOK, UsedOnceBeforeEdge, Unused

(* A cache that loses only what has outlived its lifetime.                  *)
LEMMA ForgettingIsLate ==
  ASSUME TokenInv, NEW S \in SUBSET Remembered, replayCache' = OnlyThose(S),
         \A t \in Remembered \ S : replayCache[t] + TokenLifetime <= now,
         UNCHANGED <<stamp, uses, firstUse, now>>
  PROVE  TokenInv'
<1>1. TokenLifetime \in Nat
  BY TokenAssumption DEF TokenAssumption
<1>2. Remembered' = S /\ \A t \in S : replayCache'[t] = replayCache[t]
  BY DEF Remembered, OnlyThose
<1>3. TokenTypeOK'
  BY <1>2 DEF TokenInv, TokenTypeOK, OnlyThose, Remembered
<1>4. ASSUME NEW t \in Tokens, uses[t] > 0 PROVE stamp[t] >= firstUse[t] \/ UsedUp(t)'
  <2>1. stamp[t] \in Nat /\ firstUse[t] \in Nat /\ now \in Nat
    BY DEF TokenInv, TokenTypeOK
  <2>2. CASE t \in Remembered \ S
    BY <1>1, <1>4, <2>1, <2>2 DEF TokenInv, UsedOnceBeforeEdge, UsedUp
  <2>3. CASE t \notin Remembered \ S
    BY <1>2, <1>4, <2>3 DEF TokenInv, UsedOnceBeforeEdge, UsedUp
  <2> QED BY <2>2, <2>3
<1> QED BY <1>3, <1>4 DEF TokenInv, UsedOnceBeforeEdge

(* Using a token.                                                           *)
LEMMA MarkTokenUsedStep ==
  ASSUME TokenInv, NEW t \in Tokens, Acceptable(t), MarkTokenUsed(t), UNCHANGED <<stamp, now>>
  PROVE  TokenInv'
<1>1. TokenLifetime \in Nat
  BY TokenAssumption DEF TokenAssumption
<1>2. /\ ActiveEntries \in SUBSET Remembered
      /\ \A u \in Remembered \ ActiveEntries : replayCache[u] + TokenLifetime <= now
  BY <1>1 DEF ActiveEntries, TokenInv, TokenTypeOK
<1>3. CASE replayCache' = OnlyThose(ActiveEntries) /\ UNCHANGED <<uses, firstUse>>
  BY <1>2, <1>3, ForgettingIsLate
<1>4. CASE /\ replayCache' = [u \in ActiveEntries \cup {t} |->
                                IF u = t THEN now ELSE replayCache[u]]
           /\ uses' = [uses EXCEPT ![t] = @ + 1]
           /\ firstUse' = IF uses[t] = 0 THEN [firstUse EXCEPT ![t] = now] ELSE firstUse
  <2>1. Remembered' = ActiveEntries \cup {t}
    BY <1>4 DEF Remembered
  <2>2. TokenTypeOK'
    BY <1>2, <1>4, <2>1 DEF TokenInv, TokenTypeOK
  <2>3. ASSUME NEW u \in Tokens, uses'[u] > 0 PROVE stamp[u] >= firstUse'[u] \/ UsedUp(u)'
    <3>1. /\ stamp[u] \in Nat /\ firstUse[u] \in Nat /\ now \in Nat /\ uses[u] \in Nat
          /\ stamp' = stamp /\ now' = now
      BY DEF TokenInv, TokenTypeOK
    <3>2. CASE u = t /\ uses[t] = 0
      BY <1>4, <2>1, <3>1, <3>2 DEF UsedUp, TokenInv, TokenTypeOK
    <3>3. CASE u = t /\ uses[t] # 0
      <4>1. stamp[t] >= firstUse[t] \/ UsedUp(t)
        BY <3>1, <3>3 DEF TokenInv, UsedOnceBeforeEdge
      <4>2. ~UsedUp(t)
        BY <1>1, <3>1, <3>3 DEF UsedUp, Acceptable
      <4> QED BY <1>4, <3>3, <4>1, <4>2
    <3>4. CASE u # t
      <4>1. uses'[u] = uses[u] /\ firstUse'[u] = firstUse[u]
        BY <1>4, <3>4 DEF TokenInv, TokenTypeOK
      <4>2. stamp[u] >= firstUse[u] \/ UsedUp(u)
        BY <2>3, <4>1 DEF TokenInv, UsedOnceBeforeEdge
      <4>3. CASE u \in Remembered \ ActiveEntries
        BY <1>1, <1>2, <3>1, <4>1, <4>2, <4>3 DEF UsedUp
      <4>4. CASE u \notin Remembered \ ActiveEntries
        BY <1>4, <2>1, <3>1, <3>4, <4>1, <4>2, <4>4 DEF UsedUp
      <4> QED BY <4>3, <4>4
    <3> QED BY <3>2, <3>3, <3>4
  <2> QED BY <2>2, <2>3 DEF TokenInv, UsedOnceBeforeEdge
<1> QED BY <1>3, <1>4 DEF MarkTokenUsed

(* Every step keeps the invariant.                                          *)
LEMMA TokenInvStep == TokenInv /\ [TokenNext]_tokenVars => TokenInv'
<1> SUFFICES ASSUME TokenInv, [TokenNext]_tokenVars PROVE TokenInv'
  OBVIOUS
<1>0. TokenLifetime \in Nat
  BY TokenAssumption DEF TokenAssumption
<1>1. ASSUME NEW t \in Tokens, NEW u \in Tokens, ValidateContent(<<t, u>>) PROVE TokenInv'
  <2>1. PICK i \in 1 .. Len(<<t, u>>) :
          Acceptable(<<t, u>>[i]) /\ MarkTokenUsed(<<t, u>>[i]) /\ UNCHANGED <<stamp, signed, now>>
    BY <1>1 DEF ValidateContent
  <2>2. <<t, u>>[i] \in Tokens
    OBVIOUS
  <2> QED BY <2>1, <2>2, MarkTokenUsedStep
<1>2. CASE CleanupReplayCache
  <2> DEFINE S == {t \in Remembered : replayCache[t] >= now - 2 * TokenLifetime}
  <2>1. S \in SUBSET Remembered /\ replayCache' = OnlyThose(S)
        /\ UNCHANGED <<stamp, uses, firstUse, now>>
    BY <1>2 DEF CleanupReplayCache
  <2>2. \A t \in Remembered \ S : replayCache[t] + TokenLifetime <= now
    BY <1>0 DEF TokenInv, TokenTypeOK
  <2> HIDE DEF S
  <2> QED BY <2>1, <2>2, ForgettingIsLate
<1>3. CASE ClearReplayCache
  <2>1. /\ replayCache' = OnlyThose({}) /\ uses' = Unused /\ firstUse' = Unused
        /\ UNCHANGED <<stamp, now>>
    BY <1>3 DEF ClearReplayCache
  <2>2. replayCache' \in [Remembered' -> Nat]
    BY <2>1 DEF OnlyThose, Remembered
  <2>3. \A t \in Tokens : uses'[t] = 0
    BY <2>1 DEF Unused
  <2>4. TokenTypeOK'
    BY <2>1, <2>2 DEF TokenInv, TokenTypeOK, Unused
  <2> QED BY <2>3, <2>4 DEF TokenInv, UsedOnceBeforeEdge
<1>4. CASE TokenTick
  <2>1. now' = now + 1 /\ UNCHANGED <<stamp, signed, replayCache, uses, firstUse>>
    BY <1>4 DEF TokenTick, Advance
  <2>2. TokenTypeOK'
    BY <2>1 DEF TokenInv, TokenTypeOK, Remembered
  <2>3. \A t \in Tokens : UsedUp(t) => UsedUp(t)'
    BY <1>0, <2>1 DEF TokenInv, TokenTypeOK, UsedUp, Remembered
  <2> QED BY <2>1, <2>2, <2>3 DEF TokenInv, UsedOnceBeforeEdge
<1>5. CASE UNCHANGED tokenVars
  BY <1>5 DEF tokenVars, TokenInv, TokenTypeOK, UsedOnceBeforeEdge, UsedUp, Remembered
<1> QED BY <1>1, <1>2, <1>3, <1>4, <1>5 DEF TokenNext

(* A token that was used again was used at the edge.                        *)
LEMMA TokenInvSuffices == TokenInv => AcceptedTwiceOnlyAtEdge
BY DEF TokenInv, TokenTypeOK, UsedOnceBeforeEdge, UsedUp, AcceptedTwiceOnlyAtEdge

(* override-token.ts:268-274: for any tokens, lifetime, skew, size of the   *)
(* replay cache and order of presenting, sweeping and clearing, a token     *)
(* that is accepted a second time bears a stamp that is not before its      *)
(* first use.  No entry is forgotten while its token could still be used,   *)
(* but for those.                                                           *)
THEOREM TokensAreUsedOnce == TokenSpec => []AcceptedTwiceOnlyAtEdge
<1>1. TokenInit /\ now = 0 => TokenInv
  BY TokenInvInit
<1>2. TokenInv /\ [TokenNext]_tokenVars => TokenInv'
  BY TokenInvStep
<1>3. TokenInv => AcceptedTwiceOnlyAtEdge
  BY TokenInvSuffices
<1> QED BY <1>1, <1>2, <1>3, PTL DEF TokenSpec

-------------------------------------------------------------------------------
(***************************************************************************)
(* The rate limiter.  Its window is a fixed one, so what a sliding window  *)
(* sees is covered by two of them: the lemmas on filters count the         *)
(* requests in each.                                                       *)
(***************************************************************************)
(* The instants from one on, those between two, and what a window still     *)
(* sees.                                                                    *)
From(a) == {t \in Time : t >= a}

(* The instants between two.                                                *)
Between(a, b) == {t \in Time : a < t /\ t < b}

(* The entries of a window that ends at n.                                  *)
RecentAt(s, n) == Filter(s, {t \in Time : t >= n - WindowTicks})

(* An entry fits the history of its key: its window began at an instant of  *)
(* the past, it let no more than the limit through since, nor in the span   *)
(* before, and it remembers all of it that a window can still see.          *)
Fits(e, s, n) ==
  /\ e \in [timestamps : Seq(Time), windowStart : Time] /\ e.windowStart <= n
  /\ \A t \in ToSet(s) : t < e.windowStart + WindowTicks
  /\ Len(Filter(s, From(e.windowStart))) <= MaxPerWindow
  /\ Len(Filter(s, Between(e.windowStart - WindowTicks, e.windowStart))) <= MaxPerWindow
  /\ RecentAt(e.timestamps, n) = RecentAt(Filter(s, From(e.windowStart)), n)

(* The window began with a request that was allowed.                        *)
Started(e, s) == MaxPerWindow = 0 \/ e.windowStart \in ToSet(s)

(* Nothing was allowed for so long that no window can hold it.              *)
LongAgo(s, n) == \A t \in ToSet(s) : t + WindowTicks < n

(* All entries fit, and the keys without one were allowed nothing of late.  *)
EntriesFit(es, n) ==
  /\ DOMAIN es \subseteq Keys
  /\ \A k \in DOMAIN es : Fits(es[k], allowedAt[k], n) /\ Started(es[k], allowedAt[k])
  /\ \A k \in Keys \ DOMAIN es : LongAgo(allowedAt[k], n)

(* The inductive invariant.  AtMostTwiceTheLimit alone is not inductive: it *)
(* does not say what of the history is still in the entries.                *)
RateInv ==
  /\ now \in Time /\ allowedAt \in [Keys -> Seq(Time)]
  /\ \A k \in Keys : /\ \A t \in ToSet(allowedAt[k]) : t <= now
                     /\ MaxPerWindow = 0 => allowedAt[k] = <<>>
  /\ EntriesFit(entries, now)

(* The numbers of the limiter are naturals.                                 *)
LEMMA RateNumbers ==
  /\ MaxPerWindow \in Nat /\ WindowTicks \in Nat \ {0} /\ MaxTime \in Nat
  /\ \A t \in Time : t \in Nat
BY RateAssumption, ClockAssumption DEF RateAssumption, Time

(* What is recent later is recent among what was recent.                    *)
LEMMA RecentLater ==
  ASSUME NEW s \in Seq(Time), NEW n \in Time, NEW m \in Time, n <= m
  PROVE  RecentAt(RecentAt(s, n), m) = RecentAt(s, m)
<1> DEFINE A == {t \in Time : t >= n - WindowTicks}
           B == {t \in Time : t >= m - WindowTicks}
<1>1. \A x \in Time : x \in B <=> x \in A /\ x \in B
  BY RateNumbers
<1> HIDE DEF A, B
<1>2. Filter(Filter(s, A), B) = Filter(s, B)
  BY <1>1, FilterTwice
<1> QED BY <1>2 DEF A, B, RecentAt

(* What is recent is a sequence of instants.                                *)
LEMMA RecentType ==
  ASSUME NEW s \in Seq(Time), NEW n
  PROVE  /\ RecentAt(s, n) \in Seq(Time) /\ Len(RecentAt(s, n)) <= Len(s)
         /\ ToSet(RecentAt(s, n)) = {t \in ToSet(s) : t \in Time /\ t >= n - WindowTicks}
<1> DEFINE A == {t \in Time : t >= n - WindowTicks}
<1>1. /\ Filter(s, A) \in Seq(Time) /\ Len(Filter(s, A)) <= Len(s)
      /\ ToSet(Filter(s, A)) = ToSet(s) \cap A
  BY FilterFacts
<1>2. RecentAt(s, n) = Filter(s, A)
  BY DEF RecentAt
<1> QED BY <1>1, <1>2

(* Time passes.                                                             *)
LEMMA FitsLater ==
  ASSUME NEW e, NEW s \in Seq(Time), NEW n \in Time, NEW m \in Time, n <= m, Fits(e, s, n)
  PROVE  Fits(e, s, m)
<1>1. e.timestamps \in Seq(Time) /\ e.windowStart \in Time /\ e.windowStart <= m
  BY RateNumbers DEF Fits
<1>2. Filter(s, From(e.windowStart)) \in Seq(Time)
  BY FilterFacts
<1>3. RecentAt(e.timestamps, m) = RecentAt(Filter(s, From(e.windowStart)), m)
  BY <1>1, <1>2, RecentLater DEF Fits
<1> QED BY <1>1, <1>3 DEF Fits

(* A request allowed now is recent, and in the window.                      *)
LEMMA RecentAllowed ==
  ASSUME NEW s \in Seq(Time), NEW a, NEW n
  PROVE  /\ Filter(s, From(a)) \in Seq(Time)
         /\ \A t \in ToSet(s) : t \in Time
         /\ \A t : t \in ToSet(RecentAt(Filter(s, From(a)), n)) <=>
                     t \in ToSet(s) /\ t >= a /\ t >= n - WindowTicks
<1>1. Filter(s, From(a)) \in Seq(Time) /\ ToSet(Filter(s, From(a))) = ToSet(s) \cap From(a)
  BY FilterFacts
<1>2. \A t \in ToSet(s) : t \in Time
  BY ToSetType
<1>3. ToSet(RecentAt(Filter(s, From(a)), n)) =
        {t \in ToSet(Filter(s, From(a))) : t \in Time /\ t >= n - WindowTicks}
  BY <1>1, RecentType
<1> QED BY <1>1, <1>2, <1>3 DEF From

(* The clean-up.                                                            *)
LEMMA PurgeFits ==
  ASSUME RateInv
  PROVE  EntriesFit(Purged(entries), now)
<1> DEFINE n == now
           p == Purged(entries)
<1>1. /\ \A k \in DOMAIN p : k \in DOMAIN entries /\ k \in Keys
      /\ \A k \in DOMAIN p : p[k] = [entries[k] EXCEPT !.timestamps = RecentAt(@, n)]
      /\ \A k \in DOMAIN entries \ DOMAIN p : RecentAt(entries[k].timestamps, n) = <<>>
  BY DEF Purged, Recent, RecentAt, RateInv, EntriesFit
<1>2. ASSUME NEW k \in DOMAIN p PROVE Fits(p[k], allowedAt[k], n) /\ Started(p[k], allowedAt[k])
  <2> DEFINE e == entries[k]
  <2>1. Fits(e, allowedAt[k], n) /\ Started(e, allowedAt[k]) /\ n \in Time
    BY <1>1 DEF RateInv, EntriesFit
  <2>2. p[k] = [e EXCEPT !.timestamps = RecentAt(@, n)]
    BY <1>1
  <2> HIDE DEF e, p, n
  <2>3. e.timestamps \in Seq(Time)
    BY <2>1 DEF Fits
  <2>4. RecentAt(e.timestamps, n) \in Seq(Time)
    BY <2>3, RecentType
  <2>5. RecentAt(RecentAt(e.timestamps, n), n) = RecentAt(e.timestamps, n)
    <3>1. n <= n
      BY <2>1, RateNumbers
    <3> QED BY <2>1, <2>3, <3>1, RecentLater
  <2>6. /\ p[k] \in [timestamps : Seq(Time), windowStart : Time]
        /\ p[k].windowStart = e.windowStart /\ p[k].timestamps = RecentAt(e.timestamps, n)
    BY <2>1, <2>2, <2>4 DEF Fits
  <2> QED BY <2>1, <2>5, <2>6 DEF Fits, Started
<1>3. ASSUME NEW k \in Keys, k \notin DOMAIN p PROVE LongAgo(allowedAt[k], n)
  <2> DEFINE e == entries[k]
             s == allowedAt[k]
  <2>1. CASE k \notin DOMAIN entries
    BY <2>1 DEF RateInv, EntriesFit
  <2>2. CASE k \in DOMAIN entries
    <3>1. /\ Fits(e, s, n) /\ Started(e, s) /\ n \in Time /\ s \in Seq(Time)
          /\ RecentAt(e.timestamps, n) = <<>>
      BY <1>1, <1>3, <2>2 DEF RateInv, EntriesFit
    <3> HIDE DEF e, s, p, n
    <3>2. RecentAt(Filter(s, From(e.windowStart)), n) = <<>> /\ e.windowStart \in Time
      BY <3>1 DEF Fits
    <3>3. \A t \in ToSet(s) : t \in Time /\ ~ (t >= e.windowStart /\ t >= n - WindowTicks)
      BY <3>1, <3>2, RecentAllowed, ToSetOfNothing
    <3>4. ToSet(s) # {} => e.windowStart \in ToSet(s)
      <4>1. MaxPerWindow = 0 => s = <<>>
        BY DEF RateInv, s
      <4> QED BY <3>1, <4>1, ToSetOfNothing DEF Started
    <3>5. ASSUME NEW t \in ToSet(s) PROVE t + WindowTicks < n
      <4>1. e.windowStart \in ToSet(s)
        BY <3>4
      <4>2. t \in Nat /\ n \in Nat /\ e.windowStart \in Nat /\ WindowTicks \in Nat
        BY <3>1, <3>2, <3>3, RateNumbers
      <4> QED BY <3>3, <4>1, <4>2
    <3> QED BY <3>5 DEF LongAgo, s
  <2> QED BY <2>1, <2>2
<1> QED BY <1>1, <1>2, <1>3 DEF EntriesFit

(* A window that starts when nothing of the last window's span is left over *)
(* the limit.                                                               *)
LEMMA FreshFits ==
  ASSUME NEW n \in Time, NEW s \in Seq(Time), \A t \in ToSet(s) : t < n,
         Len(Filter(s, Between(n - WindowTicks, n))) <= MaxPerWindow
  PROVE  /\ Fits([timestamps |-> <<>>, windowStart |-> n], s, n)
         /\ Filter(s, From(n)) = <<>>
<1>1. \A t \in ToSet(s) : t \in Time /\ t \in Nat
  BY ToSetType, RateNumbers
<1>2. Filter(s, From(n)) = <<>>
  <2>1. \A t \in ToSet(s) : t \notin From(n)
    BY <1>1, RateNumbers DEF From
  <2> QED BY <2>1, FilterNone
<1>3. \A t \in ToSet(s) : t < n + WindowTicks
  BY <1>1, RateNumbers
<1>4. /\ <<>> \in Seq(Time) /\ Len(<<>>) <= MaxPerWindow /\ n <= n
  BY RateNumbers, EmptySeq
<1> QED BY <1>2, <1>3, <1>4 DEF Fits

(* The window a request finds.                                              *)
LEMMA CurrentFits ==
  ASSUME now \in Time, NEW e, NEW s \in Seq(Time), Fits(e, s, now),
         \A t \in ToSet(s) : t <= now
  PROVE  LET c == CurrentWindow(e)
         IN /\ Fits(c, s, now) /\ now - c.windowStart < WindowTicks
            /\ Len(Filter(s, From(c.windowStart))) <= Len(c.timestamps)
            /\ c.windowStart = e.windowStart \/ c = [timestamps |-> <<>>, windowStart |-> now]
<1> DEFINE n == now
           ws == e.windowStart
           c == CurrentWindow(e)
           f == Filter(s, From(ws))
<1>0. /\ n \in Nat /\ ws \in Nat /\ WindowTicks \in Nat \ {0} /\ MaxPerWindow \in Nat
      /\ ws <= n /\ e.timestamps \in Seq(Time) /\ f \in Seq(Time)
      /\ \A t \in ToSet(s) : t \in Time /\ t \in Nat
      /\ e \in [timestamps : Seq(Time), windowStart : Time]
  <2>1. f \in Seq(Time) /\ \A t \in ToSet(s) : t \in Time
    BY FilterFacts, ToSetType
  <2> QED BY <2>1, RateNumbers DEF Fits
<1>1. CASE n - ws >= WindowTicks
  <2>1. c = [timestamps |-> <<>>, windowStart |-> n]
    BY <1>1 DEF CurrentWindow
  <2>2. \A t \in ToSet(s) : t < n
    BY <1>0, <1>1 DEF Fits
  <2>3. Len(Filter(s, Between(n - WindowTicks, n))) <= MaxPerWindow
    <3> DEFINE A == Between(n - WindowTicks, n)
               B == From(ws)
    <3>1. \A x \in Time : x \in A => x \in B
      BY <1>0, <1>1, RateNumbers DEF Between, From
    <3>2. Filter(s, A) \in Seq(Time) /\ Filter(s, B) \in Seq(Time)
      BY FilterFacts
    <3>3. Len(Filter(s, B)) <= MaxPerWindow
      BY DEF Fits
    <3> HIDE DEF A, B
    <3>4. Len(Filter(s, A)) <= Len(Filter(s, B))
      BY <3>1, FilterShorter
    <3>5. Len(Filter(s, A)) \in Nat /\ Len(Filter(s, B)) \in Nat
      BY <3>2, LenProperties
    <3> QED BY <1>0, <3>3, <3>4, <3>5 DEF A
  <2> HIDE DEF c
  <2>4. Fits([timestamps |-> <<>>, windowStart |-> n], s, n) /\ Filter(s, From(n)) = <<>>
    BY <2>2, <2>3, FreshFits
  <2>5. n - n < WindowTicks /\ Len(Filter(s, From(n))) <= Len(<<>>)
    BY <1>0, <2>4
  <2> QED BY <2>1, <2>4, <2>5 DEF c
<1>2. CASE ~ (n - ws >= WindowTicks)
  <2>1. c = [e EXCEPT !.timestamps = RecentAt(@, n)] \/ c = e
    BY <1>2 DEF CurrentWindow, Recent, RecentAt
  <2>2. RecentAt(e.timestamps, n) \in Seq(Time)
        /\ Len(RecentAt(e.timestamps, n)) <= Len(e.timestamps)
        /\ Len(e.timestamps) \in Nat /\ Len(RecentAt(e.timestamps, n)) \in Nat
    BY <1>0, RecentType, LenProperties
  <2>3. RecentAt(RecentAt(e.timestamps, n), n) = RecentAt(e.timestamps, n)
    <3>1. n <= n
      BY <1>0
    <3> QED BY <1>0, <3>1, RecentLater
  <2>4. RecentAt(f, n) = f
    <3> DEFINE A == {t \in Time : t >= n - WindowTicks}
    <3>1. \A x \in Time : x \in From(ws) <=> x \in From(ws) /\ x \in A
      BY <1>0, <1>2, RateNumbers DEF From
    <3> HIDE DEF A
    <3>2. Filter(Filter(s, From(ws)), A) = Filter(s, From(ws))
      BY <3>1, FilterTwice
    <3> QED BY <3>2 DEF A, RecentAt
  <2>5. RecentAt(e.timestamps, n) = f
    BY <2>4 DEF Fits
  <2>6. Len(f) <= Len(e.timestamps) /\ Len(f) <= Len(f)
    BY <2>2, <2>5
  <2>7. n - ws < WindowTicks
    BY <1>0, <1>2
  <2>8. CASE c = e
    <3> HIDE DEF c
    <3> QED BY <2>6, <2>7, <2>8 DEF c
  <2>9. CASE c = [e EXCEPT !.timestamps = RecentAt(@, n)]
    <3> HIDE DEF c
    <3>1. c.windowStart = ws /\ c.timestamps = RecentAt(e.timestamps, n)
          /\ c \in [timestamps : Seq(Time), windowStart : Time]
      BY <1>0, <2>2, <2>9
    <3>2. Fits(c, s, n)
      BY <2>3, <3>1 DEF Fits
    <3>3. Len(Filter(s, From(c.windowStart))) <= Len(c.timestamps)
      BY <2>5, <2>6, <3>1
    <3> QED BY <2>7, <3>1, <3>2, <3>3 DEF c
  <2> QED BY <2>1, <2>8, <2>9
<1> QED BY <1>1, <1>2

(* A request that is allowed.                                               *)
LEMMA CountedFits ==
  ASSUME NEW n \in Time, NEW c, NEW s \in Seq(Time), Fits(c, s, n),
         n - c.windowStart < WindowTicks, Len(c.timestamps) < MaxPerWindow,
         Len(Filter(s, From(c.windowStart))) <= Len(c.timestamps)
  PROVE  Fits([c EXCEPT !.timestamps = Append(@, n)], Append(s, n), n)
<1> DEFINE ws == c.windowStart
           A == From(ws)
           B == Between(ws - WindowTicks, ws)
           R == {t \in Time : t >= n - WindowTicks}
           d == [c EXCEPT !.timestamps = Append(@, n)]
           s2 == Append(s, n)
<1>0. /\ n \in Nat /\ ws \in Nat /\ WindowTicks \in Nat \ {0} /\ MaxPerWindow \in Nat /\ ws <= n
      /\ c \in [timestamps : Seq(Time), windowStart : Time] /\ c.timestamps \in Seq(Time)
  BY RateNumbers DEF Fits
<1>1. n \in A /\ n \notin B /\ n \in R
  BY <1>0 DEF From, Between
<1>2. /\ Append(c.timestamps, n) \in Seq(Time) /\ d \in [timestamps : Seq(Time), windowStart : Time]
      /\ d.timestamps = Append(c.timestamps, n) /\ d.windowStart = ws
  BY <1>0, AppendProperties
<1>3. ToSet(s2) = ToSet(s) \cup {n}
  BY ToSetAppend
<1>4. \A t \in ToSet(s2) : t < ws + WindowTicks
  BY <1>0, <1>3 DEF Fits
<1>5. Filter(s2, A) = Append(Filter(s, A), n) /\ Filter(s2, B) = Filter(s, B)
  BY <1>1, FilterAppend
<1>6. Filter(s, A) \in Seq(Time)
  BY FilterFacts
<1>7. Len(Filter(s2, A)) <= MaxPerWindow
  <2>1. Len(Append(Filter(s, A), n)) = Len(Filter(s, A)) + 1 /\ Len(Filter(s, A)) \in Nat
        /\ Len(c.timestamps) \in Nat
    BY <1>0, <1>6, AppendProperties, LenProperties
  <2> HIDE DEF A
  <2>2. Len(Filter(s, A)) + 1 <= MaxPerWindow
    BY <1>0, <2>1 DEF A
  <2> QED BY <1>5, <2>1, <2>2
<1>8. RecentAt(d.timestamps, n) = RecentAt(Filter(s2, A), n)
  <2> DEFINE f == Filter(s, A)
             g == c.timestamps
  <2>0. f \in Seq(Time) /\ g \in Seq(Time)
    BY <1>0, <1>6
  <2> HIDE DEF R, f, g
  <2>1. /\ Filter(Append(g, n), R) = Append(Filter(g, R), n)
        /\ Filter(Append(f, n), R) = Append(Filter(f, R), n)
    BY <1>1, <2>0, FilterAppend
  <2>2. Filter(g, R) = Filter(f, R)
    BY DEF Fits, RecentAt, R, f, g
  <2> QED BY <1>2, <1>5, <2>1, <2>2 DEF RecentAt, R, f, g
<1> HIDE DEF d, s2
<1>9. Fits(d, s2, n)
  BY <1>0, <1>2, <1>4, <1>5, <1>7, <1>8 DEF Fits
<1> QED BY <1>9 DEF d, s2

(* No key has an entry, and none was allowed anything.                      *)
LEMMA RateInvInit == RateInit /\ now = 0 => RateInv
<1> SUFFICES ASSUME RateInit, now = 0 PROVE RateInv
  OBVIOUS
<1>1. now \in Time
  BY RateNumbers DEF Time
<1>2. <<>> \in Seq(Time) /\ \A k \in Keys : allowedAt[k] = <<>>
  BY EmptySeq DEF RateInit
<1>3. allowedAt \in [Keys -> Seq(Time)]
  BY <1>2 DEF RateInit
<1>4. \A k \in Keys : ToSet(allowedAt[k]) = {}
  BY <1>2, ToSetOfNothing
<1>5. DOMAIN entries = {}
  BY DEF RateInit
<1>6. EntriesFit(entries, now)
  BY <1>4, <1>5 DEF EntriesFit, LongAgo
<1> QED BY <1>1, <1>2, <1>3, <1>4, <1>6 DEF RateInv

(* checkLimit keeps the invariant, whether it allows, refuses or begins a   *)
(* window, and with the purge that some calls do first.                     *)
LEMMA CheckLimitStep ==
  ASSUME RateInv, NEW k \in Keys, checkLimit(k)
  PROVE  RateInv'
<1> DEFINE n == now
           s == allowedAt[k]
           known == IF checks + 1 >= PurgeEvery THEN Purged(entries) ELSE entries
           found == IF k \in DOMAIN known THEN known[k]
                    ELSE [timestamps |-> <<>>, windowStart |-> now]
           entry == CurrentWindow(found)
           allowed == Len(entry.timestamps) < MaxPerWindow
           counted == IF allowed THEN [entry EXCEPT !.timestamps = Append(@, now)] ELSE entry
<1>1. /\ entries' = [j \in DOMAIN known \cup {k} |-> IF j = k THEN counted ELSE known[j]]
      /\ allowedAt' = IF allowed THEN [allowedAt EXCEPT ![k] = Append(@, now)] ELSE allowedAt
      /\ now' = n
  BY DEF checkLimit
<1>2. EntriesFit(known, n)
  BY PurgeFits DEF RateInv
<1>3. /\ n \in Time /\ s \in Seq(Time) /\ \A t \in ToSet(s) : t <= n
      /\ MaxPerWindow = 0 => s = <<>>
      /\ allowedAt \in [Keys -> Seq(Time)]
  BY DEF RateInv
<1>4. n \in Nat /\ WindowTicks \in Nat \ {0} /\ MaxPerWindow \in Nat
  BY <1>3, RateNumbers
<1> HIDE DEF known, n, s
<1>5. Fits(found, s, n) /\ (Started(found, s) \/ found = [timestamps |-> <<>>, windowStart |-> n])
  <2>1. CASE k \in DOMAIN known
    BY <1>2, <2>1 DEF EntriesFit, s
  <2>2. CASE k \notin DOMAIN known
    <3>1. LongAgo(s, n)
      BY <1>2, <2>2 DEF EntriesFit, s
    <3>2. \A t \in ToSet(s) : t \in Nat /\ t < n /\ ~ (n - WindowTicks < t)
      <4>1. \A t \in ToSet(s) : t \in Nat
        BY <1>3, ToSetType, RateNumbers
      <4> QED BY <1>4, <3>1, <4>1 DEF LongAgo
    <3>3. Filter(s, Between(n - WindowTicks, n)) = <<>>
      <4>1. \A t \in ToSet(s) : t \notin Between(n - WindowTicks, n)
        BY <3>2 DEF Between
      <4> QED BY <1>3, <4>1, FilterNone
    <3>4. Len(Filter(s, Between(n - WindowTicks, n))) <= MaxPerWindow
      BY <1>4, <3>3
    <3>5. Fits([timestamps |-> <<>>, windowStart |-> n], s, n)
      BY <1>3, <3>2, <3>4, FreshFits
    <3> QED BY <2>2, <3>5 DEF n
  <2> QED BY <2>1, <2>2
<1> HIDE DEF found
<1>6. /\ Fits(entry, s, n) /\ n - entry.windowStart < WindowTicks
      /\ Len(Filter(s, From(entry.windowStart))) <= Len(entry.timestamps)
      /\ entry.windowStart = found.windowStart \/ entry = [timestamps |-> <<>>, windowStart |-> n]
  BY <1>3, <1>5, CurrentFits DEF n
<1>7. Started(entry, s) \/ entry = [timestamps |-> <<>>, windowStart |-> n]
  <2>1. CASE Started(found, s)
    BY <1>6, <2>1 DEF Started
  <2>2. CASE found = [timestamps |-> <<>>, windowStart |-> n]
    BY <1>4, <2>2 DEF CurrentWindow, n
  <2> QED BY <1>5, <2>1, <2>2
<1> HIDE DEF entry
<1>8. /\ Fits(counted, allowedAt'[k], n) /\ Started(counted, allowedAt'[k])
      /\ \A t \in ToSet(allowedAt'[k]) : t <= n
      /\ MaxPerWindow = 0 => allowedAt'[k] = <<>>
      /\ allowedAt' \in [Keys -> Seq(Time)]
      /\ \A j \in Keys \ {k} : allowedAt'[j] = allowedAt[j]
  <2>0. entry.timestamps \in Seq(Time) /\ Len(entry.timestamps) \in Nat
    BY <1>6, LenProperties DEF Fits
  <2>1. CASE ~ allowed
    <3>1. counted = entry /\ allowedAt' = allowedAt
      BY <1>1, <2>1
    <3>2. ASSUME entry = [timestamps |-> <<>>, windowStart |-> n] PROVE MaxPerWindow = 0
      <4>1. Len(entry.timestamps) = 0
        BY <3>2
      <4> QED BY <1>4, <2>1, <4>1
    <3>3. Started(entry, s)
      BY <1>7, <3>2 DEF Started
    <3> QED BY <1>3, <1>6, <3>1, <3>3 DEF s
  <2>2. CASE allowed
    <3>1. counted = [entry EXCEPT !.timestamps = Append(@, n)]
      BY <2>2 DEF n
    <3>2. allowedAt' = [allowedAt EXCEPT ![k] = Append(@, n)]
      BY <1>1, <2>2 DEF n
    <3>3. Append(s, n) \in Seq(Time) /\ ToSet(Append(s, n)) = ToSet(s) \cup {n}
      BY <1>3, AppendProperties, ToSetAppend
    <3>4. /\ allowedAt'[k] = Append(s, n) /\ allowedAt' \in [Keys -> Seq(Time)]
          /\ \A j \in Keys \ {k} : allowedAt'[j] = allowedAt[j]
      BY <1>3, <3>2, <3>3 DEF s
    <3>5. Fits([entry EXCEPT !.timestamps = Append(@, n)], Append(s, n), n)
      BY <1>3, <1>6, <2>2, CountedFits
    <3>6. counted.windowStart = entry.windowStart
      BY <1>6, <3>1 DEF Fits
    <3>7. MaxPerWindow # 0
      BY <2>0, <2>2
    <3>8. Started(counted, Append(s, n))
      BY <1>7, <3>3, <3>6 DEF Started
    <3>9. \A t \in ToSet(Append(s, n)) : t <= n
      BY <1>3, <1>4, <3>3
    <3> QED BY <3>1, <3>4, <3>5, <3>7, <3>8, <3>9
  <2> QED BY <2>1, <2>2
<1> HIDE DEF counted
<1>9. EntriesFit(entries, n)'
  <2>1. DOMAIN entries' = DOMAIN known \cup {k} /\ entries'[k] = counted
        /\ \A j \in DOMAIN known \ {k} : entries'[j] = known[j]
    BY <1>1
  <2>2. DOMAIN known \subseteq Keys
    BY <1>2 DEF EntriesFit
  <2>3. n' = n
    BY <1>1 DEF n
  <2>4. \A j \in DOMAIN known \ {k} : Fits(known[j], allowedAt'[j], n) /\ Started(known[j], allowedAt'[j])
    BY <1>2, <1>8, <2>2 DEF EntriesFit
  <2>5. \A j \in Keys \ (DOMAIN known \cup {k}) : LongAgo(allowedAt'[j], n)
    BY <1>2, <1>8 DEF EntriesFit
  <2> QED BY <1>8, <2>1, <2>2, <2>3, <2>4, <2>5 DEF EntriesFit
<1>10. \A j \in Keys : /\ \A t \in ToSet(allowedAt'[j]) : t <= n
                       /\ MaxPerWindow = 0 => allowedAt'[j] = <<>>
  BY <1>8 DEF RateInv, n
<1> QED BY <1>1, <1>3, <1>8, <1>9, <1>10 DEF RateInv, n

(* A reset forgets a key in the entries and in the history alike.           *)
LEMMA ResetKeysStep ==
  ASSUME RateInv, NEW S \in SUBSET Keys, ResetKeys(S)
  PROVE  RateInv'
<1>1. /\ DOMAIN entries' = DOMAIN entries \ S /\ now' = now
      /\ \A k \in DOMAIN entries' : entries'[k] = entries[k]
      /\ \A k \in S : allowedAt'[k] = <<>>
      /\ \A k \in Keys \ S : allowedAt'[k] = allowedAt[k]
  BY DEF ResetKeys
<1>2. <<>> \in Seq(Time) /\ ToSet(<<>>) = {}
  BY EmptySeq, ToSetOfNothing
<1>3. allowedAt' \in [Keys -> Seq(Time)]
  BY <1>2 DEF ResetKeys, RateInv
<1>4. EntriesFit(entries, now)'
  <2>1. DOMAIN entries' \subseteq Keys \ S /\ DOMAIN entries' \subseteq DOMAIN entries
    BY <1>1 DEF RateInv, EntriesFit
  <2>2. \A k \in DOMAIN entries' : Fits(entries'[k], allowedAt'[k], now') /\ Started(entries'[k], allowedAt'[k])
    BY <1>1, <2>1 DEF RateInv, EntriesFit
  <2>3. \A k \in Keys \ DOMAIN entries' : LongAgo(allowedAt'[k], now')
    <3>1. \A k \in S : LongAgo(allowedAt'[k], now')
      BY <1>1, <1>2 DEF LongAgo
    <3>2. \A k \in Keys \ S : k \notin DOMAIN entries' => LongAgo(allowedAt'[k], now')
      BY <1>1 DEF RateInv, EntriesFit
    <3> QED BY <3>1, <3>2
  <2> QED BY <2>1, <2>2, <2>3 DEF EntriesFit
<1>5. \A k \in Keys : /\ \A t \in ToSet(allowedAt'[k]) : t <= now'
                      /\ MaxPerWindow = 0 => allowedAt'[k] = <<>>
  BY <1>1, <1>2 DEF RateInv
<1> QED BY <1>1, <1>3, <1>4, <1>5 DEF RateInv

(* As time passes an entry sees less.                                       *)
LEMMA RateTickStep ==
  ASSUME RateInv, RateTick
  PROVE  RateInv'
<1>1. /\ now' \in Time /\ now \in Time /\ now <= now' /\ now \in Nat /\ now' \in Nat
      /\ UNCHANGED <<entries, allowedAt>>
  BY RateNumbers DEF RateTick, Advance, RateInv, Time
<1>2. \A k \in Keys : allowedAt[k] \in Seq(Time)
  BY DEF RateInv
<1>3. \A k \in Keys : \A t \in ToSet(allowedAt[k]) : t \in Nat
  BY <1>2, ToSetType, RateNumbers
<1>4. \A k \in DOMAIN entries : Fits(entries[k], allowedAt[k], now')
  BY <1>1, <1>2, FitsLater DEF RateInv, EntriesFit
<1>5. \A k \in Keys : LongAgo(allowedAt[k], now) => LongAgo(allowedAt[k], now')
  BY <1>1, <1>3, RateNumbers DEF LongAgo
<1>6. EntriesFit(entries, now)'
  BY <1>1, <1>4, <1>5 DEF RateInv, EntriesFit
<1>7. \A k \in Keys : \A t \in ToSet(allowedAt[k]) : t <= now'
  BY <1>1, <1>3 DEF RateInv
<1> QED BY <1>1, <1>6, <1>7 DEF RateInv

(* Every step keeps the invariant.                                          *)
LEMMA RateInvStep == RateInv /\ [RateNext]_rateVars => RateInv'
<1> SUFFICES ASSUME RateInv, [RateNext]_rateVars PROVE RateInv'
  OBVIOUS
<1>1. ASSUME NEW k \in Keys, checkLimit(k) PROVE RateInv'
  BY <1>1, CheckLimitStep
<1>2. ASSUME NEW k \in Keys, ResetKeys({k}) PROVE RateInv'
  <2>1. {k} \in SUBSET Keys
    OBVIOUS
  <2> QED BY <1>2, <2>1, ResetKeysStep
<1>3. ASSUME ResetKeys(Keys) PROVE RateInv'
  <2>1. Keys \in SUBSET Keys
    OBVIOUS
  <2> QED BY <1>3, <2>1, ResetKeysStep
<1>4. ASSUME RateTick PROVE RateInv'
  BY <1>4, RateTickStep
<1>5. ASSUME UNCHANGED rateVars PROVE RateInv'
  <2>1. UNCHANGED <<entries, allowedAt, now>>
    BY <1>5 DEF rateVars
  <2> QED BY <2>1 DEF RateInv, EntriesFit
<1> QED BY <1>1, <1>2, <1>3, <1>4, <1>5 DEF RateNext

(* Any span as long as a window meets the current one and the one before.   *)
LEMMA RateInvSuffices == RateInv => AtMostTwiceTheLimit
<1> SUFFICES ASSUME RateInv, NEW k \in Keys
             PROVE  Len(Filter(allowedAt[k], {t \in Time : t > now - WindowTicks})) <= 2 * MaxPerWindow
  BY DEF AtMostTwiceTheLimit, InLastSpan
<1> DEFINE s == allowedAt[k]
           e == entries[k]
           C == {t \in Time : t > now - WindowTicks}
           A == From(e.windowStart)
           B == Between(e.windowStart - WindowTicks, e.windowStart)
<1>1. s \in Seq(Time) /\ now \in Nat /\ MaxPerWindow \in Nat /\ WindowTicks \in Nat
  BY RateNumbers DEF RateInv
<1>2. CASE k \in DOMAIN entries
  <2>1. Fits(e, s, now)
    BY <1>2 DEF RateInv, EntriesFit
  <2>2. e.windowStart \in Nat /\ e.windowStart <= now
    BY <2>1, RateNumbers DEF Fits
  <2>3. \A x \in Time : x \in C => x \in A \/ x \in B
    BY <1>1, <2>2, RateNumbers DEF From, Between
  <2>4. Len(Filter(s, A)) <= MaxPerWindow /\ Len(Filter(s, B)) <= MaxPerWindow
    BY <2>1 DEF Fits
  <2> HIDE DEF A, B, C, s
  <2>5. Len(Filter(s, C)) <= Len(Filter(s, A)) + Len(Filter(s, B))
    BY <1>1, <2>3, FilterShared
  <2>6. Filter(s, A) \in Seq(Time) /\ Filter(s, B) \in Seq(Time) /\ Filter(s, C) \in Seq(Time)
    BY <1>1, FilterFacts
  <2>7. Len(Filter(s, A)) \in Nat /\ Len(Filter(s, B)) \in Nat /\ Len(Filter(s, C)) \in Nat
    BY <2>6, LenProperties
  <2> QED BY <1>1, <2>4, <2>5, <2>7 DEF C, s
<1>3. CASE k \notin DOMAIN entries
  <2>1. LongAgo(s, now)
    BY <1>3 DEF RateInv, EntriesFit
  <2>2. \A t \in ToSet(s) : t \in Nat
    BY <1>1, ToSetType, RateNumbers
  <2>3. \A t \in ToSet(s) : t \notin C
    BY <1>1, <2>1, <2>2 DEF LongAgo
  <2> HIDE DEF C, s
  <2>4. Filter(s, C) = <<>>
    BY <1>1, <2>3, FilterNone
  <2>5. Len(Filter(s, C)) = 0
    BY <2>4
  <2> QED BY <1>1, <2>5 DEF C, s
<1> QED BY <1>2, <1>3

(* rate-limiter.ts:128-135: for any limit, window and pattern of requests,  *)
(* no key is allowed more than twice the limit within a window, however its *)
(* requests straddle two windows of the limiter and whatever is purged in   *)
(* between.                                                                 *)
THEOREM LimitHoldsTwiceAtMost == RateSpec => []AtMostTwiceTheLimit
BY RateInvInit, RateInvStep, RateInvSuffices, PTL DEF RateSpec

-------------------------------------------------------------------------------
(***************************************************************************)
(* The cache of verdicts.  Results are tied to the instants at which their *)
(* entries were stored and taken.                                          *)
(***************************************************************************)
(* An entry of the cache, the result of a validator, and a call in          *)
(* progress.                                                                *)
CacheEntry == [key : Inputs \X Names, name : Names, verdict : Verdicts, expiresAt : Nat, storedAt : Nat]

(* The types of what a call of the cached validator returns, ...            *)
CacheResult == [name : Names, verdict : Verdicts, fromCache : BOOLEAN, storedAt : Nat, takenAt : Nat,
           own : BOOLEAN]

(* ... and of the call itself.                                              *)
Judging == [at : Nat, state : {"idle", "keying", "validating", "done", "thrown"}, input : Inputs,
            results : Seq(CacheResult)]

(* What a validator stored under its own key lives no longer than its kind  *)
(* of verdict is kept.                                                      *)
LivesAsKept(e) == e.key[2] = e.name => e.expiresAt <= e.storedAt + TtlOf(e.verdict)

(* The k-th result.                                                         *)
SoundResult(r, k) ==
  /\ r.name = Pipeline[k] /\ r.own
  /\ r.fromCache => r.takenAt - r.storedAt < TtlOf(r.verdict)

(* The results of a call so far are sound, and it is at a validator of the  *)
(* pipeline.                                                                *)
CallInv(j) ==
  /\ j.state \in {"keying", "validating"} => j.at \in 1 .. Len(Pipeline) /\ Len(j.results) = j.at - 1
  /\ j.state = "idle" => j.results = <<>>
  /\ j.state = "done" => Len(j.results) = Len(Pipeline)
  /\ \A k \in 1 .. Len(j.results) : SoundResult(j.results[k], k)

(* The inductive invariant.                                                 *)
CacheInv ==
  /\ now \in Nat
  /\ cache \in Seq(CacheEntry) /\ \A e \in ToSet(cache) : LivesAsKept(e)
  /\ judging \in [CacheCalls -> Judging] /\ \A c \in CacheCalls : CallInv(judging[c])

(* The pipeline is a sequence of the validators, and not empty.             *)
LEMMA PipelineType == Pipeline \in Seq(Names) /\ Len(Pipeline) \in Nat \ {0}
<1> DEFINE n == Cardinality(Names)
<1>1. n \in Nat /\ n # 0
  BY CacheAssumption, FS_CardinalityType, FS_EmptySet DEF CacheAssumption
<1>2. PICK b : b \in Bijection(1 .. n, Names)
  BY CacheAssumption, FS_CardinalityType, FS_NatBijection DEF CacheAssumption, ExistsBijection
<1>3. b \in [1 .. n -> Names] /\ IsInjective(b)
  BY <1>2 DEF Bijection, Injection, IsInjective
<1>4. Pipeline \in [1 .. n -> Names]
  BY <1>3, Zenon DEF Pipeline, SetToSeq
<1> HIDE DEF n
<1> QED BY <1>1, <1>4

(* The numbers of the cache are naturals.                                   *)
LEMMA CacheNumbers ==
  /\ DefaultTtl \in Nat /\ BlockedTtl \in Nat /\ MaxTtl \in Nat /\ MaxEntries \in Nat \ {0}
  /\ \A v : TtlOf(v) \in Nat
BY CacheAssumption DEF CacheAssumption, TtlOf

(* The entries under other keys are entries.                                *)
LEMMA OthersFacts ==
  ASSUME CacheInv, NEW key
  PROVE  Others(key) \in Seq(CacheEntry) /\ ToSet(Others(key)) \subseteq ToSet(cache)
<1> DEFINE S == {e \in ToSet(cache) : e.key # key}
<1>1. Filter(cache, S) \in Seq(CacheEntry) /\ ToSet(Filter(cache, S)) = ToSet(cache) \cap S
  BY FilterFacts DEF CacheInv
<1>2. Others(key) = Filter(cache, S)
  BY DEF Others
<1> HIDE DEF S
<1> QED BY <1>1, <1>2

(* The last entries are entries.                                            *)
LEMMA LastEntries ==
  ASSUME NEW s \in Seq(CacheEntry), NEW n \in 1 .. Len(s) + 1
  PROVE  /\ SubSeq(s, n, Len(s)) \in Seq(CacheEntry)
         /\ ToSet(SubSeq(s, n, Len(s))) \subseteq ToSet(s)
<1> DEFINE t == SubSeq(s, n, Len(s))
<1>0. Len(s) \in Nat
  BY LenProperties
<1>1. /\ t \in Seq(CacheEntry) /\ Len(t) \in Nat
      /\ \A i \in 1 .. Len(t) : n + i - 1 \in 1 .. Len(s) /\ t[i] = s[n + i - 1]
  <2>1. CASE n <= Len(s)
    <3>1. \A i \in n .. Len(s) : i \in 1 .. Len(s)
      BY <1>0
    <3>2. /\ t \in Seq(CacheEntry)
          /\ Len(t) = Len(s) - n + 1
          /\ \A i \in 1 .. Len(s) - n + 1 : t[i] = s[n + i - 1]
      BY <1>0, <2>1, <3>1, SubSeqProperties
    <3> HIDE DEF t
    <3>3. Len(t) \in Nat
      BY <3>2, LenProperties
    <3>4. \A i \in 1 .. Len(t) : i \in 1 .. Len(s) - n + 1 /\ n + i - 1 \in 1 .. Len(s)
      BY <1>0, <2>1, <3>2
    <3> QED BY <3>2, <3>3, <3>4
  <2>2. CASE ~ (n <= Len(s))
    <3>1. n > Len(s)
      BY <1>0, <2>2
    <3>2. t = <<>>
      BY <1>0, <3>1, SubSeqEmpty
    <3>3. <<>> \in Seq(CacheEntry) /\ Len(<<>>) = 0
      BY EmptySeq
    <3> HIDE DEF t
    <3> QED BY <3>2, <3>3
  <2> QED BY <2>1, <2>2
<1> HIDE DEF t
<1>2. \A i \in 1 .. Len(t) : t[i] \in ToSet(s)
  BY <1>1 DEF ToSet
<1> QED BY <1>1, <1>2 DEF ToSet, t

(* What set stores lives no longer than the span of its verdict.            *)
LEMMA StoredFacts ==
  ASSUME CacheInv, NEW key \in Inputs \X Names, NEW name \in Names, NEW verdict \in Verdicts,
         NEW ttl \in Nat, key[2] = name => ttl = TtlOf(verdict)
  PROVE  /\ Stored(key, name, verdict, ttl) \in Seq(CacheEntry)
         /\ \A e \in ToSet(Stored(key, name, verdict, ttl)) : LivesAsKept(e)
<1> DEFINE entry == [key |-> key, name |-> name, verdict |-> verdict,
                     expiresAt |-> now + Smaller(ttl, MaxTtl), storedAt |-> now]
           all == Append(Others(key), entry)
           n == Len(all) - MaxEntries + 1
           last == SubSeq(all, n, Len(all))
           stored == Stored(key, name, verdict, ttl)
<1>1. entry \in CacheEntry /\ LivesAsKept(entry)
  <2>1. Smaller(ttl, MaxTtl) \in Nat /\ Smaller(ttl, MaxTtl) <= ttl /\ now \in Nat
    BY CacheNumbers DEF Smaller, CacheInv
  <2>2. now + Smaller(ttl, MaxTtl) \in Nat /\ now + Smaller(ttl, MaxTtl) <= now + ttl
    BY <2>1
  <2> QED BY <2>1, <2>2 DEF CacheEntry, LivesAsKept
<1> HIDE DEF entry
<1>2. all \in Seq(CacheEntry) /\ \A e \in ToSet(all) : LivesAsKept(e)
  <2>1. Others(key) \in Seq(CacheEntry) /\ ToSet(Others(key)) \subseteq ToSet(cache)
    BY OthersFacts
  <2>2. all \in Seq(CacheEntry) /\ ToSet(all) = ToSet(Others(key)) \cup {entry}
    BY <1>1, <2>1, AppendProperties, ToSetAppend
  <2> QED BY <1>1, <2>1, <2>2 DEF CacheInv
<1>3. stored = IF Len(all) > MaxEntries THEN last ELSE all
  BY DEF Stored, entry
<1> HIDE DEF all, stored
<1>4. CASE Len(all) > MaxEntries
  <2>1. n \in 1 .. Len(all) + 1
    BY <1>2, <1>4, CacheNumbers, LenProperties
  <2> HIDE DEF n
  <2>2. last \in Seq(CacheEntry) /\ ToSet(last) \subseteq ToSet(all)
    BY <1>2, <2>1, LastEntries
  <2> QED BY <1>2, <1>3, <1>4, <2>2 DEF stored
<1>5. CASE ~ (Len(all) > MaxEntries)
  BY <1>2, <1>3, <1>5 DEF stored
<1> QED BY <1>4, <1>5

(* The validator whose turn it is.                                          *)
LEMMA TurnFacts ==
  ASSUME CacheInv, NEW c \in CacheCalls, judging[c].state \in {"keying", "validating"}
  PROVE  /\ judging[c].at \in 1 .. Len(Pipeline) /\ Pipeline[judging[c].at] \in Names
         /\ KeyOf(c) \in Inputs \X Names /\ KeyOf(c)[2] = Pipeline[judging[c].at]
         /\ judging[c] \in Judging
<1>1. judging[c].at \in 1 .. Len(Pipeline) /\ judging[c] \in Judging
  BY DEF CacheInv, CallInv
<1>2. Pipeline[judging[c].at] \in Names
  BY <1>1, PipelineType, ElementOfSeq
<1>3. judging[c].input \in Inputs
  BY <1>1 DEF Judging
<1> QED BY <1>1, <1>2, <1>3 DEF KeyOf

(* All calls are in order.                                                  *)
JudgingInv ==
  judging \in [CacheCalls -> Judging] /\ \A c \in CacheCalls : CallInv(judging[c])

(* A call takes a result and goes on to the next validator, or is done.     *)
LEMMA PushStep ==
  ASSUME CacheInv, NEW c \in CacheCalls, judging[c].state \in {"keying", "validating"},
         NEW result \in CacheResult, SoundResult(result, judging[c].at), Push(c, result)
  PROVE  JudgingInv'
<1> DEFINE j == judging[c]
           r == Append(j.results, result)
           state == IF j.at < Len(Pipeline) THEN "keying" ELSE "done"
           new == [j EXCEPT !.results = r, !.at = @ + 1, !.state = state]
<1>1. judging \in [CacheCalls -> Judging] /\ j \in Judging /\ CallInv(j)
  BY DEF CacheInv
<1>2. judging' = [judging EXCEPT ![c] = new]
  BY <1>1, Zenon DEF Push
<1>3. j.at \in 1 .. Len(Pipeline) /\ Len(Pipeline) \in Nat /\ j.at \in Nat
  BY TurnFacts, PipelineType
<1>4. j.results \in Seq(CacheResult) /\ Len(j.results) = j.at - 1
  BY <1>1 DEF Judging, CallInv
<1>5. r \in Seq(CacheResult) /\ Len(r) = j.at
  BY <1>3, <1>4, AppendProperties
<1>6. \A k \in 1 .. Len(r) : SoundResult(r[k], k)
  <2> SUFFICES ASSUME NEW k \in 1 .. Len(r) PROVE SoundResult(r[k], k)
    OBVIOUS
  <2>1. k = j.at \/ k \in 1 .. Len(j.results)
    BY <1>3, <1>4, <1>5
  <2>2. CASE k = j.at
    <3>1. r[k] = result
      BY <1>3, <1>4, <2>2, AppendProperties
    <3> QED BY <2>2, <3>1
  <2>3. CASE k \in 1 .. Len(j.results)
    <3>1. r[k] = j.results[k]
      BY <1>4, <2>3, AppendProperties
    <3> QED BY <1>1, <2>3, <3>1 DEF CallInv
  <2> QED BY <2>1, <2>2, <2>3
<1> DEFINE next == j.at + 1
<1>9. next \in Nat /\ state \in {"keying", "done"}
  BY <1>3
<1> HIDE DEF r, state, next
<1>7. new \in Judging /\ new.results = r /\ new.at = next /\ new.state = state
  <2>1. new = [j EXCEPT !.results = r, !.at = next, !.state = state]
    BY DEF next
  <2> HIDE DEF new, j
  <2> QED BY <1>1, <1>5, <1>9, <2>1 DEF Judging
<1> HIDE DEF j, new
<1>8. CallInv(new)
  <2>1. CASE j.at < Len(Pipeline)
    <3>1. new.state = "keying" /\ new.at \in 1 .. Len(Pipeline) /\ Len(new.results) = new.at - 1
      BY <1>3, <1>5, <1>7, <2>1 DEF state, next
    <3> QED BY <1>6, <1>7, <3>1 DEF CallInv
  <2>2. CASE ~ (j.at < Len(Pipeline))
    <3>1. new.state = "done" /\ Len(new.results) = Len(Pipeline)
      BY <1>3, <1>5, <1>7, <2>2 DEF state
    <3> QED BY <1>6, <1>7, <3>1 DEF CallInv
  <2> QED BY <2>1, <2>2
<1> QED BY <1>1, <1>2, <1>7, <1>8 DEF JudgingInv, CacheInv

(* The entries are in order.                                                *)
EntriesInv == cache \in Seq(CacheEntry) /\ \A e \in ToSet(cache) : LivesAsKept(e)

(* The cache is empty at first, and no call is made.                        *)
LEMMA CacheInvInit == CacheInit /\ now = 0 => CacheInv
<1> SUFFICES ASSUME CacheInit, now = 0 PROVE CacheInv
  OBVIOUS
<1>1. <<>> \in Seq(CacheEntry) /\ <<>> \in Seq(CacheResult) /\ Len(<<>>) = 0
  BY EmptySeq
<1>2. EntriesInv
  BY <1>1, ToSetOfNothing DEF CacheInit, EntriesInv
<1>3. Nothing.input \in Inputs
  <2>1. (CHOOSE i \in Inputs : TRUE) \in Inputs
    BY CacheAssumption, Zenon DEF CacheAssumption
  <2> QED BY <2>1 DEF Nothing
<1>4. Nothing \in Judging /\ CallInv(Nothing)
  BY <1>1, <1>3 DEF Nothing, Judging, CallInv
<1>5. JudgingInv
  BY <1>4 DEF JudgingInv, CacheInit
<1> QED BY <1>2, <1>5 DEF CacheInv, EntriesInv, JudgingInv

(* A step of a call that only changes its state, at the same validator.     *)
LEMMA StateStep ==
  ASSUME CacheInv, NEW c \in CacheCalls, judging[c].state \in {"keying", "validating"},
         judging' = [judging EXCEPT ![c].state = "validating"]
  PROVE  JudgingInv'
<1> DEFINE j == judging[c]
           new == [j EXCEPT !.state = "validating"]
<1>1. judging \in [CacheCalls -> Judging] /\ j \in Judging /\ CallInv(j)
  BY DEF CacheInv
<1>2. judging' = [judging EXCEPT ![c] = new]
  BY <1>1, Zenon
<1>3. /\ new \in Judging /\ new.state = "validating" /\ new.at = j.at /\ new.results = j.results
  BY <1>1 DEF Judging
<1> HIDE DEF new
<1>4. CallInv(new)
  BY <1>1, <1>3 DEF CallInv
<1> QED BY <1>1, <1>2, <1>3, <1>4 DEF JudgingInv, CacheInv

(* A call starts with no results.                                           *)
LEMMA CachedStartStep ==
  ASSUME CacheInv, NEW c \in CacheCalls, NEW i \in Inputs, CachedValidate(c, i)
  PROVE  CacheInv'
<1> DEFINE j == judging[c]
           new == [j EXCEPT !.state = "keying", !.input = i, !.at = 1]
<1>1. judging \in [CacheCalls -> Judging] /\ j \in Judging /\ CallInv(j) /\ j.state = "idle"
  BY DEF CacheInv, CachedValidate, Waiting
<1>2. judging' = [judging EXCEPT ![c] = new]
  BY <1>1, Zenon DEF CachedValidate
<1>3. /\ new \in Judging /\ new.state = "keying" /\ new.at = 1 /\ new.results = j.results
  BY <1>1 DEF Judging
<1> HIDE DEF new
<1>4. j.results = <<>> /\ Len(<<>>) = 0
  BY <1>1 DEF CallInv
<1>5. CallInv(new)
  BY <1>3, <1>4, PipelineType DEF CallInv
<1>6. JudgingInv'
  BY <1>1, <1>2, <1>3, <1>5 DEF JudgingInv, CacheInv
<1>7. now' \in Nat /\ EntriesInv'
  BY DEF CachedValidate, CacheInv, EntriesInv
<1> QED BY <1>6, <1>7 DEF CacheInv, EntriesInv, JudgingInv

(* A hit is live at the instant it is taken, and of this validator.         *)
LEMMA LookupStep ==
  ASSUME CacheInv, NEW c \in CacheCalls, Lookup(c)
  PROVE  CacheInv'
<1> DEFINE key == KeyOf(c)
           name == Pipeline[judging[c].at]
           miss == judging' = [judging EXCEPT ![c].state = "validating"]
<1>1. judging[c].state \in {"keying", "validating"} /\ now' = now /\ now \in Nat
  BY DEF Lookup, Waiting, CacheInv
<1>2. /\ judging[c].at \in 1 .. Len(Pipeline) /\ name \in Names
      /\ key \in Inputs \X Names /\ key[2] = name
  BY <1>1, TurnFacts
<1>3. ASSUME miss PROVE JudgingInv'
  BY <1>1, <1>3, StateStep
<1>4. CASE miss /\ UNCHANGED cache
  <2>1. EntriesInv'
    BY <1>4 DEF CacheInv, EntriesInv
  <2> QED BY <1>1, <1>3, <1>4, <2>1 DEF CacheInv, EntriesInv, JudgingInv
<1>5. ASSUME NEW e \in Held(key),
             cache' = IF Live(e) THEN Append(Others(key), e) ELSE Others(key),
             IF Serves(e, name)
             THEN Push(c, [name |-> name, verdict |-> e.verdict, fromCache |-> TRUE,
                           storedAt |-> e.storedAt, takenAt |-> now, own |-> e.name = name])
             ELSE miss
      PROVE  CacheInv'
  <2>1. e \in ToSet(cache) /\ e.key = key /\ e \in CacheEntry /\ LivesAsKept(e)
    <3>1. e \in ToSet(cache) /\ e.key = key
      BY DEF Held
    <3> QED BY <3>1, ToSetType DEF CacheInv
  <2>2. /\ Others(key) \in Seq(CacheEntry) /\ ToSet(Others(key)) \subseteq ToSet(cache)
        /\ Append(Others(key), e) \in Seq(CacheEntry)
        /\ ToSet(Append(Others(key), e)) = ToSet(Others(key)) \cup {e}
    BY <2>1, OthersFacts, AppendProperties, ToSetAppend
  <2>3. EntriesInv'
    <3>1. cache' \in Seq(CacheEntry) /\ ToSet(cache') \subseteq ToSet(cache)
      BY <1>5, <2>1, <2>2
    <3> QED BY <3>1 DEF EntriesInv, CacheInv, LivesAsKept
  <2>4. CASE Serves(e, name)
    <3> DEFINE r == [name |-> name, verdict |-> e.verdict, fromCache |-> TRUE,
                     storedAt |-> e.storedAt, takenAt |-> now, own |-> e.name = name]
    <3>1. e.name = name /\ e.expiresAt > now /\ e.expiresAt <= e.storedAt + TtlOf(e.verdict)
      BY <1>2, <2>1, <2>4 DEF Serves, Live, LivesAsKept
    <3>2. e.storedAt \in Nat /\ e.expiresAt \in Nat /\ e.verdict \in Verdicts
      BY <2>1 DEF CacheEntry
    <3>3. now - e.storedAt < TtlOf(e.verdict)
      BY <1>1, <3>1, <3>2, CacheNumbers
    <3>4. r \in CacheResult
      BY <1>1, <1>2, <3>2 DEF CacheResult
    <3>5. SoundResult(r, judging[c].at)
      BY <3>1, <3>3 DEF SoundResult
    <3>6. Push(c, r)
      BY <1>5, <2>4
    <3> HIDE DEF r
    <3>7. JudgingInv'
      BY <1>1, <3>4, <3>5, <3>6, PushStep
    <3> QED BY <1>1, <2>3, <3>7 DEF CacheInv, EntriesInv, JudgingInv
  <2>5. CASE ~Serves(e, name)
    <3>1. JudgingInv'
      BY <1>3, <1>5, <2>5
    <3> QED BY <1>1, <2>3, <3>1 DEF CacheInv, EntriesInv, JudgingInv
  <2> QED BY <2>4, <2>5
<1> QED BY <1>4, <1>5 DEF Lookup

(* A miss is judged, and its verdict stored and taken.                      *)
LEMMA AnswersStep ==
  ASSUME CacheInv, NEW c \in CacheCalls, NEW v \in Verdicts, Answers(c, v)
  PROVE  CacheInv'
<1> DEFINE key == KeyOf(c)
           name == Pipeline[judging[c].at]
           r == [name |-> name, verdict |-> v, fromCache |-> FALSE, storedAt |-> now,
                 takenAt |-> now, own |-> TRUE]
<1>1. judging[c].state \in {"keying", "validating"} /\ now' = now /\ now \in Nat
  BY DEF Answers, Waiting, CacheInv
<1>2. name \in Names /\ key \in Inputs \X Names
  BY <1>1, TurnFacts
<1>3. r \in CacheResult /\ SoundResult(r, judging[c].at) /\ Push(c, r)
  BY <1>1, <1>2 DEF CacheResult, SoundResult, Answers
<1> HIDE DEF r
<1>4. JudgingInv'
  BY <1>1, <1>3, PushStep
<1>5. cache' = Stored(key, name, v, TtlOf(v)) \/ UNCHANGED cache
  BY DEF Answers
<1> HIDE DEF key, name
<1>6. /\ Stored(key, name, v, TtlOf(v)) \in Seq(CacheEntry)
      /\ \A e \in ToSet(Stored(key, name, v, TtlOf(v))) : LivesAsKept(e)
  BY <1>2, CacheNumbers, StoredFacts
<1>7. EntriesInv'
  <2>1. CASE cache' = Stored(key, name, v, TtlOf(v))
    BY <1>6, <2>1 DEF EntriesInv, LivesAsKept
  <2>2. CASE UNCHANGED cache
    BY <2>2 DEF EntriesInv, LivesAsKept, CacheInv
  <2> QED BY <1>5, <2>1, <2>2
<1> QED BY <1>1, <1>4, <1>7 DEF CacheInv, EntriesInv, JudgingInv

(* A validator that throws ends the call, with no results.                  *)
LEMMA ValidatorThrowsStep ==
  ASSUME CacheInv, NEW c \in CacheCalls, ValidatorThrows(c)
  PROVE  CacheInv'
<1> DEFINE j == judging[c]
           new == [j EXCEPT !.state = "thrown", !.results = <<>>]
<1>1. judging \in [CacheCalls -> Judging] /\ j \in Judging
  BY DEF CacheInv
<1>2. judging' = [judging EXCEPT ![c] = new]
  BY <1>1, Zenon DEF ValidatorThrows
<1>3. <<>> \in Seq(CacheResult) /\ Len(<<>>) = 0
  BY EmptySeq
<1>4. new \in Judging /\ new.state = "thrown" /\ new.results = <<>>
  BY <1>1, <1>3 DEF Judging
<1> HIDE DEF new
<1>5. CallInv(new)
  BY <1>3, <1>4 DEF CallInv
<1>6. JudgingInv'
  BY <1>1, <1>2, <1>4, <1>5 DEF JudgingInv, CacheInv
<1>7. now' \in Nat /\ EntriesInv'
  BY DEF ValidatorThrows, CacheInv, EntriesInv
<1> QED BY <1>6, <1>7 DEF CacheInv, EntriesInv, JudgingInv

(* An entry that another stores under a key of ours is not the validator's  *)
(* own.                                                                     *)
LEMMA ForeignStep ==
  ASSUME CacheInv, ForeignSet
  PROVE  CacheInv'
<1>1. PICK i \in Inputs, n \in Names, owner \in Names, v \in Verdicts :
        n # owner /\ cache' = Stored(<<i, n>>, owner, v, DefaultTtl)
  BY DEF ForeignSet
<1> DEFINE key == <<i, n>>
<1>2. key \in Inputs \X Names /\ key[2] # owner
  BY <1>1
<1> HIDE DEF key
<1>3. /\ Stored(key, owner, v, DefaultTtl) \in Seq(CacheEntry)
      /\ \A e \in ToSet(Stored(key, owner, v, DefaultTtl)) : LivesAsKept(e)
  BY <1>2, CacheNumbers, StoredFacts
<1>4. EntriesInv'
  BY <1>1, <1>3 DEF EntriesInv, LivesAsKept, key
<1>5. now' \in Nat /\ JudgingInv'
  BY DEF ForeignSet, CacheInv, JudgingInv
<1> QED BY <1>4, <1>5 DEF CacheInv, EntriesInv, JudgingInv

(* Every step keeps the invariant.                                          *)
LEMMA CacheInvStep == CacheInv /\ [CacheNext]_cacheVars => CacheInv'
<1> SUFFICES ASSUME CacheInv, [CacheNext]_cacheVars PROVE CacheInv'
  OBVIOUS
<1>1. ASSUME NEW c \in CacheCalls, NEW i \in Inputs, CachedValidate(c, i) PROVE CacheInv'
  BY <1>1, CachedStartStep
<1>2. ASSUME NEW c \in CacheCalls, Lookup(c) PROVE CacheInv'
  BY <1>2, LookupStep
<1>3. ASSUME NEW c \in CacheCalls, NEW v \in Verdicts, Answers(c, v) PROVE CacheInv'
  BY <1>3, AnswersStep
<1>4. ASSUME NEW c \in CacheCalls, ValidatorThrows(c) PROVE CacheInv'
  BY <1>4, ValidatorThrowsStep
<1>5. ASSUME ForeignSet PROVE CacheInv'
  BY <1>5, ForeignStep
<1>6. ASSUME ClearCache PROVE CacheInv'
  <2>1. <<>> \in Seq(CacheEntry)
    BY EmptySeq
  <2> QED BY <1>6, <2>1, ToSetOfNothing DEF ClearCache, CacheInv
<1>7. ASSUME CacheTick PROVE CacheInv'
  BY <1>7 DEF CacheTick, Advance, CacheInv
<1>8. ASSUME UNCHANGED cacheVars PROVE CacheInv'
  BY <1>8 DEF cacheVars, CacheInv
<1> QED BY <1>1, <1>2, <1>3, <1>4, <1>5, <1>6, <1>7, <1>8 DEF CacheNext

(* Sound results are recent.                                                *)
LEMMA CacheInvSuffices == CacheInv => VerdictsAreRecent
<1> SUFFICES ASSUME CacheInv, NEW c \in CacheCalls
             PROVE  LET r == judging[c].results
                    IN /\ judging[c].state = "done" => Len(r) = Len(Pipeline)
                       /\ \A k \in 1..Len(r) :
                            /\ r[k].name = Pipeline[k] /\ r[k].own
                            /\ r[k].fromCache =>
                                 r[k].takenAt - r[k].storedAt <
                                   (IF r[k].verdict = "block" THEN BlockedTtl ELSE DefaultTtl)
  BY DEF VerdictsAreRecent
<1>1. CallInv(judging[c])
  BY DEF CacheInv
<1> QED BY <1>1 DEF CallInv, SoundResult, TtlOf

(* cached-validator.ts:257-323: for any validators, inputs and spans, and   *)
(* any interleaving of calls, a call that returns has one verdict per       *)
(* validator, in order, each by that validator itself, and one from the     *)
(* cache was stored less than the span of its kind before it was taken.     *)
THEOREM CachedVerdictsAreRecent == CacheSpec => []VerdictsAreRecent
BY CacheInvInit, CacheInvStep, CacheInvSuffices, PTL DEF CacheSpec

-------------------------------------------------------------------------------
(***************************************************************************)
(* The authentication of requests, for any requests, signatures, window,   *)
(* skew, cache size and clock.                                             *)
(***************************************************************************)
(* Entries outlive the timestamps of their signatures, and an accepted      *)
(* signature whose timestamp is acceptable has an entry.                    *)
EntriesOutlive == \A e \in claims : e.expiresAt > e.sig.stamp + Window

(* An accepted signature whose timestamp is acceptable has an entry.        *)
AcceptedKept ==
  \A s \in Signatures :
    accepted[s] > 0 /\ now <= s.stamp + Window => \E e \in claims : e.sig = s

(* Insertion order is expiry order.                                         *)
OrderedByExpiry ==
  /\ \A e \in claims : e.expiresAt <= now + Window + Skew + 1
  /\ \A e, q \in claims : /\ e.rank = q.rank => e = q
                          /\ e.rank < q.rank => e.expiresAt <= q.expiresAt

(* The inductive invariant.                                                 *)
KeepInv == ServerTypeOK /\ EntriesOutlive /\ AcceptedKept /\ OrderedByExpiry

(* What one claim does to the cache.                                        *)
LEMMA ClaimFacts ==
  ASSUME KeepInv,
         NEW sig \in Signatures, NEW t \in Nat, t >= now, t <= MaxTime,
         sig.stamp <= now + Skew, NEW outcome, Claim(sig, t, outcome)
  PROVE  /\ claims' \subseteq [sig : Signatures, expiresAt : Nat, rank : 0..(inserted' - 1)]
         /\ inserted' \in Nat
         /\ \A e \in claims' : e.expiresAt > e.sig.stamp + Window
         /\ \A e \in claims : e.expiresAt > t => e \in claims'
         /\ outcome = "first" => \E e \in claims' : e.sig = sig
         /\ \A e \in claims' : e.expiresAt <= t + Window + Skew + 1
         /\ \A e, q \in claims' : /\ e.rank = q.rank => e = q
                                  /\ e.rank < q.rank => e.expiresAt <= q.expiresAt
         /\ claims' # claims \/ outcome = "full" => \A e \in claims' : e.expiresAt > t
<1>t. /\ now \in Nat /\ Window \in Nat /\ Skew \in Nat /\ inserted \in Nat
      /\ sig.stamp \in Nat
      /\ claims \subseteq [sig : Signatures, expiresAt : Nat, rank : 0..(inserted - 1)]
  <2>1. /\ Window \in Nat /\ Skew \in Nat /\ sig.stamp \in Nat
    BY ServerAssumption DEF Signatures
  <2>2. /\ now \in Nat /\ inserted \in Nat
        /\ claims \subseteq [sig : Signatures, expiresAt : Nat, rank : 0..(inserted - 1)]
    BY ServerAssumption DEF KeepInv, ServerTypeOK
  <2> QED BY <2>1, <2>2
<1>o. /\ \A e \in claims : e.expiresAt > e.sig.stamp + Window
      /\ \A e \in claims : e.expiresAt <= now + Window + Skew + 1
      /\ \A e, q \in claims : /\ e.rank = q.rank => e = q
                              /\ e.rank < q.rank => e.expiresAt <= q.expiresAt
  BY DEF KeepInv, EntriesOutlive, OrderedByExpiry
<1>1. CASE outcome = "replay" /\ UNCHANGED claimVars
  BY <1>1, <1>t, <1>o DEF claimVars
<1> DEFINE kept == Unpruned(Forgotten(sig), t)
<1>k. ASSUME ~Claimed(sig, t)
      PROVE  /\ kept \subseteq claims
             /\ \A e \in claims : e.expiresAt > t => e \in kept
             /\ \A e \in kept : e.expiresAt > t
  <2>1. kept \subseteq claims
    BY DEF Unpruned, Forgotten
  <2>2. ASSUME NEW e \in claims, e.expiresAt > t PROVE e \in kept
    <3>1. e.sig # sig
      BY <1>k, <2>2 DEF Claimed
    <3>2. e.rank <= e.rank
      BY <1>t
    <3> QED BY <2>2, <3>1, <3>2 DEF Unpruned, Forgotten
  <2>3. ASSUME NEW e \in kept PROVE e.expiresAt > t
    <3>1. PICK q \in claims : q.rank <= e.rank /\ q.expiresAt > t
      BY DEF Unpruned, Forgotten
    <3>2. e \in claims
      BY <2>1
    <3>3. CASE q.rank = e.rank
      BY <3>1, <3>2, <3>3, <1>o
    <3>4. CASE q.rank < e.rank
      BY <3>1, <3>2, <3>4, <1>o, <1>t
    <3> QED BY <3>1, <3>2, <3>3, <3>4, <1>t
  <2> QED BY <2>1, <2>2, <2>3
<1> HIDE DEF kept
<1>2. CASE ~Claimed(sig, t) /\ outcome = "full" /\ claims' = kept /\ UNCHANGED inserted
  BY <1>2, <1>k, <1>t, <1>o
<1>3. CASE ~Claimed(sig, t) /\ outcome = "first" /\ claims' = kept \cup {Entry(sig, t)}
             /\ inserted' = inserted + 1
  <2> DEFINE new == Entry(sig, t)
  <2>1. /\ new \in [sig : Signatures, expiresAt : Nat, rank : 0..inserted]
        /\ new.sig = sig /\ new.expiresAt = t + Window + Skew + 1 /\ new.rank = inserted
    BY <1>t DEF Entry
  <2> HIDE DEF new
  <2>2. new.expiresAt > new.sig.stamp + Window /\ new.expiresAt > t
    BY <2>1, <1>t
  <2>3. claims' = kept \cup {new}
    BY <1>3 DEF new
  <2>4. \A e \in kept : e.rank < new.rank /\ e.expiresAt <= new.expiresAt
    BY <1>3, <1>k, <1>t, <1>o, <2>1
  <2>5. claims' \subseteq [sig : Signatures, expiresAt : Nat, rank : 0..(inserted' - 1)]
    <3>1. [sig : Signatures, expiresAt : Nat, rank : 0..(inserted - 1)]
             \subseteq [sig : Signatures, expiresAt : Nat, rank : 0..inserted]
      BY <1>t
    <3>2. inserted' - 1 = inserted
      BY <1>3, <1>t
    <3> QED BY <1>3, <1>k, <1>t, <2>1, <2>3, <3>1, <3>2
  <2>6. \A e, q \in claims' : /\ e.rank = q.rank => e = q
                              /\ e.rank < q.rank => e.expiresAt <= q.expiresAt
    <3> SUFFICES ASSUME NEW e \in claims', NEW q \in claims'
                 PROVE  /\ e.rank = q.rank => e = q
                        /\ e.rank < q.rank => e.expiresAt <= q.expiresAt
      OBVIOUS
    <3>1. e.rank \in Int /\ q.rank \in Int
      BY <2>5, <1>3, <1>t
    <3>2. CASE e \in kept /\ q \in kept
      BY <3>2, <1>3, <1>k, <1>o
    <3>3. CASE e \in kept /\ q = new
      BY <3>1, <3>3, <2>4
    <3>4. CASE e = new /\ q \in kept
      BY <3>1, <3>4, <2>4
    <3>5. CASE e = new /\ q = new
      BY <3>1, <3>5
    <3> QED BY <2>3, <3>2, <3>3, <3>4, <3>5
  <2>7. /\ \A e \in claims' : e.expiresAt > e.sig.stamp + Window
        /\ \A e \in claims' : e.expiresAt > t
        /\ \A e \in claims' : e.expiresAt <= t + Window + Skew + 1
    <3>1. \A e \in kept : e.expiresAt <= t + Window + Skew + 1
      BY <1>3, <1>k, <1>t, <1>o
    <3> QED BY <1>3, <1>k, <1>o, <2>1, <2>2, <2>3, <3>1, <1>t
  <2>8. new \in claims' /\ new.sig = sig
    BY <2>1, <2>3
  <2>9. \A e \in claims : e.expiresAt > t => e \in claims'
    BY <1>3, <1>k, <2>3
  <2> QED BY <1>3, <1>t, <2>5, <2>6, <2>7, <2>8, <2>9
<1> QED BY <1>1, <1>2, <1>3 DEF Claim, kept

-----------------------------------------------------------------------------
(* One authentication, by parser or hook.                                   *)
LEMMA AuthenticateFacts ==
  ASSUME KeepInv, NEW r \in Requests, status[r] \in {"new", "parsed"},
         NEW as \in {"parsed", "unparsable", "routed"}, Authenticate(r, as)
  PROVE  /\ KeepInv'
         /\ claims' # claims \/ status'[r] = "replay_cache_exhausted"
              => \A e \in claims' : e.expiresAt > now'
         /\ \A q \in Requests \ {r} : status'[q] = status[q]
         /\ Slack = 0 /\ AcceptedOnce => AcceptedOnce'
<1> DEFINE sig == bears[r]
<1>t. /\ now \in Nat /\ now <= MaxTime /\ Window \in Nat /\ Skew \in Nat /\ Slack \in Nat
      /\ MaxTime \in Nat /\ sig \in Signatures /\ \A s \in Signatures : s.stamp \in Nat
      /\ accepted \in [Signatures -> Nat]
  <2>1. \A s \in Signatures : s.stamp \in Nat
    BY ServerAssumption DEF Signatures
  <2> QED BY <2>1, ServerAssumption DEF KeepInv, ServerTypeOK
<1> HIDE DEF sig
<1>f. /\ bears' = bears
      /\ status' \in [Requests -> {"new", "parsed", "unparsable", "routed"} \cup Refusal]
      /\ verified' \in [Requests -> BOOLEAN]
      /\ accepted' \in [Signatures -> Nat]
      /\ \A q \in Requests \ {r} : status'[q] = status[q]
  <2>1. status \in [Requests -> {"new", "parsed", "unparsable", "routed"} \cup Refusal]
        /\ verified \in [Requests -> BOOLEAN]
    BY DEF KeepInv, ServerTypeOK
  <2>2. CASE /\ status' = [status EXCEPT ![r] = as]
             /\ verified' = [verified EXCEPT ![r] = TRUE]
             /\ accepted' = [accepted EXCEPT ![sig] = @ + 1]
             /\ bears' = bears
    <3>1. accepted' \in [Signatures -> Nat]
      BY <2>2, <1>t
    <3>2. verified' \in [Requests -> BOOLEAN]
      BY <2>1, <2>2, Zenon
    <3>3. /\ status' \in [Requests -> {"new", "parsed", "unparsable", "routed"} \cup Refusal]
          /\ \A q \in Requests \ {r} : status'[q] = status[q]
      BY <2>1, <2>2
    <3> QED BY <3>1, <3>2, <3>3, <2>2
  <2>3. CASE \E reason \in Refusal : /\ status' = [status EXCEPT ![r] = reason]
                                    /\ UNCHANGED <<verified, accepted, bears>>
    BY <2>1, <2>3, <1>t
  <2> QED BY <2>2, <2>3 DEF Authenticate, sig
<1>1. CASE UNCHANGED <<now, claimVars>> /\ UNCHANGED accepted /\ status'[r] # "replay_cache_exhausted"
  BY <1>1, <1>f DEF KeepInv, ServerTypeOK, EntriesOutlive, AcceptedKept, OrderedByExpiry,
                    AcceptedOnce, claimVars
<1>2. ASSUME NEW outcome \in {"first", "replay", "full"}, Verify(sig, outcome),
             accepted' = IF outcome = "first" THEN [accepted EXCEPT ![sig] = @ + 1] ELSE accepted,
             status'[r] = "replay_cache_exhausted" => outcome = "full"
      PROVE  /\ KeepInv'
             /\ claims' # claims \/ status'[r] = "replay_cache_exhausted"
                  => \A e \in claims' : e.expiresAt > now'
             /\ Slack = 0 /\ AcceptedOnce => AcceptedOnce'
  <2>1. PICK t \in now .. now + Slack :
          /\ InWindow(sig) /\ t <= MaxTime /\ now' = t /\ Claim(sig, t, outcome)
    BY <1>2 DEF Verify
  <2>2. t \in Nat /\ t >= now /\ sig.stamp <= now + Skew /\ now <= sig.stamp + Window
    BY <2>1, <1>t DEF InWindow
  <2>3. /\ claims' \subseteq [sig : Signatures, expiresAt : Nat, rank : 0..(inserted' - 1)]
        /\ inserted' \in Nat
        /\ \A e \in claims' : e.expiresAt > e.sig.stamp + Window
        /\ \A e \in claims : e.expiresAt > t => e \in claims'
        /\ outcome = "first" => \E e \in claims' : e.sig = sig
        /\ \A e \in claims' : e.expiresAt <= t + Window + Skew + 1
        /\ \A e, q \in claims' : /\ e.rank = q.rank => e = q
                                 /\ e.rank < q.rank => e.expiresAt <= q.expiresAt
        /\ claims' # claims \/ outcome = "full" => \A e \in claims' : e.expiresAt > t
    BY <2>1, <2>2, <1>t, ClaimFacts
  <2>4. ServerTypeOK'
    BY <2>1, <2>2, <2>3, <1>f, <1>t DEF KeepInv, ServerTypeOK
  <2>5. EntriesOutlive'
    BY <2>3 DEF EntriesOutlive
  <2>6. AcceptedKept'
    <3> SUFFICES ASSUME NEW s \in Signatures, accepted'[s] > 0, now' <= s.stamp + Window
                 PROVE  \E e \in claims' : e.sig = s
      BY DEF AcceptedKept
    <3>1. CASE s = sig /\ outcome = "first"
      BY <3>1, <2>3
    <3>2. CASE ~(s = sig /\ outcome = "first")
      <4>1. accepted[s] > 0
        BY <3>2, <1>2, <1>t
      <4>2. now <= s.stamp + Window
        BY <2>1, <2>2, <1>t
      <4>3. PICK e \in claims : e.sig = s
        BY <4>1, <4>2 DEF KeepInv, AcceptedKept
      <4>4. e.expiresAt > s.stamp + Window /\ e.expiresAt \in Nat
        BY <4>3 DEF KeepInv, EntriesOutlive, ServerTypeOK
      <4>5. e.expiresAt > t
        BY <4>4, <2>1, <2>2, <1>t
      <4> QED BY <4>3, <4>5, <2>3
    <3> QED BY <3>1, <3>2
  <2>7. OrderedByExpiry'
    BY <2>1, <2>3 DEF OrderedByExpiry
  <2>8. ASSUME Slack = 0, AcceptedOnce PROVE AcceptedOnce'
    <3>1. CASE outcome = "first"
      <4>1. ~Claimed(sig, t)
        BY <2>1, <3>1 DEF Claim
      <4>2. t = now
        BY <2>8, <2>1, <1>t
      <4>3. ASSUME accepted[sig] > 0 PROVE FALSE
        <5>1. PICK e \in claims : e.sig = sig
          BY <4>3, <2>2, <1>t DEF KeepInv, AcceptedKept
        <5>2. e.expiresAt > sig.stamp + Window /\ e.expiresAt \in Nat
          BY <5>1 DEF KeepInv, EntriesOutlive, ServerTypeOK
        <5>3. e.expiresAt > t
          BY <5>2, <4>2, <2>2, <1>t
        <5> QED BY <5>1, <5>3, <4>1 DEF Claimed
      <4>4. accepted[sig] = 0
        BY <4>3, <1>t
      <4> QED BY <4>4, <3>1, <1>2, <1>t, <2>8 DEF AcceptedOnce
    <3>2. CASE outcome # "first"
      BY <3>2, <1>2, <2>8 DEF AcceptedOnce
    <3> QED BY <3>1, <3>2
  <2>9. claims' # claims \/ status'[r] = "replay_cache_exhausted"
          => \A e \in claims' : e.expiresAt > now'
    BY <1>2, <2>1, <2>3
  <2> QED BY <2>4, <2>5, <2>6, <2>7, <2>8, <2>9 DEF KeepInv
<1>s. status \in [Requests -> {"new", "parsed", "unparsable", "routed"} \cup Refusal]
  BY DEF KeepInv, ServerTypeOK
<1>3. CASE /\ Verify(sig, "first")
           /\ status' = [status EXCEPT ![r] = as]
           /\ accepted' = [accepted EXCEPT ![sig] = @ + 1]
  BY <1>2, <1>3, <1>f, <1>s
<1>4. ASSUME NEW reason \in Refusal, Mismatch(sig, reason), UNCHANGED accepted,
             status' = [status EXCEPT ![r] = reason]
      PROVE  UNCHANGED <<now, claimVars>> /\ UNCHANGED accepted /\ status'[r] # "replay_cache_exhausted"
  BY <1>4, <1>s DEF Mismatch
<1>5. CASE /\ Verify(sig, "replay") /\ UNCHANGED accepted
           /\ status' = [status EXCEPT ![r] = "replay_detected"]
  BY <1>2, <1>5, <1>f, <1>s
<1>6. CASE Verify(sig, "full") /\ UNCHANGED accepted
  BY <1>2, <1>6, <1>f
<1> QED BY <1>1, <1>3, <1>4, <1>5, <1>6 DEF Authenticate, sig

(* Every step keeps the invariant, prunes completely, and, when the two     *)
(* clock reads agree, accepts no signature twice.                           *)
LEMMA StepFacts ==
  ASSUME KeepInv, [ServerNext]_serverVars
  PROVE  /\ KeepInv'
         /\ claims' # claims \/ (\E r \in Requests : status'[r] # status[r]
                                                     /\ status'[r] = "replay_cache_exhausted")
              => \A e \in claims' : e.expiresAt > now'
         /\ Slack = 0 /\ AcceptedOnce => AcceptedOnce'
<1>1. ASSUME NEW r \in Requests, Parse(r) \/ PreHandler(r), NEW as \in {"parsed", "unparsable", "routed"},
             Authenticate(r, as)
      PROVE  /\ KeepInv'
             /\ claims' # claims \/ (\E q \in Requests : status'[q] # status[q]
                                                         /\ status'[q] = "replay_cache_exhausted")
                  => \A e \in claims' : e.expiresAt > now'
             /\ Slack = 0 /\ AcceptedOnce => AcceptedOnce'
  <2>1. status[r] \in {"new", "parsed"}
    BY <1>1 DEF Parse, PreHandler
  <2> QED BY <1>1, <2>1, AuthenticateFacts
<1>2. ASSUME NEW r \in Requests, Parse(r)
      PROVE  \E as \in {"parsed", "unparsable", "routed"} : Authenticate(r, as)
  BY <1>2 DEF Parse
<1>3. CASE \E r \in Requests :
             /\ status' = [status EXCEPT ![r] = "routed"]
             /\ UNCHANGED <<now, claimVars, bears, verified, accepted>>
  BY <1>3 DEF KeepInv, ServerTypeOK, EntriesOutlive, AcceptedKept, OrderedByExpiry,
              AcceptedOnce, claimVars
<1>4. ASSUME NEW r \in Requests, PreHandler(r)
      PROVE  \/ Authenticate(r, "routed")
             \/ /\ status' = [status EXCEPT ![r] = "routed"]
                /\ UNCHANGED <<now, claimVars, bears, verified, accepted>>
  BY <1>4 DEF PreHandler
<1>5. CASE Tick
  <2>1. /\ now' \in Nat /\ now' >= now /\ now' <= MaxTime /\ now \in Nat
        /\ \A s \in Signatures : s.stamp \in Nat
        /\ Window \in Nat /\ Skew \in Nat
        /\ \A e \in claims : e.expiresAt \in Nat
    <3>1. \A s \in Signatures : s.stamp \in Nat
      BY ServerAssumption DEF Signatures
    <3> QED BY <1>5, <3>1, ServerAssumption DEF Tick, KeepInv, ServerTypeOK
  <2>2. ServerTypeOK' /\ EntriesOutlive' /\ UNCHANGED <<claims, status, accepted>>
    BY <1>5, <2>1, ServerAssumption DEF Tick, claimVars, KeepInv, ServerTypeOK, EntriesOutlive
  <2>3. AcceptedKept'
    <3> SUFFICES ASSUME NEW s \in Signatures, accepted[s] > 0, now' <= s.stamp + Window
                 PROVE  \E e \in claims : e.sig = s
      BY <2>2 DEF AcceptedKept
    <3>1. now <= s.stamp + Window
      BY <2>1
    <3> QED BY <3>1 DEF KeepInv, AcceptedKept
  <2>4. OrderedByExpiry'
    <3>1. \A e \in claims : e.expiresAt <= now' + Window + Skew + 1
      BY <2>1 DEF KeepInv, OrderedByExpiry
    <3> QED BY <2>2, <3>1 DEF KeepInv, OrderedByExpiry
  <2> QED BY <2>2, <2>3, <2>4 DEF KeepInv, AcceptedOnce
<1>6. CASE UNCHANGED serverVars
  BY <1>6 DEF serverVars, claimVars, KeepInv, ServerTypeOK, EntriesOutlive, AcceptedKept,
              OrderedByExpiry, AcceptedOnce
<1> QED BY <1>1, <1>2, <1>3, <1>4, <1>5, <1>6 DEF ServerNext

(* The cache is empty at first.                                             *)
LEMMA KeepInvInit == ServerInit => KeepInv
<1> SUFFICES ASSUME ServerInit PROVE KeepInv
  OBVIOUS
<1>1. ServerTypeOK
  BY ServerAssumption DEF ServerInit, ServerTypeOK
<1> QED BY <1>1 DEF ServerInit, KeepInv, EntriesOutlive, AcceptedKept, OrderedByExpiry

(* Every step keeps the invariant.                                          *)
LEMMA KeepInvAlways == ServerSpec => []KeepInv
<1>1. KeepInv /\ [ServerNext]_serverVars => KeepInv'
  BY StepFacts
<1> QED BY <1>1, KeepInvInit, PTL DEF ServerSpec

(* Type correctness of the authentication state.                            *)
THEOREM ServerTypeCorrect == ServerSpec => []ServerTypeOK
<1>1. KeepInv => ServerTypeOK
  BY DEF KeepInv
<1> QED BY <1>1, KeepInvAlways, PTL

(* An accepted signature is remembered for as long as its timestamp stays   *)
(* acceptable, whatever the time between the two clock reads.               *)
THEOREM SignaturesOutlive == ServerSpec => []OutlivesTimestamp
<1>1. KeepInv => OutlivesTimestamp
  <2> SUFFICES ASSUME KeepInv, NEW s \in Signatures, accepted[s] > 0, now - s.stamp <= Window
               PROVE  Claimed(s, now)
    BY DEF OutlivesTimestamp
  <2>1. now \in Nat /\ s.stamp \in Nat /\ Window \in Nat
    <3>1. s.stamp \in Nat
      BY ServerAssumption DEF Signatures
    <3> QED BY <3>1, ServerAssumption DEF KeepInv, ServerTypeOK
  <2>2. PICK e \in claims : e.sig = s
    BY <2>1 DEF KeepInv, AcceptedKept
  <2>3. e.expiresAt > s.stamp + Window /\ e.expiresAt \in Nat
    BY <2>2 DEF KeepInv, EntriesOutlive, ServerTypeOK
  <2> QED BY <2>1, <2>2, <2>3 DEF Claimed
<1> QED BY <1>1, KeepInvAlways, PTL

(* Expired entries never linger behind live ones.                           *)
THEOREM PruningIsComplete == ServerSpec => PruneIsComplete
<1>1. KeepInv /\ [ServerNext]_serverVars =>
        [claims' # claims \/ (\E r \in Requests : status'[r] # status[r]
                                                  /\ status'[r] = "replay_cache_exhausted")
           => \A e \in claims' : e.expiresAt > now']_serverVars
  BY StepFacts
<1> QED BY <1>1, KeepInvAlways, PTL DEF ServerSpec, PruneIsComplete

(* No signature is accepted twice, when the two clock reads of a            *)
(* verification agree.                                                      *)
THEOREM NoSecondAcceptance == Slack = 0 /\ ServerSpec => []AcceptedOnce
<1> SUFFICES ASSUME Slack = 0 PROVE ServerSpec => []AcceptedOnce
  OBVIOUS
<1>1. ServerInit => AcceptedOnce
  BY DEF ServerInit, AcceptedOnce
<1>2. KeepInv /\ AcceptedOnce /\ [ServerNext]_serverVars => AcceptedOnce'
  BY StepFacts
<1> QED BY <1>1, <1>2, KeepInvAlways, PTL DEF ServerSpec

-------------------------------------------------------------------------------
(***************************************************************************)
(* No scheme takes a number that differs from one it takes in one digit,   *)
(* whatever the digits are, nor those with a prime modulus one with two    *)
(* neighbours swapped.  A changed digit moves the sum by its weight times  *)
(* the change, and no such move is a multiple of the modulus; in Luhn's    *)
(* sum one term changes, and in an IBAN every remainder from there on.     *)
(***************************************************************************)
(* Luhn's formula maps the digits to digits, no two of them to the same.    *)
LEMMA TwiceIsOneToOne ==
  ASSUME NEW a \in Digits, NEW b \in Digits
  PROVE  /\ Twice(a) \in Digits /\ Twice(b) \in Digits
         /\ Twice(a) = Twice(b) => a = b
BY DEF Digits, Twice

(* A digit that changes moves a sum with weight one, three, seven or nine   *)
(* by no multiple of ten ...                                                *)
LEMMA MovesTen ==
  ASSUME NEW s \in Int, NEW a \in Digits, NEW b \in Digits, NEW w \in {1, 3, 7, 9},
         s % 10 = 0, (s + w * (b - a)) % 10 = 0
  PROVE  a = b
<1>1. CASE w = 1 BY <1>1 DEF Digits
<1>2. CASE w = 3 BY <1>2 DEF Digits
<1>3. CASE w = 7 BY <1>3 DEF Digits
<1>4. CASE w = 9 BY <1>4 DEF Digits
<1> QED BY <1>1, <1>2, <1>3, <1>4

(* ... and one with a weight up to ten by none of eleven.                   *)
LEMMA MovesEleven ==
  ASSUME NEW s \in Int, NEW a \in Digits, NEW b \in Digits, NEW w \in 1..10,
         s % 11 = 0, (s + w * (b - a)) % 11 = 0
  PROVE  a = b
<1>1. CASE w = 1 BY <1>1 DEF Digits
<1>2. CASE w = 2 BY <1>2 DEF Digits
<1>3. CASE w = 3 BY <1>3 DEF Digits
<1>4. CASE w = 4 BY <1>4 DEF Digits
<1>5. CASE w = 5 BY <1>5 DEF Digits
<1>6. CASE w = 6 BY <1>6 DEF Digits
<1>7. CASE w = 7 BY <1>7 DEF Digits
<1>8. CASE w = 8 BY <1>8 DEF Digits
<1>9. CASE w = 9 BY <1>9 DEF Digits
<1>10. CASE w = 10 BY <1>10 DEF Digits
<1> QED BY <1>1, <1>2, <1>3, <1>4, <1>5, <1>6, <1>7, <1>8, <1>9, <1>10

(* A routing number of the ABA with one digit changed is not one.           *)
THEOREM AbaCatchesSlips ==
  ASSUME NEW n \in [1..9 -> Digits], AbaRouting(n),
         NEW i \in 1..9, NEW x \in Digits, x # n[i]
  PROVE  ~AbaRouting([n EXCEPT ![i] = x])
<1> DEFINE m == [n EXCEPT ![i] = x]
<1>1. \A k \in 1..9 : n[k] \in Int /\ m[k] = IF k = i THEN x ELSE n[k]
  BY DEF Digits
<1>2. AbaSum(n) \in Int /\ x \in Int
  BY <1>1 DEF AbaSum, Digits
<1> HIDE DEF m
<1>3. \E w \in {1, 3, 7, 9} : AbaSum(m) = AbaSum(n) + w * (x - n[i])
  <2>1. CASE i \in {1, 4, 7}
    <3>1. AbaSum(m) = AbaSum(n) + 3 * (x - n[i])
      BY <1>1, <1>2, <2>1 DEF AbaSum
    <3> QED BY <3>1
  <2>2. CASE i \in {2, 5, 8}
    <3>1. AbaSum(m) = AbaSum(n) + 7 * (x - n[i])
      BY <1>1, <1>2, <2>2 DEF AbaSum
    <3> QED BY <3>1
  <2>3. CASE i \in {3, 6, 9}
    <3>1. AbaSum(m) = AbaSum(n) + 1 * (x - n[i])
      BY <1>1, <1>2, <2>3 DEF AbaSum
    <3> QED BY <3>1
  <2> QED BY <2>1, <2>2, <2>3
<1>4. AbaSum(m) % 10 # 0
  BY <1>2, <1>3, MovesTen DEF AbaRouting
<1> QED BY <1>4 DEF AbaRouting, m

(* A citizen service number with one digit changed is not one.              *)
THEOREM BsnCatchesSlips ==
  ASSUME NEW n \in [1..9 -> Digits], DutchBsn(n),
         NEW i \in 1..9, NEW x \in Digits, x # n[i]
  PROVE  ~DutchBsn([n EXCEPT ![i] = x])
<1> DEFINE m == [n EXCEPT ![i] = x]
<1>1. \A k \in 1..9 : n[k] \in Int /\ m[k] = IF k = i THEN x ELSE n[k]
  BY DEF Digits
<1>2. BsnSum(n) \in Int /\ x \in Int
  BY <1>1 DEF BsnSum, Digits
<1> HIDE DEF m
<1>3. CASE i \in 1..8
  <2>1. BsnSum(m) = BsnSum(n) + (10 - i) * (x - n[i])
    BY <1>1, <1>2, <1>3, SMTT(40) DEF BsnSum
  <2>2. 10 - i \in 1..10
    BY <1>3
  <2>3. BsnSum(m) % 11 # 0
    BY <1>2, <2>1, <2>2, MovesEleven DEF DutchBsn
  <2> QED BY <2>3 DEF DutchBsn, m
<1>4. CASE i = 9
  <2>1. BsnSum(m) = BsnSum(n) + 1 * (n[i] - x)
    BY <1>1, <1>2, <1>4 DEF BsnSum
  <2>2. BsnSum(n) % 11 = 0 /\ n[i] \in Digits /\ 1 \in 1..10
    BY DEF DutchBsn
  <2>3. BsnSum(m) % 11 # 0
    BY <1>2, <2>1, <2>2, MovesEleven
  <2> QED BY <2>3 DEF DutchBsn, m
<1> QED BY <1>3, <1>4

(* The number of the National Health Service makes the whole sum a multiple *)
(* of eleven, the check digit being the last term.                          *)
LEMMA NhsIsMultiple ==
  ASSUME NEW n, NhsNumber(n), n[10] \in Digits, NhsSum(n) \in Int
  PROVE  (NhsSum(n) + n[10]) % 11 = 0
BY DEF NhsNumber, Digits

(* A number of the National Health Service with one digit changed is not    *)
(* one.                                                                     *)
THEOREM NhsCatchesSlips ==
  ASSUME NEW n \in [1..10 -> Digits], NhsNumber(n),
         NEW i \in 1..10, NEW x \in Digits, x # n[i]
  PROVE  ~NhsNumber([n EXCEPT ![i] = x])
<1> DEFINE m == [n EXCEPT ![i] = x]
<1>1. \A k \in 1..10 : n[k] \in Int /\ m[k] = IF k = i THEN x ELSE n[k]
  BY DEF Digits
<1>2. NhsSum(n) \in Int /\ x \in Int
  BY <1>1 DEF NhsSum, Digits
<1> HIDE DEF m
<1>3. NhsSum(m) + m[10] = (NhsSum(n) + n[10]) + (11 - i) * (x - n[i])
  <2>1. CASE i = 1 BY <1>1, <1>2, <2>1 DEF NhsSum
  <2>2. CASE i = 2 BY <1>1, <1>2, <2>2 DEF NhsSum
  <2>3. CASE i = 3 BY <1>1, <1>2, <2>3 DEF NhsSum
  <2>4. CASE i = 4 BY <1>1, <1>2, <2>4 DEF NhsSum
  <2>5. CASE i = 5 BY <1>1, <1>2, <2>5 DEF NhsSum
  <2>6. CASE i = 6 BY <1>1, <1>2, <2>6 DEF NhsSum
  <2>7. CASE i = 7 BY <1>1, <1>2, <2>7 DEF NhsSum
  <2>8. CASE i = 8 BY <1>1, <1>2, <2>8 DEF NhsSum
  <2>9. CASE i = 9 BY <1>1, <1>2, <2>9 DEF NhsSum
  <2>10. CASE i = 10 BY <1>1, <1>2, <2>10 DEF NhsSum
  <2> QED BY <2>1, <2>2, <2>3, <2>4, <2>5, <2>6, <2>7, <2>8, <2>9, <2>10
<1>4. NhsSum(m) \in Int /\ m[10] \in Digits
  BY <1>1, <1>2 DEF NhsSum
<1>5. 11 - i \in 1..10 /\ NhsSum(n) + n[10] \in Int
  BY <1>1, <1>2
<1>6. (NhsSum(n) + n[10]) % 11 = 0
  BY <1>2, NhsIsMultiple
<1>7. (NhsSum(m) + m[10]) % 11 # 0
  BY <1>3, <1>5, <1>6, MovesEleven
<1>8. ~NhsNumber(m)
  BY <1>4, <1>7, NhsIsMultiple
<1> QED BY <1>8 DEF m

(* A PESEL makes the whole sum a multiple of ten.                           *)
LEMMA PeselIsMultiple ==
  ASSUME NEW n, PolishPesel(n), n[11] \in Digits, PeselSum(n) \in Int
  PROVE  (PeselSum(n) + n[11]) % 10 = 0
BY DEF PolishPesel, Digits

(* A PESEL with one digit changed is not one.                               *)
THEOREM PeselCatchesSlips ==
  ASSUME NEW n \in [1..11 -> Digits], PolishPesel(n),
         NEW i \in 1..11, NEW x \in Digits, x # n[i]
  PROVE  ~PolishPesel([n EXCEPT ![i] = x])
<1> DEFINE m == [n EXCEPT ![i] = x]
<1>1. \A k \in 1..11 : n[k] \in Int /\ m[k] = IF k = i THEN x ELSE n[k]
  BY DEF Digits
<1>2. PeselSum(n) \in Int /\ x \in Int
  BY <1>1 DEF PeselSum, Digits
<1> HIDE DEF m
<1>3. \E w \in {1, 3, 7, 9} :
         PeselSum(m) + m[11] = (PeselSum(n) + n[11]) + w * (x - n[i])
  <2> DEFINE Moved(w) == PeselSum(m) + m[11] = (PeselSum(n) + n[11]) + w * (x - n[i])
  <2>1. CASE i \in {1, 5, 9, 11}
    <3>1. Moved(1) BY <1>1, <1>2, <2>1 DEF PeselSum
    <3> QED BY <3>1
  <2>2. CASE i \in {2, 6, 10}
    <3>1. Moved(3)
      <4>1. CASE i = 2 BY <1>1, <1>2, <4>1 DEF PeselSum
      <4>2. CASE i = 6 BY <1>1, <1>2, <4>2 DEF PeselSum
      <4>3. CASE i = 10 BY <1>1, <1>2, <4>3 DEF PeselSum
      <4> QED BY <2>2, <4>1, <4>2, <4>3
    <3> QED BY <3>1
  <2>3. CASE i \in {3, 7}
    <3>1. Moved(7) BY <1>1, <1>2, <2>3 DEF PeselSum
    <3> QED BY <3>1
  <2>4. CASE i \in {4, 8}
    <3>1. Moved(9) BY <1>1, <1>2, <2>4 DEF PeselSum
    <3> QED BY <3>1
  <2> QED BY <2>1, <2>2, <2>3, <2>4
<1>4. PeselSum(m) \in Int /\ m[11] \in Digits /\ PeselSum(n) + n[11] \in Int
  BY <1>1, <1>2 DEF PeselSum
<1>5. (PeselSum(n) + n[11]) % 10 = 0
  BY <1>2, PeselIsMultiple
<1>6. (PeselSum(m) + m[11]) % 10 # 0
  BY <1>3, <1>4, <1>5, MovesTen
<1>7. ~PolishPesel(m)
  BY <1>4, <1>6, PeselIsMultiple
<1> QED BY <1>7 DEF m

(* A personnummer with one digit changed is not one: doubling digits tells  *)
(* them apart.                                                              *)
THEOREM PersonnummerCatchesSlips ==
  ASSUME NEW n \in [1..10 -> Digits], Personnummer(n),
         NEW i \in 1..10, NEW x \in Digits, x # n[i]
  PROVE  ~Personnummer([n EXCEPT ![i] = x])
<1> DEFINE m == [n EXCEPT ![i] = x]
<1>1. \A k \in 1..10 : n[k] \in Digits /\ Twice(n[k]) \in Digits
                        /\ m[k] = IF k = i THEN x ELSE n[k]
  BY TwiceIsOneToOne
<1>2. PersonSum(n) \in Int /\ Twice(x) \in Digits
  BY <1>1, TwiceIsOneToOne DEF PersonSum, Digits
<1>a. \A k \in 1..10 : /\ n[k] \in Int /\ Twice(n[k]) \in Int
                        /\ Twice(m[k]) = IF k = i THEN Twice(x) ELSE Twice(n[k])
  BY <1>1 DEF Digits
<1>b. x \in Int /\ Twice(x) \in Int
  BY <1>2 DEF Digits
<1> HIDE DEF m
<1>3. CASE i \in {1, 3, 5, 7, 9}
  <2>1. Twice(n[i]) # Twice(x)
    BY TwiceIsOneToOne
  <2>2. PersonSum(m) = PersonSum(n) + 1 * (Twice(x) - Twice(n[i]))
    <3>1. CASE i = 1 BY <1>1, <1>a, <1>b, <3>1 DEF PersonSum
    <3>2. CASE i = 3 BY <1>1, <1>a, <1>b, <3>2 DEF PersonSum
    <3>3. CASE i = 5 BY <1>1, <1>a, <1>b, <3>3 DEF PersonSum
    <3>4. CASE i = 7 BY <1>1, <1>a, <1>b, <3>4 DEF PersonSum
    <3>5. CASE i = 9 BY <1>1, <1>a, <1>b, <3>5 DEF PersonSum
    <3> QED BY <1>3, <3>1, <3>2, <3>3, <3>4, <3>5
  <2>3. PersonSum(m) % 10 # 0
    BY <1>1, <1>2, <2>1, <2>2, MovesTen DEF Personnummer
  <2> QED BY <2>3 DEF Personnummer, m
<1>4. CASE i \in {2, 4, 6, 8, 10}
  <2>1. PersonSum(m) = PersonSum(n) + 1 * (x - n[i])
    <3>1. CASE i = 2 BY <1>1, <1>a, <1>b, <3>1 DEF PersonSum
    <3>2. CASE i = 4 BY <1>1, <1>a, <1>b, <3>2 DEF PersonSum
    <3>3. CASE i = 6 BY <1>1, <1>a, <1>b, <3>3 DEF PersonSum
    <3>4. CASE i = 8 BY <1>1, <1>a, <1>b, <3>4 DEF PersonSum
    <3>5. CASE i = 10 BY <1>1, <1>a, <1>b, <3>5 DEF PersonSum
    <3> QED BY <1>4, <3>1, <3>2, <3>3, <3>4, <3>5
  <2>2. PersonSum(m) % 10 # 0
    BY <1>1, <1>2, <2>1, MovesTen DEF Personnummer
  <2> QED BY <2>2 DEF Personnummer, m
<1> QED BY <1>3, <1>4

(* Luhn's sum, place by place.                                              *)
LuhnTerms(n) == [i \in DOMAIN n |-> LuhnTerm(n, i)]

(* It is the sum of its terms, which are digits.                            *)
LEMMA LuhnIsSum ==
  ASSUME NEW n \in Seq(Digits)
  PROVE  /\ LuhnTerms(n) \in Seq(Digits) /\ Len(LuhnTerms(n)) = Len(n)
         /\ LuhnTerms(n) \in Seq(Nat)
         /\ Luhn(n) <=> Len(n) \in 13..19 /\ SumUpto(LuhnTerms(n), Len(n)) % 10 = 0
<1>1. Len(n) \in Nat /\ DOMAIN n = 1 .. Len(n) /\ \A i \in 1 .. Len(n) : n[i] \in Digits
  BY LenProperties
<1>2. \A i \in 1 .. Len(n) : LuhnTerm(n, i) \in Digits
  BY <1>1, TwiceIsOneToOne DEF LuhnTerm
<1>3. LuhnTerms(n) \in Seq(Digits) /\ Len(LuhnTerms(n)) = Len(n) /\ LuhnTerms(n) \in Seq(Nat)
  BY <1>1, <1>2 DEF LuhnTerms, Digits
<1>4. DOMAIN LuhnTerms(n) = 1 .. Len(n)
  BY <1>1 DEF LuhnTerms
<1>5. Luhn(n) <=> Len(n) \in 13..19 /\ FoldLeft(+, 0, LuhnTerms(n)) % 10 = 0
  BY Zenon DEF Luhn, LuhnTerms
<1> DEFINE s == LuhnTerms(n)
<1> HIDE DEF s
<1>6. FoldLeft(+, 0, s) = Sums(s)[DOMAIN s]
  BY Zenon DEF FoldLeft, MapThenFoldSet, Sums
<1> QED BY <1>3, <1>4, <1>5, <1>6 DEF SumUpto, s

(* Where two sequences of numbers are equal but for one place, their sums   *)
(* differ by what they differ there.                                        *)
LEMMA SumUptoSlip ==
  ASSUME NEW s \in Seq(Nat), NEW t \in Seq(Nat), Len(s) = Len(t), NEW i \in 1 .. Len(s),
         \A k \in 1 .. Len(s) : k # i => s[k] = t[k]
  PROVE  SumUpto(t, Len(t)) = SumUpto(s, Len(s)) + (t[i] - s[i])
<1> DEFINE n == Len(s)
           I == {k \in Nat : k <= n => SumUpto(t, k) = IF k < i THEN SumUpto(s, k)
                                                  ELSE SumUpto(s, k) + (t[i] - s[i])}
<1>1. n \in Nat /\ DOMAIN s = 1 .. n /\ \A k \in 1 .. n : s[k] \in Nat
  BY LenProperties
<1>2. n = Len(t) /\ DOMAIN t = 1 .. n /\ \A k \in 1 .. n : t[k] \in Nat
  BY LenProperties
<1>a. \A k \in 0 .. n : SumUpto(s, k) \in Nat
  BY SumUptoType
<1>b. \A k \in 0 .. n : SumUpto(t, k) \in Nat
  BY SumUptoType
<1>c. i \in 1 .. n /\ \A k \in 1 .. n : k # i => s[k] = t[k]
  OBVIOUS
<1>d. SumUpto(s, 0) = 0 /\ \A k \in 0 .. n - 1 : SumUpto(s, k + 1) = SumUpto(s, k) + s[k + 1]
  BY <1>1, SumUptoNext
<1>e. SumUpto(t, 0) = 0 /\ \A k \in 0 .. n - 1 : SumUpto(t, k + 1) = SumUpto(t, k) + t[k + 1]
  BY <1>1, <1>2, SumUptoNext
<1> HIDE DEF n
<1>3. 0 \in I
  BY <1>c, <1>d, <1>e
<1>4. ASSUME NEW k \in I PROVE k + 1 \in I
  <2> SUFFICES ASSUME k + 1 <= n
               PROVE  SumUpto(t, k + 1) = IF k + 1 < i THEN SumUpto(s, k + 1)
                                          ELSE SumUpto(s, k + 1) + (t[i] - s[i])
    OBVIOUS
  <2>1. k \in 0 .. n - 1 /\ k \in 0 .. n /\ k <= n /\ k + 1 \in 1 .. n
    BY <1>1
  <2>2. SumUpto(t, k) = IF k < i THEN SumUpto(s, k) ELSE SumUpto(s, k) + (t[i] - s[i])
    BY <2>1
  <2>3. SumUpto(s, k + 1) = SumUpto(s, k) + s[k + 1] /\ SumUpto(t, k + 1) = SumUpto(t, k) + t[k + 1]
    BY <1>d, <1>e, <2>1
  <2> DEFINE x == SumUpto(s, k)
             y == SumUpto(t, k)
  <2>4. x \in Nat /\ y \in Nat /\ s[k + 1] \in Nat /\ t[k + 1] \in Nat /\ s[i] \in Nat /\ t[i] \in Nat
    BY <1>1, <1>2, <1>a, <1>b, <1>c, <2>1
  <2>5. k + 1 # i => s[k + 1] = t[k + 1]
    BY <1>c, <2>1
  <2> HIDE DEF x, y
  <2>6. CASE k + 1 < i
    BY <2>1, <2>2, <2>3, <2>4, <2>5, <2>6, SMTT(40) DEF x, y
  <2>7. CASE k + 1 = i
    <3>1. y = x
      BY <2>1, <2>2, <2>7 DEF x, y
    <3>2. x + t[i] = (x + s[i]) + (t[i] - s[i])
      BY <2>4
    <3> QED BY <2>3, <2>7, <3>1, <3>2 DEF x, y
  <2>8. CASE k + 1 > i
    <3>6. ~ (k < i) /\ k + 1 # i
      BY <1>c, <2>1, <2>8
    <3>1. y = x + (t[i] - s[i]) /\ s[k + 1] = t[k + 1]
      BY <2>2, <2>5, <3>6, Zenon DEF x, y
    <3>2. (x + (t[i] - s[i])) + s[k + 1] = (x + s[k + 1]) + (t[i] - s[i])
      <4> DEFINE a == s[k + 1]
                 b == t[i]
                 c == s[i]
      <4>1. x \in Nat /\ a \in Nat /\ b \in Nat /\ c \in Nat
        BY <2>4
      <4> HIDE DEF a, b, c
      <4>2. (x + (b - c)) + a = (x + a) + (b - c)
        BY <4>1
      <4> QED BY <4>2 DEF a, b, c
    <3>3. SumUpto(t, k + 1) = (x + (t[i] - s[i])) + s[k + 1]
      BY <2>3, <3>1, Zenon DEF y
    <3>4. SumUpto(s, k + 1) = x + s[k + 1]
      BY <2>3, Zenon DEF x
    <3>5. ~ (k + 1 < i)
      BY <1>c, <2>1, <2>8
    <3> QED BY <3>2, <3>3, <3>4, <3>5
  <2> QED BY <1>c, <2>1, <2>6, <2>7, <2>8
<1> HIDE DEF I
<1>5. I = Nat
  <2>1. I \in SUBSET Nat
    BY DEF I
  <2> QED BY <1>3, <1>4, <2>1, NumbersByInduction
<1>6. n \in I /\ n <= n /\ ~ (n < i)
  BY <1>1, <1>5, <1>c
<1> QED BY <1>2, <1>6 DEF I, n

(* A change with the weight one.                                            *)
LEMMA OneTimes == \A d \in Int : d = 1 * d
OBVIOUS

(* A card number with one digit changed is not one.                         *)
THEOREM LuhnCatchesSlips ==
  ASSUME NEW n \in Seq(Digits), Luhn(n),
         NEW i \in 1 .. Len(n), NEW x \in Digits, x # n[i]
  PROVE  ~Luhn([n EXCEPT ![i] = x])
<1> DEFINE m == [n EXCEPT ![i] = x]
           s == LuhnTerms(n)
           t == LuhnTerms(m)
<1>1. /\ Len(n) \in Nat /\ DOMAIN n = 1 .. Len(n) /\ \A k \in 1 .. Len(n) : n[k] \in Digits
  BY LenProperties
<1>2. m \in Seq(Digits) /\ Len(m) = Len(n) /\ DOMAIN m = 1 .. Len(n)
  OBVIOUS
<1>3. \A k \in 1 .. Len(n) : m[k] = IF k = i THEN x ELSE n[k]
  BY <1>1
<1>4. /\ s \in Seq(Digits) /\ Len(s) = Len(n) /\ s \in Seq(Nat)
      /\ Luhn(n) => SumUpto(s, Len(n)) % 10 = 0
  BY LuhnIsSum
<1> HIDE DEF m
<1>5. /\ t \in Seq(Digits) /\ Len(t) = Len(n) /\ t \in Seq(Nat)
      /\ Luhn(m) => SumUpto(t, Len(n)) % 10 = 0
  BY <1>2, LuhnIsSum
<1>6. \A k \in 1 .. Len(n) : s[k] = LuhnTerm(n, k) /\ t[k] = LuhnTerm(m, k)
  BY <1>1, <1>2 DEF LuhnTerms
<1> HIDE DEF s, t
<1>7. \A k \in 1 .. Len(s) : k # i => s[k] = t[k]
  BY <1>2, <1>3, <1>4, <1>6 DEF LuhnTerm
<1>8. s[i] # t[i] /\ s[i] \in Digits /\ t[i] \in Digits
  <2>1. s[i] = LuhnTerm(n, i) /\ t[i] = LuhnTerm(m, i) /\ m[i] = x /\ n[i] \in Digits
    BY <1>1, <1>3, <1>6
  <2>2. /\ Twice(n[i]) \in Digits /\ Twice(x) \in Digits
        /\ Twice(n[i]) = Twice(x) => n[i] = x
    BY <2>1, TwiceIsOneToOne
  <2> QED BY <1>2, <2>1, <2>2 DEF LuhnTerm
<1>9. SumUpto(t, Len(t)) = SumUpto(s, Len(s)) + (t[i] - s[i])
  BY <1>4, <1>5, <1>7, SumUptoSlip
<1>10. SumUpto(s, Len(n)) \in Int
  <2>1. \A k \in 0 .. Len(s) : SumUpto(s, k) \in Nat
    BY <1>4, SumUptoType
  <2>2. Len(n) \in 0 .. Len(s)
    BY <1>1, <1>4
  <2> QED BY <2>1, <2>2
<1>11. (t[i] - s[i]) = 1 * (t[i] - s[i])
  <2>1. t[i] - s[i] \in Int
    BY <1>8, SMTT(40) DEF Digits
  <2> HIDE DEF s, t
  <2> QED BY <2>1, OneTimes, Zenon
<1> DEFINE p == SumUpto(s, Len(n))
<1>12. p \in Int /\ p % 10 = 0
  BY <1>4, <1>10
<1>13. (p + 1 * (t[i] - s[i])) % 10 # 0
  <2> HIDE DEF p
  <2>1. 1 \in {1, 3, 7, 9}
    OBVIOUS
  <2> QED BY <1>8, <1>12, <2>1, MovesTen
<1>14. SumUpto(t, Len(n)) = p + 1 * (t[i] - s[i])
  BY <1>4, <1>5, <1>9, <1>11
<1> QED BY <1>5, <1>13, <1>14 DEF m

(* A digit that changes moves a remainder modulo eleven, whatever the       *)
(* weight, ...                                                              *)
LEMMA ChangesModEleven ==
  ASSUME NEW s \in Int, NEW a \in Digits, NEW b \in Digits, NEW w \in 1..10,
         s % 11 = (s + w * (b - a)) % 11
  PROVE  a = b
<1>1. CASE w = 1 BY <1>1 DEF Digits
<1>2. CASE w = 2 BY <1>2 DEF Digits
<1>3. CASE w = 3 BY <1>3 DEF Digits
<1>4. CASE w = 4 BY <1>4 DEF Digits
<1>5. CASE w = 5 BY <1>5 DEF Digits
<1>6. CASE w = 6 BY <1>6 DEF Digits
<1>7. CASE w = 7 BY <1>7 DEF Digits
<1>8. CASE w = 8 BY <1>8 DEF Digits
<1>9. CASE w = 9 BY <1>9 DEF Digits
<1>10. CASE w = 10 BY <1>10 DEF Digits
<1> QED BY <1>1, <1>2, <1>3, <1>4, <1>5, <1>6, <1>7, <1>8, <1>9, <1>10

(* ... and one modulo 23, the weights being powers of ten or nine times     *)
(* powers of ten.                                                           *)
LEMMA ChangesModTwentyThree ==
  ASSUME NEW s \in Int, NEW a \in Digits, NEW b \in Digits,
         NEW w \in {1, 10, 100, 1000, 10000, 100000, 1000000, 10000000,
                     9, 90, 900, 9000, 90000, 900000, 9000000},
         s % 23 = (s + w * (b - a)) % 23
  PROVE  a = b
<1>1. CASE w = 1 BY <1>1 DEF Digits
<1>2. CASE w = 10 BY <1>2 DEF Digits
<1>3. CASE w = 100 BY <1>3 DEF Digits
<1>4. CASE w = 1000 BY <1>4 DEF Digits
<1>5. CASE w = 10000 BY <1>5 DEF Digits
<1>6. CASE w = 100000 BY <1>6 DEF Digits
<1>7. CASE w = 1000000 BY <1>7 DEF Digits
<1>8. CASE w = 10000000 BY <1>8 DEF Digits
<1>9. CASE w = 9 BY <1>9 DEF Digits
<1>10. CASE w = 90 BY <1>10 DEF Digits
<1>11. CASE w = 900 BY <1>11 DEF Digits
<1>12. CASE w = 9000 BY <1>12 DEF Digits
<1>13. CASE w = 90000 BY <1>13 DEF Digits
<1>14. CASE w = 900000 BY <1>14 DEF Digits
<1>15. CASE w = 9000000 BY <1>15 DEF Digits
<1> QED BY <1>1, <1>2, <1>3, <1>4, <1>5, <1>6, <1>7, <1>8, <1>9, <1>10, <1>11, <1>12, <1>13, <1>14, <1>15

(* A Portuguese number with one digit changed is not one, unless the check  *)
(* digit is the one that two remainders share.                              *)
THEOREM NifCatchesSlips ==
  ASSUME NEW n \in [1..9 -> Digits], PortugueseNif(n), n[9] # 0,
         NEW i \in 1..9, NEW x \in Digits, x # n[i], i = 9 => x # 0
  PROVE  ~PortugueseNif([n EXCEPT ![i] = x])
<1> DEFINE m == [n EXCEPT ![i] = x]
<1>1. \A k \in 1..9 : n[k] \in Int /\ n[k] \in Digits /\ m[k] = IF k = i THEN x ELSE n[k]
  BY DEF Digits
<1>2. NifSum(n) \in Int /\ x \in Int
  BY <1>1 DEF NifSum, Digits
<1> HIDE DEF m
<1>3. NifSum(m) = IF i = 9 THEN NifSum(n) ELSE NifSum(n) + (10 - i) * (x - n[i])
<2>1. CASE i = 1 BY <1>1, <1>2, <2>1 DEF NifSum
<2>2. CASE i = 2 BY <1>1, <1>2, <2>2 DEF NifSum
<2>3. CASE i = 3 BY <1>1, <1>2, <2>3 DEF NifSum
<2>4. CASE i = 4 BY <1>1, <1>2, <2>4 DEF NifSum
<2>5. CASE i = 5 BY <1>1, <1>2, <2>5 DEF NifSum
<2>6. CASE i = 6 BY <1>1, <1>2, <2>6 DEF NifSum
<2>7. CASE i = 7 BY <1>1, <1>2, <2>7 DEF NifSum
<2>8. CASE i = 8 BY <1>1, <1>2, <2>8 DEF NifSum
  <2>9. CASE i = 9
    <3>1. \A k \in 1..8 : m[k] = n[k]
      BY <1>1, <2>9
    <3> QED BY <2>9, <3>1 DEF NifSum
  <2> QED BY <2>1, <2>2, <2>3, <2>4, <2>5, <2>6, <2>7, <2>8, <2>9
<1>4. NifSum(n) % 11 \in 0..10 /\ n[9] = 11 - (NifSum(n) % 11)
  BY <1>2 DEF PortugueseNif
<1>5. NifSum(m) \in Int
  BY <1>1, <1>2, <1>3
<1> SUFFICES ASSUME PortugueseNif(m) PROVE FALSE
  BY DEF m
<1>6. m[9] # 0
  BY <1>1
<1>7. NifSum(m) % 11 \in 0..10 /\ m[9] = 11 - (NifSum(m) % 11)
  BY <1>5, <1>6 DEF PortugueseNif
<1>8. CASE i = 9
  BY <1>1, <1>3, <1>4, <1>7, <1>8
<1>9. CASE i # 9
  <2>1. m[9] = n[9]
    BY <1>1, <1>9
  <2>2. NifSum(n) % 11 = NifSum(m) % 11
    <3> DEFINE p == NifSum(n) % 11
               q == NifSum(m) % 11
    <3>1. p \in 0..10 /\ q \in 0..10 /\ 11 - p = 11 - q
      BY <1>4, <1>7, <2>1
    <3> HIDE DEF p, q
    <3>2. p = q
      BY <3>1
    <3> QED BY <3>2 DEF p, q
  <2>3. NifSum(m) = NifSum(n) + (10 - i) * (x - n[i]) /\ 10 - i \in 1..10
    BY <1>3, <1>9
  <2> QED BY <1>1, <1>2, <2>2, <2>3, ChangesModEleven
<1> QED BY <1>8, <1>9

(* The number and the letter of a Spanish identity card.                    *)
SpanishIds == {n \in [1..9 -> 0..22] : \A k \in 1..8 : n[k] \in Digits}

(* Its digits are numbers, and it is one.                                   *)
LEMMA SpanishType ==
  ASSUME NEW n \in SpanishIds
  PROVE  SpanishNumber(n) \in Int /\ \A k \in 1..9 : n[k] \in Int
<1>1. \A k \in 1..9 : n[k] \in Int
  BY DEF SpanishIds
<1> QED BY <1>1 DEF SpanishNumber

(* An identity with one digit, or its letter, changed is not one.           *)
THEOREM DniCatchesSlips ==
  ASSUME NEW n \in SpanishIds, SpanishId(n),
         NEW i \in 1..9, NEW x \in 0..22, i # 9 => x \in Digits, x # n[i]
  PROVE  ~SpanishId([n EXCEPT ![i] = x])
<1> DEFINE m == [n EXCEPT ![i] = x]
<1>1. \A k \in 1..9 : n[k] \in Int /\ m[k] = IF k = i THEN x ELSE n[k]
  BY SpanishType DEF SpanishIds
<1>2. SpanishNumber(n) \in Int /\ x \in Int
  BY SpanishType
<1>a. i # 9 => n[i] \in Digits /\ x \in Digits
  BY DEF SpanishIds
<1> HIDE DEF m
<1> SUFFICES ASSUME SpanishId(m) PROVE FALSE
  BY DEF m
<1>3. CASE i = 9
  <2>1. \A k \in 1..8 : m[k] = n[k]
    BY <1>1, <1>3
  <2>2. SpanishNumber(m) = SpanishNumber(n)
    BY <2>1 DEF SpanishNumber
  <2> QED BY <1>1, <1>3, <2>2 DEF SpanishId
<1>4. ASSUME i \in 1..8 PROVE SpanishNumber(n) % 23 # SpanishNumber(m) % 23
  <2>1. CASE i = 1
    <3>1. SpanishNumber(m) = SpanishNumber(n) + 10000000 * (x - n[i])
      BY <1>1, <1>2, <2>1 DEF SpanishNumber
    <3> QED BY <1>1, <1>2, <1>a, <2>1, <3>1, ChangesModTwentyThree
  <2>2. CASE i = 2
    <3>1. SpanishNumber(m) = SpanishNumber(n) + 1000000 * (x - n[i])
      BY <1>1, <1>2, <2>2 DEF SpanishNumber
    <3> QED BY <1>1, <1>2, <1>a, <2>2, <3>1, ChangesModTwentyThree
  <2>3. CASE i = 3
    <3>1. SpanishNumber(m) = SpanishNumber(n) + 100000 * (x - n[i])
      BY <1>1, <1>2, <2>3 DEF SpanishNumber
    <3> QED BY <1>1, <1>2, <1>a, <2>3, <3>1, ChangesModTwentyThree
  <2>4. CASE i = 4
    <3>1. SpanishNumber(m) = SpanishNumber(n) + 10000 * (x - n[i])
      BY <1>1, <1>2, <2>4 DEF SpanishNumber
    <3> QED BY <1>1, <1>2, <1>a, <2>4, <3>1, ChangesModTwentyThree
  <2>5. CASE i = 5
    <3>1. SpanishNumber(m) = SpanishNumber(n) + 1000 * (x - n[i])
      BY <1>1, <1>2, <2>5 DEF SpanishNumber
    <3> QED BY <1>1, <1>2, <1>a, <2>5, <3>1, ChangesModTwentyThree
  <2>6. CASE i = 6
    <3>1. SpanishNumber(m) = SpanishNumber(n) + 100 * (x - n[i])
      BY <1>1, <1>2, <2>6 DEF SpanishNumber
    <3> QED BY <1>1, <1>2, <1>a, <2>6, <3>1, ChangesModTwentyThree
  <2>7. CASE i = 7
    <3>1. SpanishNumber(m) = SpanishNumber(n) + 10 * (x - n[i])
      BY <1>1, <1>2, <2>7 DEF SpanishNumber
    <3> QED BY <1>1, <1>2, <1>a, <2>7, <3>1, ChangesModTwentyThree
  <2>8. CASE i = 8
    <3>1. SpanishNumber(m) = SpanishNumber(n) + 1 * (x - n[i])
      BY <1>1, <1>2, <2>8 DEF SpanishNumber
    <3> QED BY <1>1, <1>2, <1>a, <2>8, <3>1, ChangesModTwentyThree
  <2> QED BY <1>4, <2>1, <2>2, <2>3, <2>4, <2>5, <2>6, <2>7, <2>8
<1>5. CASE i \in 1..8
  <2>1. m[9] = n[9]
    BY <1>1, <1>5
  <2> QED BY <1>4, <1>5, <2>1 DEF SpanishId
<1> QED BY <1>3, <1>5
-----------------------------------------------------------------------------
(* Two neighbours swapped.                                                  *)
Swapped(n, i) == [n EXCEPT ![i] = n[i + 1], ![i + 1] = n[i]]

(* A number of the National Health Service with two neighbours swapped is   *)
(* not one.                                                                 *)
THEOREM NhsCatchesSwaps ==
  ASSUME NEW n \in [1..10 -> Digits], NhsNumber(n), NEW i \in 1..9, n[i] # n[i + 1]
  PROVE  ~NhsNumber(Swapped(n, i))
<1> DEFINE m == Swapped(n, i)
<1>1. \A k \in 1..10 : /\ n[k] \in Int /\ n[k] \in Digits
                        /\ m[k] = IF k = i THEN n[i + 1] ELSE IF k = i + 1 THEN n[i] ELSE n[k]
  <2>1. \A k \in 1..10 : n[k] \in Digits /\ n[k] \in Int
    BY DEF Digits
  <2>2. DOMAIN n = 1..10 /\ i \in 1..(10 - 1) /\ 10 \in Nat
    OBVIOUS
  <2>3. \A k \in 1..10 : Swapped(n, i)[k] = IF k = i THEN n[i + 1]
                                           ELSE IF k = i + 1 THEN n[i] ELSE n[k]
    BY <2>2 DEF Swapped
  <2> QED BY <2>1, <2>3
<1>2. NhsSum(n) \in Int /\ i + 1 \in 1..10 /\ i \in 1..10
  BY <1>1 DEF NhsSum
<1> HIDE DEF m
<1>3. NhsSum(m) + m[10] = (NhsSum(n) + n[10]) + 1 * (n[i + 1] - n[i])
  <2>1. CASE i = 1
    <3>1. m[1] = n[2] /\ m[2] = n[1] /\ m[3] = n[3] /\ m[4] = n[4] /\ m[5] = n[5] /\
          m[6] = n[6] /\ m[7] = n[7] /\ m[8] = n[8] /\ m[9] = n[9] /\ m[10] = n[10]
      BY <1>1, <2>1
    <3>2. NhsSum(m) + m[10] = (NhsSum(n) + n[10]) + 1 * (n[2] - n[1])
      BY <1>1, <2>1, <3>1 DEF NhsSum
    <3> QED BY <2>1, <3>2
  <2>2. CASE i = 2
    <3>1. m[1] = n[1] /\ m[2] = n[3] /\ m[3] = n[2] /\ m[4] = n[4] /\ m[5] = n[5] /\
          m[6] = n[6] /\ m[7] = n[7] /\ m[8] = n[8] /\ m[9] = n[9] /\ m[10] = n[10]
      BY <1>1, <2>2
    <3>2. NhsSum(m) + m[10] = (NhsSum(n) + n[10]) + 1 * (n[3] - n[2])
      BY <1>1, <2>2, <3>1 DEF NhsSum
    <3> QED BY <2>2, <3>2
  <2>3. CASE i = 3
    <3>1. m[1] = n[1] /\ m[2] = n[2] /\ m[3] = n[4] /\ m[4] = n[3] /\ m[5] = n[5] /\
          m[6] = n[6] /\ m[7] = n[7] /\ m[8] = n[8] /\ m[9] = n[9] /\ m[10] = n[10]
      BY <1>1, <2>3
    <3>2. NhsSum(m) + m[10] = (NhsSum(n) + n[10]) + 1 * (n[4] - n[3])
      BY <1>1, <2>3, <3>1 DEF NhsSum
    <3> QED BY <2>3, <3>2
  <2>4. CASE i = 4
    <3>1. m[1] = n[1] /\ m[2] = n[2] /\ m[3] = n[3] /\ m[4] = n[5] /\ m[5] = n[4] /\
          m[6] = n[6] /\ m[7] = n[7] /\ m[8] = n[8] /\ m[9] = n[9] /\ m[10] = n[10]
      BY <1>1, <2>4
    <3>2. NhsSum(m) + m[10] = (NhsSum(n) + n[10]) + 1 * (n[5] - n[4])
      BY <1>1, <2>4, <3>1 DEF NhsSum
    <3> QED BY <2>4, <3>2
  <2>5. CASE i = 5
    <3>1. m[1] = n[1] /\ m[2] = n[2] /\ m[3] = n[3] /\ m[4] = n[4] /\ m[5] = n[6] /\
          m[6] = n[5] /\ m[7] = n[7] /\ m[8] = n[8] /\ m[9] = n[9] /\ m[10] = n[10]
      BY <1>1, <2>5
    <3>2. NhsSum(m) + m[10] = (NhsSum(n) + n[10]) + 1 * (n[6] - n[5])
      BY <1>1, <2>5, <3>1 DEF NhsSum
    <3> QED BY <2>5, <3>2
  <2>6. CASE i = 6
    <3>1. m[1] = n[1] /\ m[2] = n[2] /\ m[3] = n[3] /\ m[4] = n[4] /\ m[5] = n[5] /\
          m[6] = n[7] /\ m[7] = n[6] /\ m[8] = n[8] /\ m[9] = n[9] /\ m[10] = n[10]
      BY <1>1, <2>6
    <3>2. NhsSum(m) + m[10] = (NhsSum(n) + n[10]) + 1 * (n[7] - n[6])
      BY <1>1, <2>6, <3>1 DEF NhsSum
    <3> QED BY <2>6, <3>2
  <2>7. CASE i = 7
    <3>1. m[1] = n[1] /\ m[2] = n[2] /\ m[3] = n[3] /\ m[4] = n[4] /\ m[5] = n[5] /\
          m[6] = n[6] /\ m[7] = n[8] /\ m[8] = n[7] /\ m[9] = n[9] /\ m[10] = n[10]
      BY <1>1, <2>7
    <3>2. NhsSum(m) + m[10] = (NhsSum(n) + n[10]) + 1 * (n[8] - n[7])
      BY <1>1, <2>7, <3>1 DEF NhsSum
    <3> QED BY <2>7, <3>2
  <2>8. CASE i = 8
    <3>1. m[1] = n[1] /\ m[2] = n[2] /\ m[3] = n[3] /\ m[4] = n[4] /\ m[5] = n[5] /\
          m[6] = n[6] /\ m[7] = n[7] /\ m[8] = n[9] /\ m[9] = n[8] /\ m[10] = n[10]
      BY <1>1, <2>8
    <3>2. NhsSum(m) + m[10] = (NhsSum(n) + n[10]) + 1 * (n[9] - n[8])
      BY <1>1, <2>8, <3>1 DEF NhsSum
    <3> QED BY <2>8, <3>2
  <2>9. CASE i = 9
    <3>1. m[1] = n[1] /\ m[2] = n[2] /\ m[3] = n[3] /\ m[4] = n[4] /\ m[5] = n[5] /\
          m[6] = n[6] /\ m[7] = n[7] /\ m[8] = n[8] /\ m[9] = n[10] /\ m[10] = n[9]
      BY <1>1, <2>9
    <3>2. NhsSum(m) + m[10] = (NhsSum(n) + n[10]) + 1 * (n[10] - n[9])
      BY <1>1, <2>9, <3>1 DEF NhsSum
    <3> QED BY <2>9, <3>2
  <2> QED BY <2>1, <2>2, <2>3, <2>4, <2>5, <2>6, <2>7, <2>8, <2>9
<1>4. NhsSum(m) \in Int /\ m[10] \in Digits
  <2>1. \A k \in 1..10 : m[k] \in Int /\ m[k] \in Digits
    BY <1>1, <1>2
  <2> QED BY <2>1 DEF NhsSum
<1>5. NhsSum(n) + n[10] \in Int
  BY <1>1, <1>2
<1>6. (NhsSum(n) + n[10]) % 11 = 0
  BY <1>1, <1>2, NhsIsMultiple
<1>7. (NhsSum(m) + m[10]) % 11 # 0
  BY <1>1, <1>2, <1>3, <1>5, <1>6, MovesEleven
<1>8. ~NhsNumber(m)
  BY <1>4, <1>7, NhsIsMultiple
<1> QED BY <1>8 DEF m

(* A citizen service number with two neighbours swapped is not one.         *)
THEOREM BsnCatchesSwaps ==
  ASSUME NEW n \in [1..9 -> Digits], DutchBsn(n), NEW i \in 1..8, n[i] # n[i + 1]
  PROVE  ~DutchBsn(Swapped(n, i))
<1> DEFINE m == Swapped(n, i)
<1>1. \A k \in 1..9 : /\ n[k] \in Int /\ n[k] \in Digits
                       /\ m[k] = IF k = i THEN n[i + 1] ELSE IF k = i + 1 THEN n[i] ELSE n[k]
  <2>1. \A k \in 1..9 : n[k] \in Digits /\ n[k] \in Int
    BY DEF Digits
  <2>2. DOMAIN n = 1..9 /\ i \in 1..(9 - 1) /\ 9 \in Nat
    OBVIOUS
  <2>3. \A k \in 1..9 : Swapped(n, i)[k] = IF k = i THEN n[i + 1]
                                           ELSE IF k = i + 1 THEN n[i] ELSE n[k]
    BY <2>2 DEF Swapped
  <2> QED BY <2>1, <2>3
<1>2. BsnSum(n) \in Int /\ i + 1 \in 1..9 /\ i \in 1..9
  BY <1>1 DEF BsnSum
<1> HIDE DEF m
<1>3. \E w \in 1..10 : BsnSum(m) = BsnSum(n) + w * (n[i + 1] - n[i])
  <2>1. CASE i = 1
    <3>1. m[1] = n[2] /\ m[2] = n[1] /\ m[3] = n[3] /\ m[4] = n[4] /\ m[5] = n[5] /\
          m[6] = n[6] /\ m[7] = n[7] /\ m[8] = n[8] /\ m[9] = n[9]
      BY <1>1, <2>1
    <3>2. BsnSum(m) = BsnSum(n) + 1 * (n[2] - n[1])
      BY <1>1, <2>1, <3>1 DEF BsnSum
    <3> QED BY <2>1, <3>2
  <2>2. CASE i = 2
    <3>1. m[1] = n[1] /\ m[2] = n[3] /\ m[3] = n[2] /\ m[4] = n[4] /\ m[5] = n[5] /\
          m[6] = n[6] /\ m[7] = n[7] /\ m[8] = n[8] /\ m[9] = n[9]
      BY <1>1, <2>2
    <3>2. BsnSum(m) = BsnSum(n) + 1 * (n[3] - n[2])
      BY <1>1, <2>2, <3>1 DEF BsnSum
    <3> QED BY <2>2, <3>2
  <2>3. CASE i = 3
    <3>1. m[1] = n[1] /\ m[2] = n[2] /\ m[3] = n[4] /\ m[4] = n[3] /\ m[5] = n[5] /\
          m[6] = n[6] /\ m[7] = n[7] /\ m[8] = n[8] /\ m[9] = n[9]
      BY <1>1, <2>3
    <3>2. BsnSum(m) = BsnSum(n) + 1 * (n[4] - n[3])
      BY <1>1, <2>3, <3>1 DEF BsnSum
    <3> QED BY <2>3, <3>2
  <2>4. CASE i = 4
    <3>1. m[1] = n[1] /\ m[2] = n[2] /\ m[3] = n[3] /\ m[4] = n[5] /\ m[5] = n[4] /\
          m[6] = n[6] /\ m[7] = n[7] /\ m[8] = n[8] /\ m[9] = n[9]
      BY <1>1, <2>4
    <3>2. BsnSum(m) = BsnSum(n) + 1 * (n[5] - n[4])
      BY <1>1, <2>4, <3>1 DEF BsnSum
    <3> QED BY <2>4, <3>2
  <2>5. CASE i = 5
    <3>1. m[1] = n[1] /\ m[2] = n[2] /\ m[3] = n[3] /\ m[4] = n[4] /\ m[5] = n[6] /\
          m[6] = n[5] /\ m[7] = n[7] /\ m[8] = n[8] /\ m[9] = n[9]
      BY <1>1, <2>5
    <3>2. BsnSum(m) = BsnSum(n) + 1 * (n[6] - n[5])
      BY <1>1, <2>5, <3>1 DEF BsnSum
    <3> QED BY <2>5, <3>2
  <2>6. CASE i = 6
    <3>1. m[1] = n[1] /\ m[2] = n[2] /\ m[3] = n[3] /\ m[4] = n[4] /\ m[5] = n[5] /\
          m[6] = n[7] /\ m[7] = n[6] /\ m[8] = n[8] /\ m[9] = n[9]
      BY <1>1, <2>6
    <3>2. BsnSum(m) = BsnSum(n) + 1 * (n[7] - n[6])
      BY <1>1, <2>6, <3>1 DEF BsnSum
    <3> QED BY <2>6, <3>2
  <2>7. CASE i = 7
    <3>1. m[1] = n[1] /\ m[2] = n[2] /\ m[3] = n[3] /\ m[4] = n[4] /\ m[5] = n[5] /\
          m[6] = n[6] /\ m[7] = n[8] /\ m[8] = n[7] /\ m[9] = n[9]
      BY <1>1, <2>7
    <3>2. BsnSum(m) = BsnSum(n) + 1 * (n[8] - n[7])
      BY <1>1, <2>7, <3>1 DEF BsnSum
    <3> QED BY <2>7, <3>2
  <2>8. CASE i = 8
    <3>1. m[1] = n[1] /\ m[2] = n[2] /\ m[3] = n[3] /\ m[4] = n[4] /\ m[5] = n[5] /\
          m[6] = n[6] /\ m[7] = n[7] /\ m[8] = n[9] /\ m[9] = n[8]
      BY <1>1, <2>8
    <3>2. BsnSum(m) = BsnSum(n) + 3 * (n[9] - n[8])
      BY <1>1, <2>8, <3>1 DEF BsnSum
    <3> QED BY <2>8, <3>2
  <2> QED BY <2>1, <2>2, <2>3, <2>4, <2>5, <2>6, <2>7, <2>8
<1>4. BsnSum(m) % 11 # 0
  BY <1>1, <1>2, <1>3, MovesEleven DEF DutchBsn
<1> QED BY <1>4 DEF DutchBsn, m

(* An identity with two neighbouring digits swapped is not one.             *)
THEOREM DniCatchesSwaps ==
  ASSUME NEW n \in SpanishIds, SpanishId(n), NEW i \in 1..7, n[i] # n[i + 1]
  PROVE  ~SpanishId(Swapped(n, i))
<1> DEFINE m == Swapped(n, i)
<1>1. \A k \in 1..9 : /\ n[k] \in Int
                       /\ m[k] = IF k = i THEN n[i + 1] ELSE IF k = i + 1 THEN n[i] ELSE n[k]
  <2>1. \A k \in 1..9 : n[k] \in Int
    BY SpanishType
  <2>2. DOMAIN n = 1..9 /\ i \in 1..(9 - 1) /\ 9 \in Nat
    BY DEF SpanishIds
  <2>3. \A k \in 1..9 : Swapped(n, i)[k] = IF k = i THEN n[i + 1]
                                           ELSE IF k = i + 1 THEN n[i] ELSE n[k]
    BY <2>2 DEF Swapped
  <2> QED BY <2>1, <2>3
<1>2. SpanishNumber(n) \in Int
  BY SpanishType
<1>a. n[i] \in Digits /\ n[i + 1] \in Digits
  BY DEF SpanishIds
<1> HIDE DEF m
<1>3. SpanishNumber(n) % 23 # SpanishNumber(m) % 23
  <2>1. CASE i = 1
    <3>1. m[1] = n[2] /\ m[2] = n[1] /\ m[3] = n[3] /\ m[4] = n[4] /\ m[5] = n[5] /\
          m[6] = n[6] /\ m[7] = n[7] /\ m[8] = n[8] /\ m[9] = n[9]
      BY <1>1, <2>1
    <3>2. SpanishNumber(m) = SpanishNumber(n) + 9000000 * (n[2] - n[1])
      BY <1>1, <2>1, <3>1 DEF SpanishNumber
    <3> QED BY <1>2, <1>a, <2>1, <3>2, ChangesModTwentyThree
  <2>2. CASE i = 2
    <3>1. m[1] = n[1] /\ m[2] = n[3] /\ m[3] = n[2] /\ m[4] = n[4] /\ m[5] = n[5] /\
          m[6] = n[6] /\ m[7] = n[7] /\ m[8] = n[8] /\ m[9] = n[9]
      BY <1>1, <2>2
    <3>2. SpanishNumber(m) = SpanishNumber(n) + 900000 * (n[3] - n[2])
      BY <1>1, <2>2, <3>1 DEF SpanishNumber
    <3> QED BY <1>2, <1>a, <2>2, <3>2, ChangesModTwentyThree
  <2>3. CASE i = 3
    <3>1. m[1] = n[1] /\ m[2] = n[2] /\ m[3] = n[4] /\ m[4] = n[3] /\ m[5] = n[5] /\
          m[6] = n[6] /\ m[7] = n[7] /\ m[8] = n[8] /\ m[9] = n[9]
      BY <1>1, <2>3
    <3>2. SpanishNumber(m) = SpanishNumber(n) + 90000 * (n[4] - n[3])
      BY <1>1, <2>3, <3>1 DEF SpanishNumber
    <3> QED BY <1>2, <1>a, <2>3, <3>2, ChangesModTwentyThree
  <2>4. CASE i = 4
    <3>1. m[1] = n[1] /\ m[2] = n[2] /\ m[3] = n[3] /\ m[4] = n[5] /\ m[5] = n[4] /\
          m[6] = n[6] /\ m[7] = n[7] /\ m[8] = n[8] /\ m[9] = n[9]
      BY <1>1, <2>4
    <3>2. SpanishNumber(m) = SpanishNumber(n) + 9000 * (n[5] - n[4])
      BY <1>1, <2>4, <3>1 DEF SpanishNumber
    <3> QED BY <1>2, <1>a, <2>4, <3>2, ChangesModTwentyThree
  <2>5. CASE i = 5
    <3>1. m[1] = n[1] /\ m[2] = n[2] /\ m[3] = n[3] /\ m[4] = n[4] /\ m[5] = n[6] /\
          m[6] = n[5] /\ m[7] = n[7] /\ m[8] = n[8] /\ m[9] = n[9]
      BY <1>1, <2>5
    <3>2. SpanishNumber(m) = SpanishNumber(n) + 900 * (n[6] - n[5])
      BY <1>1, <2>5, <3>1 DEF SpanishNumber
    <3> QED BY <1>2, <1>a, <2>5, <3>2, ChangesModTwentyThree
  <2>6. CASE i = 6
    <3>1. m[1] = n[1] /\ m[2] = n[2] /\ m[3] = n[3] /\ m[4] = n[4] /\ m[5] = n[5] /\
          m[6] = n[7] /\ m[7] = n[6] /\ m[8] = n[8] /\ m[9] = n[9]
      BY <1>1, <2>6
    <3>2. SpanishNumber(m) = SpanishNumber(n) + 90 * (n[7] - n[6])
      BY <1>1, <2>6, <3>1 DEF SpanishNumber
    <3> QED BY <1>2, <1>a, <2>6, <3>2, ChangesModTwentyThree
  <2>7. CASE i = 7
    <3>1. m[1] = n[1] /\ m[2] = n[2] /\ m[3] = n[3] /\ m[4] = n[4] /\ m[5] = n[5] /\
          m[6] = n[6] /\ m[7] = n[8] /\ m[8] = n[7] /\ m[9] = n[9]
      BY <1>1, <2>7
    <3>2. SpanishNumber(m) = SpanishNumber(n) + 9 * (n[8] - n[7])
      BY <1>1, <2>7, <3>1 DEF SpanishNumber
    <3> QED BY <1>2, <1>a, <2>7, <3>2, ChangesModTwentyThree
  <2> QED BY <2>1, <2>2, <2>3, <2>4, <2>5, <2>6, <2>7
<1>4. m[9] = n[9]
  BY <1>1
<1> QED BY <1>3, <1>4 DEF SpanishId, m

(* What is carried from digit to digit of an IBAN: one step, ...            *)
Carry(f, n, i) ==
  IF i = 0 THEN 0
  ELSE 10 * (IF (i - 1) % 7 = 0 THEN f[i - 1] % 97 ELSE f[i - 1]) + n[i]

(* ... the first k of them, ...                                             *)
AreCarried(f, n, k) == f = [i \in 0..k |-> Carry(f, n, i)]

(* ... which there are, by induction on the length.                         *)
LEMMA CarriedExist ==
  ASSUME NEW n, NEW L \in Nat
  PROVE  \E f : AreCarried(f, n, L)
<1> DEFINE I == {k \in Nat : \E f : AreCarried(f, n, k)}
<1>1. 0 \in I
  <2> DEFINE g == [i \in 0..0 |-> 0]
  <2>1. \A i \in 0..0 : i = 0
    OBVIOUS
  <2>2. AreCarried(g, n, 0)
    BY <2>1 DEF AreCarried, Carry
  <2> QED BY <2>2
<1>2. ASSUME NEW k \in I PROVE k + 1 \in I
  <2>1. PICK g : AreCarried(g, n, k)
    OBVIOUS
  <2> DEFINE h == [i \in 0..(k + 1) |-> IF i = k + 1 THEN Carry(g, n, k + 1) ELSE g[i]]
  <2>2. \A i \in 0..k : i \in 0..(k + 1) /\ h[i] = g[i]
    OBVIOUS
  <2>3. \A i \in 0..(k + 1) : i \in 0..k \/ i = k + 1
    OBVIOUS
  <2>4. \A i \in 0..(k + 1) : i = 0 \/ i - 1 \in 0..k
    OBVIOUS
  <2>5. k + 1 \in 0..(k + 1) /\ h[k + 1] = Carry(g, n, k + 1)
    OBVIOUS
  <2>6. h = [i \in 0..(k + 1) |-> h[i]]
    OBVIOUS
  <2> HIDE DEF h
  <2>7. ASSUME NEW i \in 0..(k + 1) PROVE Carry(h, n, i) = Carry(g, n, i)
    <3>1. i = 0 \/ h[i - 1] = g[i - 1]
      BY <2>2, <2>4
    <3> QED BY <3>1, Zenon DEF Carry
  <2>8. ASSUME NEW i \in 0..(k + 1) PROVE h[i] = Carry(h, n, i)
    <3>1. CASE i \in 0..k
      <4>1. g[i] = Carry(g, n, i)
        BY <2>1, <3>1, Zenon DEF AreCarried
      <4> QED BY <2>2, <2>7, <3>1, <4>1, Zenon
    <3>2. CASE i = k + 1
      BY <2>5, <2>7, <3>2, Zenon
    <3> QED BY <2>3, <3>1, <3>2
  <2>9. AreCarried(h, n, k + 1)
    BY <2>6, <2>8, Zenon DEF AreCarried
  <2> QED BY <2>9
<1> HIDE DEF I
<1>3. I = Nat
  <2>1. I \in SUBSET Nat
    BY DEF I
  <2> QED BY <1>1, <1>2, <2>1, NumbersByInduction
<1> QED BY <1>3 DEF I

(* The carried numbers of an IBAN.                                          *)
Carried(n) ==
  CHOOSE f : f = [i \in 0..Len(n) |->
                    IF i = 0 THEN 0
                    ELSE 10 * (IF (i - 1) % 7 = 0 THEN f[i - 1] % 97 ELSE f[i - 1]) + n[i]]

(* Only the remainder counts when a digit is put behind a number.           *)
LEMMA TenTimesMod ==
  ASSUME NEW v \in Nat, NEW d \in Digits
  PROVE  /\ (10 * (v % 97) + d) % 97 = (10 * v + d) % 97
         /\ 10 * (v % 97) + d \in Nat /\ 10 * v + d \in Nat
         /\ v % 97 \in 0..96 /\ (v % 97) % 97 = v % 97
<1> DEFINE q == v \div 97
           r == v % 97
<1>1. q \in Nat /\ r \in 0..96 /\ v = 97 * q + r
  OBVIOUS
<1> HIDE DEF q, r
<1>2. 10 * v + d = 97 * (10 * q) + (10 * r + d)
  BY <1>1 DEF Digits
<1>3. (10 * r + d) % 97 = (10 * v + d) % 97
  BY <1>1, <1>2 DEF Digits
<1>4. r % 97 = r
  BY <1>1
<1>5. 10 * r + d \in Nat /\ 10 * v + d \in Nat
  BY <1>1 DEF Digits
<1> QED BY <1>1, <1>3, <1>4, <1>5 DEF r

(* Wherever the groups end, what is carried is modulo 97 the number that    *)
(* the digits up to there make.                                             *)
LEMMA IbanCarries ==
  ASSUME NEW n \in Seq(Digits)
  PROVE  /\ \A i \in 0..Len(n) : Carried(n)[i] \in Nat
         /\ Carried(n)[0] = 0
         /\ \A i \in 1..Len(n) :
              Carried(n)[i] % 97 = (10 * (Carried(n)[i - 1] % 97) + n[i]) % 97
         /\ Iban(n) <=> Carried(n)[Len(n)] % 97 = 1
<1> DEFINE C == Carried(n)
           L == Len(n)
<1>1. L \in Nat /\ \A i \in 1..L : n[i] \in Digits
  BY LenProperties
<1>2. \E f : AreCarried(f, n, L)
  BY <1>1, CarriedExist
<1>3. AreCarried(C, n, L)
  <2>1. \E f : f = [i \in 0..Len(n) |->
                    IF i = 0 THEN 0
                    ELSE 10 * (IF (i - 1) % 7 = 0 THEN f[i - 1] % 97 ELSE f[i - 1]) + n[i]]
    BY <1>2, Zenon DEF AreCarried, Carry
  <2>2. C = [i \in 0..Len(n) |->
                    IF i = 0 THEN 0
                    ELSE 10 * (IF (i - 1) % 7 = 0 THEN C[i - 1] % 97 ELSE C[i - 1]) + n[i]]
    BY <2>1, Zenon DEF Carried
  <2> QED BY <2>2, Zenon DEF AreCarried, Carry
<1>4. Iban(n) <=> C[L] % 97 = 1
  BY Zenon DEF Iban, Carried
<1> HIDE DEF C
<1>5. \A i \in 0..L : C[i] = Carry(C, n, i)
  BY <1>3, Zenon DEF AreCarried
<1> HIDE DEF L
<1>6. C[0] = 0
  BY <1>1, <1>5 DEF Carry
<1>7. ASSUME NEW i \in 1..L, C[i - 1] \in Nat
      PROVE  C[i] \in Nat /\ C[i] % 97 = (10 * (C[i - 1] % 97) + n[i]) % 97
  <2>1. C[i] = Carry(C, n, i) /\ i # 0 /\ n[i] \in Digits
    BY <1>1, <1>5
  <2> DEFINE v == C[i - 1]
             d == n[i]
  <2>2. C[i] = 10 * (v % 97) + d \/ C[i] = 10 * v + d
    BY <2>1, Zenon DEF Carry
  <2>3. v \in Nat /\ d \in Digits
    BY <1>7, <2>1
  <2> HIDE DEF v, d
  <2>4. /\ (10 * (v % 97) + d) % 97 = (10 * v + d) % 97
        /\ 10 * (v % 97) + d \in Nat /\ 10 * v + d \in Nat
    BY <2>3, TenTimesMod
  <2>5. C[i] \in Nat /\ C[i] % 97 = (10 * (v % 97) + d) % 97
    BY <2>2, <2>4, Zenon
  <2> QED BY <2>5 DEF v, d
<1> DEFINE I == {i \in Nat : i <= L => C[i] \in Nat}
<1>8. 0 \in I
  BY <1>6
<1>9. ASSUME NEW i \in I PROVE i + 1 \in I
  <2> SUFFICES ASSUME i + 1 <= L PROVE C[i + 1] \in Nat
    OBVIOUS
  <2>1. i + 1 \in 1..L /\ (i + 1) - 1 = i /\ C[i] \in Nat
    BY <1>1
  <2> QED BY <1>7, <2>1
<1> HIDE DEF I
<1>10. I = Nat
  <2>1. I \in SUBSET Nat
    BY DEF I
  <2> QED BY <1>8, <1>9, <2>1, NumbersByInduction
<1>11. \A i \in 0..L : C[i] \in Nat
  BY <1>1, <1>10 DEF I
<1>12. \A i \in 1..L : C[i] % 97 = (10 * (C[i - 1] % 97) + n[i]) % 97
  <2>1. \A i \in 1..L : i - 1 \in 0..L
    BY <1>1
  <2> QED BY <1>7, <1>11, <2>1
<1> QED BY <1>4, <1>6, <1>11, <1>12 DEF C, L

(* Remainders modulo 97.                                                    *)
LEMMA RemainderType == \A v \in Nat : v % 97 \in 0..96
OBVIOUS

(* Other remainders stay others under the same digit, ...                   *)
LEMMA RemaindersStayApart ==
  ASSUME NEW a \in 0..96, NEW b \in 0..96, a # b, NEW d \in Digits
  PROVE  (10 * a + d) % 97 # (10 * b + d) % 97
<1> DEFINE p == (10 * a + d) \div 97
           q == (10 * b + d) \div 97
           r == (10 * a + d) % 97
           s == (10 * b + d) % 97
<1>1. p \in Int /\ r \in 0..96 /\ 10 * a + d = 97 * p + r
  BY DEF Digits
<1>2. q \in Int /\ s \in 0..96 /\ 10 * b + d = 97 * q + s
  BY DEF Digits
<1> HIDE DEF p, q, r, s
<1>3. ASSUME r = s PROVE FALSE
  <2> DEFINE u == a - b
             v == p - q
  <2>1. u \in -96..96 /\ v \in Int /\ 10 * u = 97 * v
    BY <1>1, <1>2, <1>3 DEF Digits
  <2>2. u # 0
    OBVIOUS
  <2> HIDE DEF u, v
  <2>3. u = 97 * (3 * u - 29 * v)
    BY <2>1
  <2>4. 3 * u - 29 * v \in Int
    BY <2>1
  <2> DEFINE w == 3 * u - 29 * v
  <2> HIDE DEF w
  <2>5. u = 97 * w /\ w \in Int
    BY <2>3, <2>4 DEF w
  <2> QED BY <2>1, <2>2, <2>5
<1> QED BY <1>3 DEF r, s

(* ... another digit makes another remainder, and ...                       *)
LEMMA DigitsTellApart ==
  ASSUME NEW a \in 0..96, NEW d \in Digits, NEW e \in Digits, d # e
  PROVE  (10 * a + d) % 97 # (10 * a + e) % 97
<1> DEFINE p == (10 * a + d) \div 97
           q == (10 * a + e) \div 97
           r == (10 * a + d) % 97
           s == (10 * a + e) % 97
<1>1. p \in Int /\ r \in 0..96 /\ 10 * a + d = 97 * p + r
  BY DEF Digits
<1>2. q \in Int /\ s \in 0..96 /\ 10 * a + e = 97 * q + s
  BY DEF Digits
<1> HIDE DEF p, q, r, s
<1>3. r # s
  BY <1>1, <1>2 DEF Digits
<1> QED BY <1>3 DEF r, s

(* ... so do two digits in the other order.                                 *)
LEMMA OrdersTellApart ==
  ASSUME NEW a \in 0..96, NEW d \in Digits, NEW e \in Digits, d # e
  PROVE  (10 * ((10 * a + d) % 97) + e) % 97 # (10 * ((10 * a + e) % 97) + d) % 97
<1>1. 10 * a + d \in Nat /\ 10 * a + e \in Nat
  BY DEF Digits
<1>2. /\ (10 * ((10 * a + d) % 97) + e) % 97 = (10 * (10 * a + d) + e) % 97
      /\ (10 * ((10 * a + e) % 97) + d) % 97 = (10 * (10 * a + e) + d) % 97
  BY <1>1, TenTimesMod
<1> DEFINE x == 10 * (10 * a + d) + e
           y == 10 * (10 * a + e) + d
           p == x \div 97
           q == y \div 97
           r == x % 97
           s == y % 97
<1>3. x \in Nat /\ y \in Nat /\ x - y = 9 * (d - e)
  BY DEF Digits
<1> HIDE DEF x, y
<1>4. p \in Int /\ r \in 0..96 /\ x = 97 * p + r
  BY <1>3
<1>5. q \in Int /\ s \in 0..96 /\ y = 97 * q + s
  BY <1>3
<1> HIDE DEF p, q, r, s
<1>6. r # s
  BY <1>3, <1>4, <1>5 DEF Digits
<1> QED BY <1>2, <1>6 DEF r, s, x, y

(* What is equal up to a place has the same remainder there; ...            *)
LEMMA SameSoFar ==
  ASSUME NEW n \in Seq(Digits), NEW m \in Seq(Digits), Len(n) = Len(m), NEW p \in 0..Len(n),
         \A k \in 1..p : n[k] = m[k]
  PROVE  Carried(n)[p] % 97 = Carried(m)[p] % 97
<1> DEFINE C == Carried(n)
           D == Carried(m)
           L == Len(n)
           I == {k \in Nat : k <= p => C[k] % 97 = D[k] % 97}
<1>0. L \in Nat /\ p \in 0..L /\ \A k \in 1..p : n[k] = m[k]
  OBVIOUS
<1>1. C[0] = 0 /\ \A i \in 1..L : C[i] % 97 = (10 * (C[i - 1] % 97) + n[i]) % 97
  BY IbanCarries, Zenon
<1>2. D[0] = 0 /\ \A i \in 1..L : D[i] % 97 = (10 * (D[i - 1] % 97) + m[i]) % 97
  BY IbanCarries, ZenonT(60)
<1> HIDE DEF C, D, L
<1>3. 0 \in I
  BY <1>1, <1>2
<1>4. ASSUME NEW k \in I PROVE k + 1 \in I
  <2> SUFFICES ASSUME k + 1 <= p PROVE C[k + 1] % 97 = D[k + 1] % 97
    OBVIOUS
  <2>1. k + 1 \in 1..L /\ k + 1 \in 1..p /\ (k + 1) - 1 = k /\ k <= p
    BY <1>0
  <2>2. C[k] % 97 = D[k] % 97 /\ n[k + 1] = m[k + 1]
    BY <1>0, <2>1
  <2>3. C[k + 1] % 97 = (10 * (C[k] % 97) + n[k + 1]) % 97
    BY <1>1, <2>1
  <2>4. D[k + 1] % 97 = (10 * (D[k] % 97) + m[k + 1]) % 97
    BY <1>2, <2>1
  <2> QED BY <2>2, <2>3, <2>4, Zenon
<1> HIDE DEF I
<1>5. I = Nat
  <2>1. I \in SUBSET Nat
    BY DEF I
  <2> QED BY <1>3, <1>4, <2>1, NumbersByInduction
<1>6. p \in I /\ p <= p
  BY <1>0, <1>5
<1> QED BY <1>6 DEF I, C, D

(* ... what differs there and is equal from there on has not.               *)
LEMMA ApartToTheEnd ==
  ASSUME NEW n \in Seq(Digits), NEW m \in Seq(Digits), Len(n) = Len(m), NEW p \in 0..Len(n),
         \A k \in (p + 1)..Len(n) : n[k] = m[k],
         Carried(n)[p] % 97 # Carried(m)[p] % 97
  PROVE  ~(Iban(n) /\ Iban(m))
<1> DEFINE C == Carried(n)
           D == Carried(m)
           L == Len(n)
           I == {k \in Nat : p + k <= L => C[p + k] % 97 # D[p + k] % 97}
<1>0. L \in Nat /\ p \in 0..L /\ \A k \in (p + 1)..L : n[k] = m[k]
  OBVIOUS
<1>1. /\ \A i \in 0..L : C[i] \in Nat
      /\ \A i \in 1..L : C[i] % 97 = (10 * (C[i - 1] % 97) + n[i]) % 97
      /\ Iban(n) <=> C[L] % 97 = 1
  BY IbanCarries, Zenon
<1>2. /\ \A i \in 0..L : D[i] \in Nat
      /\ \A i \in 1..L : D[i] % 97 = (10 * (D[i - 1] % 97) + m[i]) % 97
      /\ Iban(m) <=> D[L] % 97 = 1
  <2>1. /\ \A i \in 0..Len(m) : D[i] \in Nat
        /\ \A i \in 1..Len(m) : D[i] % 97 = (10 * (D[i - 1] % 97) + m[i]) % 97
        /\ Iban(m) <=> D[Len(m)] % 97 = 1
    BY IbanCarries, Zenon
  <2>2. Len(m) = L
    OBVIOUS
  <2> QED BY <2>1, <2>2, Zenon
<1>3. \A k \in 1..L : n[k] \in Digits
  BY LenProperties
<1>4. C[p] % 97 # D[p] % 97
  OBVIOUS
<1> HIDE DEF C, D, L
<1>5. 0 \in I
  BY <1>0, <1>4
<1>6. ASSUME NEW k \in I PROVE k + 1 \in I
  <2> SUFFICES ASSUME p + (k + 1) <= L PROVE C[p + (k + 1)] % 97 # D[p + (k + 1)] % 97
    OBVIOUS
  <2> DEFINE j == p + k
  <2>1. /\ j \in 0..L /\ j + 1 \in 1..L /\ j + 1 \in (p + 1)..L /\ (j + 1) - 1 = j /\ j <= L
        /\ p + (k + 1) = j + 1
    BY <1>0
  <2>2. C[j] % 97 # D[j] % 97
    BY <2>1
  <2> HIDE DEF j
  <2>3. C[j + 1] % 97 = (10 * (C[j] % 97) + n[j + 1]) % 97
    BY <1>1, <2>1
  <2>4. D[j + 1] % 97 = (10 * (D[j] % 97) + n[j + 1]) % 97
    BY <1>0, <1>2, <2>1
  <2>5. C[j] \in Nat /\ D[j] \in Nat
    BY <1>1, <1>2, <2>1
  <2>6. C[j] % 97 \in 0..96 /\ D[j] % 97 \in 0..96 /\ n[j + 1] \in Digits
    BY <1>3, <2>1, <2>5, RemainderType, Zenon
  <2>7. (10 * (C[j] % 97) + n[j + 1]) % 97 # (10 * (D[j] % 97) + n[j + 1]) % 97
    BY <2>2, <2>6, RemaindersStayApart, ZenonT(60)
  <2> QED BY <2>1, <2>3, <2>4, <2>7, ZenonT(60)
<1> HIDE DEF I
<1>7. I = Nat
  <2>1. I \in SUBSET Nat
    BY DEF I
  <2> QED BY <1>5, <1>6, <2>1, NumbersByInduction
<1>8. L - p \in I /\ p + (L - p) = L /\ L <= L
  BY <1>0, <1>7
<1>9. C[L] % 97 # D[L] % 97
  BY <1>8 DEF I
<1> QED BY <1>1, <1>2, <1>9, Zenon

(* An IBAN with one digit changed is not one, ...                           *)
THEOREM IbanCatchesSlips ==
  ASSUME NEW n \in Seq(Digits), Iban(n), NEW i \in 1..Len(n), NEW x \in Digits, x # n[i]
  PROVE  ~Iban([n EXCEPT ![i] = x])
<1> DEFINE m == [n EXCEPT ![i] = x]
           L == Len(n)
           a == Carried(n)[i - 1] % 97
<1>1. L \in Nat /\ i \in 1..L /\ \A k \in 1..L : n[k] \in Digits
  BY LenProperties
<1>2. m \in Seq(Digits) /\ Len(m) = L
  OBVIOUS
<1>3. \A k \in 1..L : m[k] = IF k = i THEN x ELSE n[k]
  BY <1>1
<1> HIDE DEF m
<1>4. i - 1 \in 0..L /\ i \in 0..L
  BY <1>1
<1>5. \A k \in 1..(i - 1) : n[k] = m[k]
  BY <1>1, <1>3
<1>6. \A k \in (i + 1)..L : n[k] = m[k]
  BY <1>1, <1>3
<1>7. Carried(m)[i - 1] % 97 = a
  BY <1>2, <1>4, <1>5, SameSoFar
<1>8. Carried(n)[i] % 97 = (10 * a + n[i]) % 97 /\ Carried(n)[i - 1] \in Nat
  BY <1>4, IbanCarries, Zenon
<1>9. Carried(m)[i] % 97 = (10 * a + x) % 97
  <2>1. \A k \in 1..Len(m) : Carried(m)[k] % 97 = (10 * (Carried(m)[k - 1] % 97) + m[k]) % 97
    BY <1>2, IbanCarries
  <2>2. i \in 1..Len(m) /\ m[i] = x
    BY <1>1, <1>2, <1>3
  <2> QED BY <1>7, <2>1, <2>2, Zenon
<1>10. a \in 0..96 /\ n[i] \in Digits
  BY <1>1, <1>8, RemainderType, Zenon
<1> HIDE DEF a, L
<1>11. (10 * a + n[i]) % 97 # (10 * a + x) % 97
  BY <1>10, DigitsTellApart
<1>12. Carried(n)[i] % 97 # Carried(m)[i] % 97
  BY <1>8, <1>9, <1>11, Zenon
<1>13. ~(Iban(n) /\ Iban(m))
  BY <1>2, <1>4, <1>6, <1>12, ApartToTheEnd DEF L
<1> QED BY <1>13 DEF m

(* ... nor is one with two neighbours swapped.                              *)
THEOREM IbanCatchesSwaps ==
  ASSUME NEW n \in Seq(Digits), Iban(n), NEW i \in 1..(Len(n) - 1), n[i] # n[i + 1]
  PROVE  ~Iban(Swapped(n, i))
<1> DEFINE m == Swapped(n, i)
           L == Len(n)
           a == Carried(n)[i - 1] % 97
           d == n[i]
           e == n[i + 1]
<1>1. L \in Nat /\ i \in 1..(L - 1) /\ i \in 1..L /\ i + 1 \in 1..L
  OBVIOUS
<1>a. DOMAIN n = 1..L /\ \A k \in 1..L : n[k] \in Digits
  BY LenProperties
<1>2. m \in Seq(Digits) /\ Len(m) = L
  BY <1>1, <1>a DEF Swapped
<1>3. \A k \in 1..L : m[k] = IF k = i THEN e ELSE IF k = i + 1 THEN d ELSE n[k]
  BY <1>1, <1>a DEF Swapped
<1>b. d \in Digits /\ e \in Digits /\ d # e
  BY <1>1, <1>a
<1> HIDE DEF m, d, e
<1>4. i - 1 \in 0..L /\ i + 1 \in 0..L /\ (i + 1) - 1 = i /\ i # i + 1
  BY <1>1
<1>5. \A k \in 1..(i - 1) : n[k] = m[k]
  BY <1>1, <1>3
<1>6. \A k \in ((i + 1) + 1)..L : n[k] = m[k]
  BY <1>1, <1>3
<1>7. Carried(m)[i - 1] % 97 = a
  BY <1>2, <1>4, <1>5, SameSoFar
<1>8. /\ \A k \in 1..L : Carried(n)[k] % 97 = (10 * (Carried(n)[k - 1] % 97) + n[k]) % 97
      /\ Carried(n)[i - 1] \in Nat
  BY <1>4, IbanCarries, Zenon
<1>9. \A k \in 1..L : Carried(m)[k] % 97 = (10 * (Carried(m)[k - 1] % 97) + m[k]) % 97
  BY <1>2, IbanCarries
<1>10. a \in 0..96
  BY <1>8, RemainderType, Zenon
<1>c. n[i] = d /\ n[i + 1] = e /\ m[i] = e /\ m[i + 1] = d
  BY <1>1, <1>3 DEF d, e
<1>11. Carried(n)[i + 1] % 97 = (10 * ((10 * a + d) % 97) + e) % 97
  <2>1. Carried(n)[i] % 97 = (10 * a + d) % 97
    BY <1>1, <1>8, <1>c, Zenon
  <2> QED BY <1>1, <1>4, <1>8, <1>c, <2>1
<1>12. Carried(m)[i + 1] % 97 = (10 * ((10 * a + e) % 97) + d) % 97
  <2>1. Carried(m)[i] % 97 = (10 * a + e) % 97
    BY <1>1, <1>7, <1>9, <1>c, Zenon
  <2> QED BY <1>1, <1>4, <1>9, <1>c, <2>1
<1> HIDE DEF a
<1>13. Carried(n)[i + 1] % 97 # Carried(m)[i + 1] % 97
  <2>1. (10 * ((10 * a + d) % 97) + e) % 97 # (10 * ((10 * a + e) % 97) + d) % 97
    BY <1>10, <1>b, OrdersTellApart, ZenonT(60)
  <2> QED BY <1>11, <1>12, <2>1, Zenon
<1> HIDE DEF L
<1>14. ~(Iban(n) /\ Iban(m))
  BY <1>2, <1>4, <1>6, <1>13, ApartToTheEnd DEF L
<1> QED BY <1>14 DEF m

(* What may stand at a place of a number.                                   *)
Elements(s, i) == IF s = "DNI" /\ i = 9 THEN 0..22 ELSE Digits

(* A genuine number with one element changed.                               *)
OneSlip(s, n, m) ==
  \E i \in 1..Length[s] : \E x \in Elements(s, i) : x # n[i] /\ m = [n EXCEPT ![i] = x]
(* The order of two neighbours changed, a letter staying at the end.        *)
OneSwap(s, n, m) ==
  \E i \in 1..(Length[s] - 1) :
    n[i] # n[i + 1] /\ (s = "DNI" => i < 8) /\ m = Swapped(n, i)

(* A number of the right length with the right elements.                    *)
Number(s, n) == DOMAIN n = 1..Length[s] /\ \A i \in 1..Length[s] : n[i] \in Elements(s, i)

(* The inductive invariant: an issued number, and what was made of it.      *)
DigitsInv ==
  /\ scheme \in Schemes
  /\ genuine \in Seq(0..22) /\ Number(scheme, genuine) /\ Accepts(scheme, genuine)
  /\ typed = genuine \/ OneSlip(scheme, genuine, typed) \/ OneSwap(scheme, genuine, typed)

(* How long the numbers are, ...                                            *)
LEMMA LengthsAre ==
  /\ Length["Luhn"] = 16 /\ Length["personnummer"] = 10 /\ Length["NHS"] = 10
  /\ Length["PESEL"] = 11 /\ Length["IBAN"] = 24
  /\ Length["ABA"] = 9 /\ Length["BSN"] = 9 /\ Length["NIF"] = 9 /\ Length["DNI"] = 9
BY DEF Length, Schemes

(* No number is shorter than nine or longer than 24 digits.                 *)
LEMMA LengthType == \A s \in Schemes : Length[s] \in 9..24
BY LengthsAre DEF Schemes

(* ... and which sum judges which.                                          *)
LEMMA AcceptsIs ==
  ASSUME NEW n
  PROVE  /\ Accepts("Luhn", n) <=> Luhn(n)
         /\ Accepts("personnummer", n) <=> Personnummer(n)
         /\ Accepts("ABA", n) <=> AbaRouting(n)
         /\ Accepts("NHS", n) <=> NhsNumber(n)
         /\ Accepts("BSN", n) <=> DutchBsn(n)
         /\ Accepts("PESEL", n) <=> PolishPesel(n)
         /\ Accepts("NIF", n) <=> PortugueseNif(n)
         /\ Accepts("DNI", n) <=> SpanishId(n)
         /\ Accepts("IBAN", n) <=> Iban(n)
BY DEF Accepts

(* What is issued is a number that is accepted.                             *)
LEMMA IssuedFacts ==
  ASSUME NEW s \in Schemes, NEW n \in Issued(s)
  PROVE  n \in Seq(0..22) /\ Number(s, n) /\ Accepts(s, n)
<1>0. Accepts(s, n)
  BY DEF Issued
<1>1. PICK a \in Serial, b \in Serial, cut \in 1..(Length[s] - 1), control \in Controls(s) :
        n = Composed(s, a, b, cut, control)
  BY DEF Issued
<1> DEFINE L == Length[s]
           c == Len(control)
           u == [i \in 1..(L - c) |-> IF i <= cut THEN a ELSE b]
<1>2. L \in 9..24 /\ (s = "DNI" => L = 9)
  BY LengthType, LengthsAre
<1>3. a \in Digits /\ b \in Digits /\ \A d \in Digits : d \in 0..22
  BY CheckDigitsAssumption DEF Digits
<1>4. control \in Seq(0..22) /\ c \in 1..2 /\ \A i \in 1..c : control[i] \in Elements(s, (L - c) + i)
  <2>1. CASE s = "IBAN"
    <3>1. control \in Digits \X Digits
      BY <2>1 DEF Controls
    <3>2. PICK d \in Digits, e \in Digits : control = <<d, e>>
      BY <3>1
    <3>3. d \in 0..22 /\ e \in 0..22
      BY <1>3
    <3>4. c = 2 /\ control[1] = d /\ control[2] = e /\ control \in Seq(0..22)
      BY <3>2, <3>3
    <3>5. \A i : Elements(s, i) = Digits
      BY <2>1 DEF Elements
    <3>6. \A i \in 1..2 : i = 1 \/ i = 2
      OBVIOUS
    <3> QED BY <3>4, <3>5, <3>6
  <2>2. CASE s = "DNI"
    <3>1. PICK d \in 0..22 : control = <<d>>
      BY <2>2 DEF Controls
    <3>2. c = 1 /\ control[1] = d /\ control \in Seq(0..22)
      BY <3>1
    <3>3. \A i \in 1..1 : i = 1
      OBVIOUS
    <3>4. (L - 1) + 1 = 9
      BY <1>2, <2>2
    <3>5. Elements(s, 9) = 0..22
      BY <2>2 DEF Elements
    <3> QED BY <3>2, <3>3, <3>4, <3>5, SMTT(40)
  <2>3. CASE s # "IBAN" /\ s # "DNI"
    <3>1. PICK d \in Digits : control = <<d>>
      BY <2>3 DEF Controls
    <3>2. c = 1 /\ control[1] = d /\ control \in Seq(0..22)
      BY <1>3, <3>1
    <3>3. \A i \in 1..1 : i = 1
      OBVIOUS
    <3>4. \A i : Elements(s, i) = Digits
      BY <2>3 DEF Elements
    <3> QED BY <3>2, <3>3, <3>4
  <2> QED BY <2>1, <2>2, <2>3
<1> HIDE DEF L, c
<1> DEFINE k == L - c
<1>a. k \in Nat /\ k < 9 + 15 /\ (s = "DNI" => k < 9) /\ c \in Nat /\ c = L - k /\ k + c = L
  BY <1>2, <1>4
<1>5. u \in Seq(0..22) /\ Len(u) = k
  <2>1. \A i \in 1..k : (IF i <= cut THEN a ELSE b) \in 0..22
    BY <1>3
  <2>2. u = [i \in 1..k |-> IF i <= cut THEN a ELSE b]
    OBVIOUS
  <2> HIDE DEF u, k
  <2>3. u \in [1..k -> 0..22]
    BY <2>1, <2>2
  <2> QED BY <1>a, <2>2, <2>3, SMTT(40)
<1>6. \A i \in 1..(L - c) : u[i] \in Elements(s, i)
  <2>1. \A i \in 1..(L - c) : u[i] \in Digits
    BY <1>3
  <2> HIDE DEF u, k
  <2>2. \A i \in 1..k : s = "DNI" => i # 9
    BY <1>a
  <2> QED BY <2>1, <2>2 DEF Elements, k
<1> HIDE DEF u
<1>7. n = u \o control
  BY <1>1, Zenon DEF Composed, u, k, L, c
<1>8. /\ n \in Seq(0..22) /\ Len(n) = Len(u) + Len(control)
      /\ \A i \in 1..(Len(u) + Len(control)) :
           n[i] = IF i <= Len(u) THEN u[i] ELSE control[i - Len(u)]
  BY <1>4, <1>5, <1>7, ConcatProperties
<1> HIDE DEF k
<1>10. k \in Nat /\ Len(u) = k /\ Len(u) + Len(control) = L /\ c = L - k
  <2>1. Len(control) = c
    BY DEF c
  <2> QED BY <1>a, <1>5, <2>1
<1>9. Len(n) = L /\ DOMAIN n = 1..L
  <2>1. DOMAIN n = 1..Len(n)
    BY <1>8, LenProperties
  <2> QED BY <1>8, <1>10, <2>1
<1>11. ASSUME NEW i \in 1..L PROVE n[i] \in Elements(s, i)
  <2>1. CASE i <= k
    <3>1. i \in 1..(L - c) /\ n[i] = u[i]
      BY <1>8, <1>10, <2>1 DEF k
    <3> QED BY <1>6, <3>1
  <2>2. CASE ~(i <= k)
    <3>1. i - k \in 1..c /\ n[i] = control[i - k]
      BY <1>2, <1>8, <1>10, <2>2
    <3>2. (L - c) + (i - k) = i
      BY <1>2, <1>4, <1>10 DEF k
    <3>3. control[i - k] \in Elements(s, (L - c) + (i - k))
      BY <1>4, <3>1
    <3> QED BY <3>1, <3>2, <3>3
  <2> QED BY <2>1, <2>2
<1> QED BY <1>0, <1>8, <1>9, <1>11 DEF L, Number

(* A number of digits, as the theorems on the schemes have it.              *)
LEMMA NumberIs ==
  ASSUME NEW s \in Schemes, NEW n \in Seq(0..22), Number(s, n)
  PROVE  /\ n = [i \in 1..Length[s] |-> n[i]] /\ Len(n) = Length[s]
         /\ s # "DNI" => n \in [1..Length[s] -> Digits] /\ n \in Seq(Digits)
         /\ s = "DNI" => n \in SpanishIds
<1> DEFINE L == Length[s]
<1>1. L \in 9..24 /\ (s = "DNI" => L = 9)
  BY LengthType, LengthsAre
<1>2. DOMAIN n = 1..L /\ \A i \in 1..L : n[i] \in Elements(s, i)
  BY DEF Number
<1>3. Len(n) \in Nat /\ DOMAIN n = 1..Len(n) /\ n = [i \in 1..Len(n) |-> n[i]]
        /\ \A i \in 1..Len(n) : n[i] \in 0..22
  BY LenProperties
<1> HIDE DEF L
<1>4. Len(n) = L
  BY <1>1, <1>2, <1>3
<1>5. ASSUME s # "DNI" PROVE n \in [1..L -> Digits] /\ n \in Seq(Digits)
  <2>1. \A i \in 1..L : n[i] \in Digits
    BY <1>2, <1>5 DEF Elements
  <2>2. n \in [1..L -> Digits]
    BY <1>3, <1>4, <2>1
  <2> QED BY <1>1, <2>2
<1>6. ASSUME s = "DNI" PROVE n \in SpanishIds
  <2>1. \A i \in 1..8 : n[i] \in Digits
    BY <1>1, <1>2, <1>6 DEF Elements
  <2>2. n \in [1..9 -> 0..22]
    BY <1>1, <1>3, <1>4, <1>6
  <2> QED BY <2>1, <2>2 DEF SpanishIds
<1> QED BY <1>3, <1>4, <1>5, <1>6 DEF L

(* Nothing is changed at first, ...                                         *)
LEMMA DigitsInvInit == DigitsInit => DigitsInv
BY IssuedFacts DEF DigitsInit, DigitsInv

(* ... one step changes one thing, and no other step is left; ...           *)
LEMMA DigitsInvStep == DigitsInv /\ [DigitsNext]_digitsVars => DigitsInv'
<1> SUFFICES ASSUME DigitsInv, [DigitsNext]_digitsVars PROVE DigitsInv'
  OBVIOUS
<1> USE DEF DigitsInv
<1>1. ASSUME NEW i \in 1..Length[scheme], Slip(i) PROVE DigitsInv'
  <2>1. scheme' = scheme /\ genuine' = genuine
    BY <1>1 DEF Slip
  <2>2. OneSlip(scheme, genuine, typed')
    BY <1>1 DEF Slip, OneSlip, Elements
  <2> QED BY <2>1, <2>2
<1>2. ASSUME NEW i \in 1..(Length[scheme] - 1), Swap(i) PROVE DigitsInv'
  <2>1. scheme' = scheme /\ genuine' = genuine
    BY <1>2 DEF Swap
  <2>2. OneSwap(scheme, genuine, typed')
    BY <1>2 DEF Swap, OneSwap, Swapped
  <2> QED BY <2>1, <2>2
<1>3. CASE UNCHANGED digitsVars
  BY <1>3 DEF digitsVars
<1> QED BY <1>1, <1>2, <1>3 DEF DigitsNext

(* One element changed: another number differs in one place, which the      *)
(* scheme notices.                                                          *)
LEMMA SlipIsCaught ==
  ASSUME NEW s \in Schemes, NEW n \in Seq(0..22), Number(s, n), Accepts(s, n),
         NEW i \in 1..Length[s], NEW x \in Elements(s, i), x # n[i],
         s = "NIF" => n[9] # 0 /\ [n EXCEPT ![i] = x][9] # 0
  PROVE  ~Accepts(s, [n EXCEPT ![i] = x])
<1> DEFINE m == [n EXCEPT ![i] = x]
<1>1. /\ Len(n) = Length[s]
      /\ s # "DNI" => n \in [1..Length[s] -> Digits] /\ n \in Seq(Digits)
      /\ s = "DNI" => n \in SpanishIds
  BY NumberIs
<1>2. s # "DNI" => x \in Digits
  BY DEF Elements
<1>3. CASE s = "Luhn"
  <2>1. n \in Seq(Digits) /\ Luhn(n) /\ i \in 1..Len(n) /\ x \in Digits
    BY <1>1, <1>2, <1>3, AcceptsIs
  <2> HIDE DEF m
  <2>2. ~Luhn(m)
    BY <2>1, LuhnCatchesSlips DEF m
  <2> QED BY <1>3, <2>2, AcceptsIs DEF m
<1>4. CASE s = "personnummer"
  <2>1. n \in [1..10 -> Digits] /\ Personnummer(n) /\ i \in 1..10 /\ x \in Digits
    BY <1>1, <1>2, <1>4, AcceptsIs, LengthsAre
  <2>2. ~Personnummer(m)
    BY <2>1, PersonnummerCatchesSlips
  <2> QED BY <1>4, <2>2, AcceptsIs
<1>5. CASE s = "ABA"
  <2>1. n \in [1..9 -> Digits] /\ AbaRouting(n) /\ i \in 1..9 /\ x \in Digits
    BY <1>1, <1>2, <1>5, AcceptsIs, LengthsAre
  <2>2. ~AbaRouting(m)
    BY <2>1, AbaCatchesSlips
  <2> QED BY <1>5, <2>2, AcceptsIs
<1>6. CASE s = "NHS"
  <2>1. n \in [1..10 -> Digits] /\ NhsNumber(n) /\ i \in 1..10 /\ x \in Digits
    BY <1>1, <1>2, <1>6, AcceptsIs, LengthsAre
  <2>2. ~NhsNumber(m)
    BY <2>1, NhsCatchesSlips
  <2> QED BY <1>6, <2>2, AcceptsIs
<1>7. CASE s = "BSN"
  <2>1. n \in [1..9 -> Digits] /\ DutchBsn(n) /\ i \in 1..9 /\ x \in Digits
    BY <1>1, <1>2, <1>7, AcceptsIs, LengthsAre
  <2>2. ~DutchBsn(m)
    BY <2>1, BsnCatchesSlips
  <2> QED BY <1>7, <2>2, AcceptsIs
<1>8. CASE s = "PESEL"
  <2>1. n \in [1..11 -> Digits] /\ PolishPesel(n) /\ i \in 1..11 /\ x \in Digits
    BY <1>1, <1>2, <1>8, AcceptsIs, LengthsAre
  <2>2. ~PolishPesel(m)
    BY <2>1, PeselCatchesSlips
  <2> QED BY <1>8, <2>2, AcceptsIs
<1>9. CASE s = "NIF"
  <2>1. n \in [1..9 -> Digits] /\ PortugueseNif(n) /\ i \in 1..9 /\ x \in Digits
    BY <1>1, <1>2, <1>9, AcceptsIs, LengthsAre
  <2>2. n[9] # 0 /\ (i = 9 => x # 0)
    BY <1>9, <2>1
  <2>3. ~PortugueseNif(m)
    BY <2>1, <2>2, NifCatchesSlips
  <2> QED BY <1>9, <2>3, AcceptsIs
<1>10. CASE s = "DNI"
  <2>1. n \in SpanishIds /\ SpanishId(n) /\ i \in 1..9
    BY <1>1, <1>10, AcceptsIs, LengthsAre
  <2>2. x \in 0..22 /\ (i # 9 => x \in Digits)
    BY <1>10, <2>1, SMTT(40) DEF Elements, Digits
  <2>3. ~SpanishId(m)
    BY <2>1, <2>2, DniCatchesSlips
  <2> QED BY <1>10, <2>3, AcceptsIs
<1>11. CASE s = "IBAN"
  <2>1. n \in Seq(Digits) /\ Iban(n) /\ i \in 1..Len(n) /\ x \in Digits
    BY <1>1, <1>2, <1>11, AcceptsIs
  <2> HIDE DEF m
  <2>2. ~Iban(m)
    BY <2>1, IbanCatchesSlips DEF m
  <2> QED BY <1>11, <2>2, AcceptsIs DEF m
<1> HIDE DEF m
<1> QED BY <1>3, <1>4, <1>5, <1>6, <1>7, <1>8, <1>9, <1>10, <1>11, Zenon DEF Schemes, m

(* Two neighbours swapped, where the modulus is a prime.                    *)
LEMMA SwapIsCaught ==
  ASSUME NEW s \in {"NHS", "BSN", "DNI", "IBAN"}, NEW n \in Seq(0..22), Number(s, n),
         Accepts(s, n), NEW i \in 1..(Length[s] - 1), n[i] # n[i + 1], s = "DNI" => i < 8
  PROVE  ~Accepts(s, Swapped(n, i))
<1>0. s \in Schemes
  BY DEF Schemes
<1>1. /\ Len(n) = Length[s]
      /\ s # "DNI" => n \in [1..Length[s] -> Digits] /\ n \in Seq(Digits)
      /\ s = "DNI" => n \in SpanishIds
  BY <1>0, NumberIs
<1>2. CASE s = "NHS"
  <2>1. n \in [1..10 -> Digits] /\ NhsNumber(n) /\ i \in 1..9
    BY <1>1, <1>2, AcceptsIs, LengthsAre
  <2>2. ~NhsNumber(Swapped(n, i))
    BY <2>1, NhsCatchesSwaps
  <2> QED BY <1>2, <2>2, AcceptsIs
<1>3. CASE s = "BSN"
  <2>1. n \in [1..9 -> Digits] /\ DutchBsn(n) /\ i \in 1..8
    BY <1>1, <1>3, AcceptsIs, LengthsAre
  <2>2. ~DutchBsn(Swapped(n, i))
    BY <2>1, BsnCatchesSwaps
  <2> QED BY <1>3, <2>2, AcceptsIs
<1>4. CASE s = "DNI"
  <2>1. n \in SpanishIds /\ SpanishId(n) /\ i \in 1..7
    BY <1>1, <1>4, AcceptsIs, LengthsAre
  <2>2. ~SpanishId(Swapped(n, i))
    BY <2>1, DniCatchesSwaps
  <2> QED BY <1>4, <2>2, AcceptsIs
<1>5. CASE s = "IBAN"
  <2>1. n \in Seq(Digits) /\ Iban(n) /\ i \in 1..(Len(n) - 1)
    BY <1>1, <1>5, AcceptsIs, LengthsAre
  <2>2. ~Iban(Swapped(n, i))
    BY <2>1, IbanCatchesSwaps
  <2> QED BY <1>5, <2>2, AcceptsIs
<1> QED BY <1>2, <1>3, <1>4, <1>5

(* ... so that a number that differs in one place was slipped, and one that *)
(* differs in two was swapped.                                              *)
LEMMA DigitsInvSuffices == DigitsInv => SlipsAreCaught
<1> SUFFICES ASSUME DigitsInv PROVE SlipsAreCaught
  OBVIOUS
<1> DEFINE s == scheme
           n == genuine
<1>1. /\ s \in Schemes /\ n \in Seq(0..22) /\ Number(s, n) /\ Accepts(s, n)
      /\ DOMAIN n = 1..Length[s] /\ Length[s] \in Nat
  BY LengthType DEF DigitsInv, Number
<1>2. CASE typed = genuine
  <2>1. Differ = {}
    BY <1>2 DEF Differ
  <2>2. Cardinality(Differ) = 0
    BY <2>1, FS_EmptySet
  <2> QED BY <2>2 DEF SlipsAreCaught
<1>3. CASE OneSlip(s, n, typed)
  <2>1. PICK i \in 1..Length[s] : \E x \in Elements(s, i) : x # n[i] /\ typed = [n EXCEPT ![i] = x]
    BY <1>3 DEF OneSlip
  <2>2. PICK x \in Elements(s, i) : x # n[i] /\ typed = [n EXCEPT ![i] = x]
    BY <2>1
  <2>3. Differ = {i}
    BY <1>1, <2>2 DEF Differ
  <2>4. Cardinality(Differ) = 1
    BY <2>3, FS_Singleton
  <2>5. ASSUME s = "NIF" => n[9] # 0 /\ typed[9] # 0 PROVE ~Accepts(s, typed)
    BY <1>1, <2>2, <2>5, SlipIsCaught
  <2> QED BY <2>4, <2>5 DEF SlipsAreCaught
<1>4. CASE OneSwap(s, n, typed)
  <2>1. PICK i \in 1..(Length[s] - 1) :
          n[i] # n[i + 1] /\ (s = "DNI" => i < 8) /\ typed = Swapped(n, i)
    BY <1>4 DEF OneSwap
  <2>2. i \in DOMAIN n /\ i + 1 \in DOMAIN n /\ i # i + 1
    BY <1>1
  <2>3. Differ = {i, i + 1}
    BY <1>1, <2>1, <2>2 DEF Differ, Swapped
  <2>4. Cardinality(Differ) = 2
    <3>1. IsFiniteSet({i}) /\ Cardinality({i}) = 1
      BY FS_Singleton
    <3>2. Cardinality({i} \cup {i + 1}) = 2
      <4> DEFINE j == i + 1
      <4>1. j \notin {i}
        BY <2>2
      <4> HIDE DEF j
      <4>2. Cardinality({i} \cup {j}) = Cardinality({i}) + 1
        BY <3>1, <4>1, FS_AddElement
      <4> QED BY <3>1, <4>2 DEF j
    <3>3. {i} \cup {i + 1} = {i, i + 1}
      OBVIOUS
    <3> QED BY <2>3, <3>2, <3>3
  <2>5. ASSUME s \in {"NHS", "BSN", "DNI", "IBAN"} PROVE ~Accepts(s, typed)
    BY <1>1, <2>1, <2>5, SwapIsCaught
  <2> QED BY <2>4, <2>5 DEF SlipsAreCaught
<1> QED BY <1>2, <1>3, <1>4 DEF DigitsInv

(* Whatever the serials are, a number that differs from an issued one in    *)
(* one digit, or under a prime modulus in the order of two neighbours, is   *)
(* not taken for one.                                                       *)
THEOREM SlipsAreAlwaysCaught == DigitsSpec => []SlipsAreCaught
<1>1. DigitsInit => DigitsInv
  BY DigitsInvInit
<1>2. DigitsInv /\ [DigitsNext]_digitsVars => DigitsInv'
  BY DigitsInvStep
<1>3. DigitsInv => SlipsAreCaught
  BY DigitsInvSuffices
<1> QED BY <1>1, <1>2, <1>3, PTL DEF DigitsSpec

-------------------------------------------------------------------------------
(***************************************************************************)
(* The hook manager.  Executions walk, by index, arrays that registrations *)
(* and removals change: what has run of an array is tied to the index.     *)
(***************************************************************************)
(* What stands where once h is put behind the first k of an array.          *)
PutBehind(r, a, k, h) ==
  /\ Len(r) = Len(a) + 1
  /\ \A p \in 1 .. k : r[p] = a[p]
  /\ r[k + 1] = h
  /\ \A p \in k + 1 .. Len(a) : r[p + 1] = a[p]

(* Putting it between the two parts of an array.                            *)
PutBetween(r, a, u, v, h) ==
  /\ r \in Seq(Hooks) /\ Len(u) \in 0 .. Len(a) /\ PutBehind(r, a, Len(u), h)
  /\ \A p \in 1 .. Len(u) : a[p] = u[p]
  /\ \A p \in 1 .. Len(v) : a[Len(u) + p] = v[p]
  /\ Len(a) = Len(u) + Len(v) /\ Len(v) \in Nat

(* What is put there follows the one and comes before the other.            *)
LEMMA InsertFacts ==
  ASSUME NEW u \in Seq(Hooks), NEW v \in Seq(Hooks), NEW h \in Hooks
  PROVE  PutBetween(u \o <<h>> \o v, u \o v, u, v, h)
<1> DEFINE T == Hooks
           a == u \o v
<1>1. Len(u) \in Nat /\ Len(v) \in Nat
  BY LenProperties
<1>2. /\ a \in Seq(T) /\ Len(a) = Len(u) + Len(v)
      /\ \A p \in 1 .. Len(u) + Len(v) : a[p] = IF p <= Len(u) THEN u[p] ELSE v[p - Len(u)]
  BY ConcatProperties
<1> HIDE DEF a
<1> DEFINE w == u \o <<h>>
<1>3. /\ w \in Seq(T) /\ Len(w) = Len(u) + 1 /\ w[Len(u) + 1] = h
      /\ \A p \in 1 .. Len(u) : w[p] = u[p]
  OBVIOUS
<1> DEFINE r == w \o v
<1> HIDE DEF w
<1>4. /\ r \in Seq(T) /\ Len(r) = Len(w) + Len(v)
      /\ \A p \in 1 .. Len(w) + Len(v) : r[p] = IF p <= Len(w) THEN w[p] ELSE v[p - Len(w)]
  BY <1>3, ConcatProperties
<1> HIDE DEF r
<1>5. /\ \A p \in 1 .. Len(u) : a[p] = u[p] /\ r[p] = u[p]
      /\ r[Len(u) + 1] = h
      /\ Len(r) = Len(a) + 1 /\ Len(u) \in 0 .. Len(a)
  BY <1>1, <1>2, <1>3, <1>4
<1>6. ASSUME NEW p \in 1 .. Len(v) PROVE a[Len(u) + p] = v[p]
  <2>1. Len(u) + p \in 1 .. Len(u) + Len(v) /\ ~ (Len(u) + p <= Len(u)) /\ (Len(u) + p) - Len(u) = p
    BY <1>1
  <2> QED BY <1>2, <2>1
<1>7. ASSUME NEW p \in Len(u) + 1 .. Len(a) PROVE r[p + 1] = a[p]
  <2>1. /\ p \in 1 .. Len(u) + Len(v) /\ ~ (p <= Len(u))
        /\ p + 1 \in 1 .. Len(w) + Len(v) /\ ~ (p + 1 <= Len(w))
        /\ (p + 1) - Len(w) = p - Len(u)
    BY <1>1, <1>2, <1>3
  <2> QED BY <1>2, <1>4, <2>1
<1>8. PutBehind(r, a, Len(u), h)
  BY <1>5, <1>7 DEF PutBehind
<1>9. PutBetween(r, a, u, v, h)
  BY <1>1, <1>2, <1>4, <1>5, <1>6, <1>8 DEF PutBetween
<1> QED BY <1>9 DEF r, w, a
-----------------------------------------------------------------------------
(* An array of hooks, each once and in the order of their priorities.       *)
IsHookArray(a) ==
  /\ a \in Seq(Hooks) /\ IsInjective(a)
  /\ \A i, j \in 1 .. Len(a) : i < j => Priority[a[i]] <= Priority[a[j]]

(* The arrays of the manager.                                               *)
ArraysInv ==
  /\ arrays \in Seq(Seq(Hooks)) /\ Len(arrays) >= 1
  /\ \A k \in 1 .. Len(arrays) : IsHookArray(arrays[k]) /\ ToSet(arrays[k]) \subseteq registered

(* The type of an execution.                                                *)
Execution ==
  [state : {"idle", "waiting", "done", "limited"}, array : Nat, index : Nat \ {0},
   ran : Seq(Hooks), blocked : BOOLEAN, since : Nat, stayed : SUBSET Hooks,
   added : BOOLEAN, removed : BOOLEAN]

(* Of the hooks that stayed, those up to the index have run, unless one was *)
(* removed before it, and those behind it have not, unless one was added.   *)
RanUpTo(x, a, i) ==
  \A p \in 1 .. Len(a) : a[p] \in x.stayed \cap Enabled =>
    /\ ~x.removed /\ p <= i => Times(a[p], x.ran) > 0
    /\ ~x.added => Times(a[p], x.ran) <= 1 /\ (p > i => Times(a[p], x.ran) = 0)

(* The walk of an execution that stands at i in array a.                    *)
WalkInv(x, a, i) == x.stayed \subseteq ToSet(a) /\ RanUpTo(x, a, i)

(* What HooksRunOnce asks of an execution that is over.                     *)
RanOnce(x) ==
  \A h \in x.stayed \cap Enabled :
    /\ Times(h, x.ran) = 0 => x.removed
    /\ Times(h, x.ran) > 1 => x.added

(* What holds of an execution in each of its states.                        *)
ExecutionInv(x) ==
  /\ x.state \in {"idle", "limited"} => x.ran = <<>> /\ ~x.blocked /\ ~x.added /\ ~x.removed
  /\ x.state = "waiting" =>
       /\ x.array \in 1 .. Len(arrays)
       /\ WalkInv(x, arrays[x.array], x.index)
  /\ x.state = "done" => RanOnce(x)

(* The inductive invariant.                                                 *)
HooksInv ==
  /\ now \in Nat /\ ArraysInv /\ registered \subseteq Hooks
  /\ execution \in [Executions -> Execution]
  /\ \A e \in Executions : ExecutionInv(execution[e])

(* One more hook that ran.                                                  *)
LEMMA TimesAppend ==
  ASSUME NEW s \in Seq(Hooks), NEW g \in Hooks, NEW h
  PROVE  /\ Times(h, s) \in Nat
         /\ Times(h, Append(s, g)) = IF g = h THEN Times(h, s) + 1 ELSE Times(h, s)
         /\ Times(h, <<>>) = 0
<1> DEFINE n == Len(s)
           A == {i \in 1 .. n : s[i] = h}
           t == Append(s, g)
           B == {i \in 1 .. n + 1 : t[i] = h}
<1>1. n \in Nat /\ Len(t) = n + 1 /\ t[n + 1] = g /\ \A i \in 1 .. n : t[i] = s[i]
  <2>1. Len(s) \in Nat
    BY LenProperties
  <2>2. /\ Len(Append(s, g)) = Len(s) + 1 /\ Append(s, g)[Len(s) + 1] = g
        /\ \A i \in 1 .. Len(s) : Append(s, g)[i] = s[i]
    BY AppendProperties
  <2> QED BY <2>1, <2>2
<1>2. IsFiniteSet(1 .. n)
  <2>1. n \in Int /\ 1 \in Int
    BY <1>1
  <2> HIDE DEF n
  <2> QED BY <2>1, FS_Interval
<1>3. IsFiniteSet(A)
  <2>1. A \subseteq 1 .. n
    OBVIOUS
  <2> HIDE DEF A, n
  <2> QED BY <1>2, <2>1, FS_Subset
<1>4. Cardinality(A) \in Nat
  BY <1>3, FS_CardinalityType
<1>5. n + 1 \notin A
  BY <1>1
<1>6. Cardinality(A \cup {n + 1}) = Cardinality(A) + 1
  BY <1>3, <1>5, FS_AddElement
<1>7. B = IF g = h THEN A \cup {n + 1} ELSE A
  <2>1. \A i : i \in 1 .. n + 1 <=> i \in 1 .. n \/ i = n + 1
    BY <1>1
  <2> HIDE DEF n, t
  <2>2. \A i : i \in B <=> i \in (IF g = h THEN A \cup {n + 1} ELSE A)
    BY <1>1, <1>5, <2>1
  <2> QED BY <2>2
<1>8. Times(h, s) = Cardinality(A) /\ Times(h, t) = Cardinality(B)
  BY <1>1 DEF Times
<1>9. Times(h, <<>>) = 0
  <2>1. {i \in 1 .. Len(<<>>) : <<>>[i] = h} = {}
    OBVIOUS
  <2> QED BY <2>1, FS_EmptySet DEF Times
<1> HIDE DEF A, B, t
<1> QED BY <1>4, <1>6, <1>7, <1>8, <1>9 DEF t

(* Where the loop goes from i.                                              *)
LEMMA NextEnabledFacts ==
  ASSUME NEW a \in Seq(Hooks), NEW i \in Nat \ {0}, NEW j, j = NextEnabled(a, i)
  PROVE  /\ j = 0 \/ (j \in i .. Len(a) /\ a[j] \in Enabled)
         /\ \A p \in i .. Len(a) : j = 0 \/ p < j => a[p] \notin Enabled
<1> DEFINE on == {k \in i .. Len(a) : a[k] \in Enabled}
<1>1. Len(a) \in Nat
  OBVIOUS
<1>2. on \in SUBSET Nat
  BY <1>1
<1>3. j = IF on = {} THEN 0 ELSE CHOOSE m \in on : \A k \in on : m <= k
  BY DEF NextEnabled
<1>4. CASE on = {}
  BY <1>1, <1>3, <1>4
<1>5. CASE on # {}
  <2> HIDE DEF on
  <2>1. \E m \in on : \A k \in on : m <= k
    BY <1>2, <1>5, LeastNumber
  <2>2. j \in on /\ \A k \in on : j <= k
    BY <1>3, <1>5, <2>1
  <2> USE DEF on
  <2>3. j \in i .. Len(a) /\ a[j] \in Enabled /\ j # 0
    BY <2>2, <1>1
  <2>4. ASSUME NEW p \in i .. Len(a), p < j PROVE a[p] \notin Enabled
    BY <1>1, <2>2, <2>3, <2>4
  <2> QED BY <2>3, <2>4
<1> QED BY <1>4, <1>5

(* The loop goes on from a walk: another walk, or its end.                  *)
LEMMA ContinueFacts ==
  ASSUME NEW x \in Execution, NEW a, IsHookArray(a), NEW i \in Nat, WalkInv(x, a, i),
         now \in Nat, NEW y, y = Continue(x, a, i + 1)
  PROVE  /\ y \in Execution /\ y.array = x.array /\ y.state \in {"waiting", "done"}
         /\ y.state = "waiting" => WalkInv(y, a, y.index)
         /\ y.state = "done" => RanOnce(y)
<1> DEFINE j == NextEnabled(a, i + 1)
<1>1. a \in Seq(Hooks) /\ Len(a) \in Nat /\ i + 1 \in Nat \ {0} /\ i + 1 > i
  BY LenProperties DEF IsHookArray
<1>2. /\ j = 0 \/ (j \in i + 1 .. Len(a) /\ a[j] \in Enabled)
      /\ \A p \in i + 1 .. Len(a) : j = 0 \/ p < j => a[p] \notin Enabled
  BY <1>1, NextEnabledFacts
<1>3. y = IF j = 0 THEN [x EXCEPT !.state = "done"]
          ELSE [x EXCEPT !.state = "waiting", !.index = j, !.since = now,
                         !.ran = Append(@, a[j])]
  BY DEF Continue
<1> HIDE DEF j
<1>4. \A h : Times(h, x.ran) \in Nat
  <2> SUFFICES ASSUME NEW h PROVE Times(h, x.ran) \in Nat
    OBVIOUS
  <2>1. x.ran \in Seq(Hooks)
    BY DEF Execution
  <2>2. CASE Hooks = {}
    <3>1. {k \in 1 .. Len(x.ran) : x.ran[k] = h} = {}
      <4>1. \A k \in 1 .. Len(x.ran) : x.ran[k] \in Hooks
        BY <2>1, ElementOfSeq
      <4> QED BY <2>2, <4>1
    <3>2. Times(h, x.ran) = 0
      BY <3>1, FS_EmptySet, Zenon DEF Times
    <3> QED BY <3>2
  <2>3. CASE Hooks # {}
    BY <2>1, <2>3, TimesAppend
  <2> QED BY <2>2, <2>3
<1>5. CASE j = 0
  <2>1. /\ y \in Execution /\ y.state = "done" /\ y.array = x.array
        /\ y.stayed = x.stayed /\ y.ran = x.ran /\ y.added = x.added /\ y.removed = x.removed
    BY <1>3, <1>5 DEF Execution
  <2>2. ASSUME NEW h \in x.stayed \cap Enabled
        PROVE  (Times(h, x.ran) = 0 => x.removed) /\ (Times(h, x.ran) > 1 => x.added)
    <3>1. PICK p \in 1 .. Len(a) : a[p] = h
      BY <1>1 DEF WalkInv, ToSet
    <3>2. ~ (p \in i + 1 .. Len(a))
      BY <1>2, <1>5, <3>1
    <3>3. p <= i
      BY <1>1, <3>2
    <3>4. /\ ~x.removed => Times(h, x.ran) > 0
          /\ ~x.added => Times(h, x.ran) <= 1
      BY <3>1, <3>3 DEF WalkInv, RanUpTo
    <3>5. x.removed \in BOOLEAN /\ x.added \in BOOLEAN
      BY DEF Execution
    <3> QED BY <1>4, <3>4
  <2> QED BY <2>1, <2>2 DEF RanOnce
<1>6. CASE j # 0
  <2>1. j \in i + 1 .. Len(a) /\ j \in Nat \ {0} /\ j \in 1 .. Len(a) /\ a[j] \in Hooks
    BY <1>1, <1>2, <1>6
  <2>2. /\ y = [x EXCEPT !.state = "waiting", !.index = j, !.since = now, !.ran = Append(@, a[j])]
    BY <1>3, <1>6
  <2>3. Append(x.ran, a[j]) \in Seq(Hooks)
    BY <2>1 DEF Execution
  <2>4. /\ y \in Execution /\ y.state = "waiting" /\ y.array = x.array /\ y.index = j
        /\ y.stayed = x.stayed /\ y.ran = Append(x.ran, a[j])
        /\ y.added = x.added /\ y.removed = x.removed
    <3> DEFINE more == Append(x.ran, a[j])
    <3>1. /\ j \in Nat \ {0} /\ more \in Seq(Hooks) /\ now \in Nat /\ x \in Execution
          /\ y = [x EXCEPT !.state = "waiting", !.index = j, !.since = now, !.ran = more]
      BY <2>1, <2>2, <2>3
    <3> HIDE DEF more
    <3>2. /\ y \in Execution /\ y.state = "waiting" /\ y.array = x.array /\ y.index = j
          /\ y.stayed = x.stayed /\ y.ran = more
          /\ y.added = x.added /\ y.removed = x.removed
      BY <3>1, ZenonT(60) DEF Execution
    <3> QED BY <3>2 DEF more
  <2>5. \A h : Times(h, y.ran) = IF a[j] = h THEN Times(h, x.ran) + 1 ELSE Times(h, x.ran)
    <3>1. x.ran \in Seq(Hooks)
      BY DEF Execution
    <3> DEFINE s == x.ran  g == a[j]
    <3>2. s \in Seq(Hooks) /\ g \in Hooks
      BY <2>1, <3>1
    <3> HIDE DEF s, g
    <3>3. \A h : Times(h, Append(s, g)) = IF g = h THEN Times(h, s) + 1 ELSE Times(h, s)
      BY <3>2, TimesAppend
    <3> QED BY <2>4, <3>3, Zenon DEF s, g
  <2>6. ASSUME NEW p \in 1 .. Len(a), a[p] \in y.stayed \cap Enabled
        PROVE  /\ ~y.removed /\ p <= y.index => Times(a[p], y.ran) > 0
               /\ ~y.added => Times(a[p], y.ran) <= 1 /\ (p > y.index => Times(a[p], y.ran) = 0)
    <3>1. /\ ~x.removed /\ p <= i => Times(a[p], x.ran) > 0
          /\ ~x.added => Times(a[p], x.ran) <= 1 /\ (p > i => Times(a[p], x.ran) = 0)
      BY <2>4, <2>6 DEF WalkInv, RanUpTo
    <3>2. a[p] = a[j] <=> p = j
      BY <1>1, <2>1 DEF IsHookArray, IsInjective
    <3>3. p <= i \/ p >= j
      BY <1>1, <1>2, <2>1, <2>4, <2>6
    <3> DEFINE old == Times(a[p], x.ran)  new == Times(a[p], y.ran)
    <3>4. old \in Nat /\ new = IF p = j THEN old + 1 ELSE old
      BY <1>4, <2>5, <3>2
    <3> HIDE DEF old, new
    <3>5. /\ ~x.removed /\ p <= i => old > 0
          /\ ~x.added => old <= 1 /\ (p > i => old = 0)
      BY <3>1 DEF old
    <3>6. /\ ~x.removed /\ p <= j => new > 0
      BY <2>1, <3>3, <3>4, <3>5
    <3>7. ~x.added => new <= 1 /\ (p > j => new = 0)
      BY <2>1, <3>3, <3>4, <3>5
    <3> QED BY <2>4, <3>6, <3>7 DEF new
  <2>7. y.stayed \subseteq ToSet(a)
    BY <2>4 DEF WalkInv
  <2> QED BY <2>4, <2>6, <2>7 DEF WalkInv, RanUpTo
<1> QED BY <1>5, <1>6

(* What the registry does to an array that is walked: the place of each     *)
(* hook that stays moves with the index or towards it.                      *)
LEMMA WalkAfterPut ==
  ASSUME NEW x \in Execution, NEW a \in Seq(Hooks), NEW r \in Seq(Hooks),
         NEW k \in 0 .. Len(a), NEW h, PutBehind(r, a, k, h), h \notin x.stayed,
         WalkInv(x, a, x.index), NEW y, y = [x EXCEPT !.added = TRUE]
  PROVE  y \in Execution /\ y.index = x.index /\ WalkInv(y, r, y.index)
<1>1. /\ y \in Execution /\ y.index = x.index /\ y.stayed = x.stayed /\ y.ran = x.ran
      /\ y.added /\ y.removed = x.removed
  BY DEF Execution
<1>2. Len(a) \in Nat /\ Len(r) = Len(a) + 1 /\ x.index \in Nat
  BY LenProperties DEF PutBehind, Execution
<1>3. x.stayed \subseteq ToSet(r)
  <2> SUFFICES ASSUME NEW g \in x.stayed PROVE g \in ToSet(r)
    OBVIOUS
  <2>1. PICK p \in 1 .. Len(a) : a[p] = g
    BY DEF WalkInv, ToSet
  <2>2. CASE p <= k
    <3>1. r[p] = g /\ p \in 1 .. Len(r)
      BY <1>2, <2>1, <2>2 DEF PutBehind
    <3> QED BY <3>1 DEF ToSet
  <2>3. CASE p > k
    <3>1. r[p + 1] = g /\ p + 1 \in 1 .. Len(r)
      BY <1>2, <2>1, <2>3 DEF PutBehind
    <3> QED BY <3>1 DEF ToSet
  <2> QED BY <2>2, <2>3
<1>4. ASSUME NEW p \in 1 .. Len(r), r[p] \in x.stayed \cap Enabled, ~x.removed, p <= x.index
      PROVE  Times(r[p], x.ran) > 0
  <2>1. CASE p <= k
    BY <1>2, <1>4, <2>1 DEF PutBehind, WalkInv, RanUpTo
  <2>2. CASE p = k + 1
    <3>1. r[p] = h
      BY <2>2, Zenon DEF PutBehind
    <3>2. r[p] \in x.stayed
      BY <1>4
    <3>3. FALSE
      BY <3>1, <3>2, Zenon
    <3> QED BY <3>3
  <2>3. CASE p > k + 1
    <3>1. p - 1 \in k + 1 .. Len(a) /\ (p - 1) + 1 = p /\ p - 1 \in 1 .. Len(a)
      BY <1>2, <2>3
    <3>3. p <= x.index
      BY <1>4
    <3>4. p - 1 <= x.index
      BY <1>2, <3>3
    <3>2. r[p] = a[p - 1]
      BY <3>1 DEF PutBehind
    <3> QED BY <1>4, <3>1, <3>2, <3>4 DEF WalkInv, RanUpTo
  <2> QED BY <2>1, <2>2, <2>3
<1> QED BY <1>1, <1>3, <1>4 DEF WalkInv, RanUpTo

(* A removal moves the hooks behind it by one towards the index.            *)
LEMMA WalkAfterSplice ==
  ASSUME NEW x \in Execution, NEW a, IsHookArray(a), NEW q \in DOMAIN a,
         WalkInv(x, a, x.index),
         NEW y, y = [x EXCEPT !.removed = TRUE, !.stayed = @ \ {a[q]}]
  PROVE  y \in Execution /\ y.index = x.index /\ WalkInv(y, RemoveAt(a, q), y.index)
<1> DEFINE r == RemoveAt(a, q)
<1>0. a \in Seq(Hooks)
  BY DEF IsHookArray
<1>1. /\ y \in Execution /\ y.index = x.index /\ y.stayed = x.stayed \ {a[q]} /\ y.ran = x.ran
      /\ y.added = x.added /\ y.removed
  BY DEF Execution
<1>2. /\ r \in Seq(Hooks) /\ Len(r) = Len(a) - 1 /\ Len(a) \in Nat /\ q \in 1 .. Len(a)
      /\ \A k \in 1 .. Len(a) - 1 : r[k] = IF k < q THEN a[k] ELSE a[k + 1]
  BY <1>0, SpliceFacts, LenProperties
<1> HIDE DEF r
<1>3. x.index \in Nat
  BY DEF Execution
<1>4. y.stayed \subseteq ToSet(r)
  <2> SUFFICES ASSUME NEW g \in x.stayed, g # a[q] PROVE g \in ToSet(r)
    BY <1>1
  <2>1. PICK p \in 1 .. Len(a) : a[p] = g
    BY <1>0 DEF WalkInv, ToSet
  <2>2. CASE p < q
    <3>1. r[p] = g /\ p \in 1 .. Len(r)
      BY <1>2, <2>1, <2>2
    <3> QED BY <1>2, <3>1 DEF ToSet
  <2>3. CASE p > q
    <3>1. p - 1 \in 1 .. Len(a) - 1 /\ ~ (p - 1 < q) /\ (p - 1) + 1 = p
      BY <1>2, <2>3
    <3>2. r[p - 1] = g /\ p - 1 \in 1 .. Len(r)
      BY <1>2, <2>1, <3>1
    <3> QED BY <1>2, <3>2 DEF ToSet
  <2>4. p # q
    BY <2>1
  <2> QED BY <1>2, <2>2, <2>3, <2>4
<1>5. ASSUME NEW p \in 1 .. Len(r), r[p] \in y.stayed \cap Enabled, ~x.added
      PROVE  Times(r[p], x.ran) <= 1 /\ (p > x.index => Times(r[p], x.ran) = 0)
  <2>1. CASE p < q
    <3>1. r[p] = a[p] /\ p \in 1 .. Len(a)
      BY <1>2, <2>1
    <3> QED BY <1>1, <1>5, <3>1 DEF WalkInv, RanUpTo
  <2>2. CASE ~ (p < q)
    <3>1. r[p] = a[p + 1] /\ p + 1 \in 1 .. Len(a) /\ (p > x.index => p + 1 > x.index)
      BY <1>2, <1>3, <2>2
    <3> QED BY <1>1, <1>5, <3>1 DEF WalkInv, RanUpTo
  <2> QED BY <2>1, <2>2
<1>6. WalkInv(y, r, y.index)
  BY <1>1, <1>4, <1>5 DEF WalkInv, RanUpTo
<1> QED BY <1>1, <1>6 DEF r
-----------------------------------------------------------------------------
(* A manager starts with one empty array.                                   *)
LEMMA HooksInit == HookInit /\ now = 0 => HooksInv
<1> SUFFICES ASSUME HookInit, now = 0 PROVE HooksInv
  OBVIOUS
<1>1. arrays = << <<>> >> /\ registered = {} /\ execution = [e \in Executions |-> Idle]
  BY DEF HookInit
<1>2. Idle \in Execution
  BY DEF Idle, Execution
<1>3. IsHookArray(<<>>) /\ ToSet(<<>>) = {}
  BY ToSetOfNothing DEF IsHookArray, IsInjective
<1>4. ArraysInv
  <2>1. arrays \in Seq(Seq(Hooks)) /\ Len(arrays) = 1 /\ arrays[1] = <<>>
    BY <1>1
  <2> QED BY <1>3, <2>1 DEF ArraysInv
<1>5. ExecutionInv(Idle)
  BY DEF ExecutionInv, Idle
<1> QED BY <1>1, <1>2, <1>4, <1>5 DEF HooksInv

(* A step of the registry that leaves one array different.                  *)
LEMMA ArraysChange ==
  ASSUME ArraysInv, NEW r, IsHookArray(r), NEW known, known = registered',
         registered \subseteq known, ToSet(r) \subseteq known,
         arrays' = [arrays EXCEPT ![Current] = r]
  PROVE  /\ ArraysInv' /\ Len(arrays') = Len(arrays) /\ Current \in 1 .. Len(arrays)
         /\ arrays'[Current] = r
         /\ \A k \in 1 .. Len(arrays) : k # Current => arrays'[k] = arrays[k]
<1>1. /\ arrays \in Seq(Seq(Hooks)) /\ Len(arrays) \in Nat /\ Current \in 1 .. Len(arrays)
      /\ DOMAIN arrays = 1 .. Len(arrays)
  BY LenProperties DEF ArraysInv, Current
<1>2. r \in Seq(Hooks)
  BY DEF IsHookArray
<1> HIDE DEF Current
<1>3. /\ arrays' \in Seq(Seq(Hooks)) /\ Len(arrays') = Len(arrays) /\ arrays'[Current] = r
      /\ \A k \in 1 .. Len(arrays) : k # Current => arrays'[k] = arrays[k]
  BY <1>1, <1>2, ExceptSeq
<1>4. ASSUME NEW k \in 1 .. Len(arrays)
      PROVE  IsHookArray(arrays'[k]) /\ ToSet(arrays'[k]) \subseteq registered'
  BY <1>3 DEF ArraysInv
<1> QED BY <1>1, <1>3, <1>4 DEF ArraysInv

(* An execution that walks another array, or none, is as it was.            *)
LEMMA OthersStay ==
  ASSUME HooksInv, NEW e \in Executions, Len(arrays') = Len(arrays),
         \A k \in 1 .. Len(arrays) : k # Current => arrays'[k] = arrays[k],
         ~ (Walking(e) /\ execution[e].array = Current), execution'[e] = execution[e]
  PROVE  ExecutionInv(execution[e])'
<1>1. ExecutionInv(execution[e])
  BY DEF HooksInv
<1> DEFINE x == execution[e]
<1>2. x.state = "waiting" => arrays'[x.array] = arrays[x.array]
  BY <1>1 DEF ExecutionInv, Walking
<1> QED BY <1>1, <1>2 DEF ExecutionInv

(* A hook that is registered goes where its priority belongs, ...           *)
LEMMA RegisterKeeps ==
  ASSUME HooksInv, NEW h \in Hooks, RegisterHook(h)
  PROVE  HooksInv'
<1> DEFINE a == arrays[Current]
           low == {g \in Hooks : Priority[g] <= Priority[h]}
           high == {g \in Hooks : Priority[g] > Priority[h]}
           u == Filter(a, low)
           v == Filter(a, high)
           r == u \o <<h>> \o v
<1>1. /\ ArraysInv /\ execution \in [Executions -> Execution] /\ registered \subseteq Hooks
      /\ now \in Nat
      /\ Current \in 1 .. Len(arrays) /\ Len(arrays) \in Nat
  BY LenProperties DEF HooksInv, ArraysInv, Current
<1>2. IsHookArray(a) /\ ToSet(a) \subseteq registered /\ a \in Seq(Hooks) /\ Len(a) \in Nat
  BY <1>1, LenProperties DEF ArraysInv, IsHookArray
<1>3. /\ h \notin registered /\ arrays' = [arrays EXCEPT ![Current] = r]
      /\ registered' = registered \cup {h} /\ now' = now
      /\ execution' = [e \in Executions |->
           IF Walking(e) /\ execution[e].array = Current
           THEN [execution[e] EXCEPT !.added = TRUE] ELSE execution[e]]
  BY DEF RegisterHook, WithWalkers
<1> HIDE DEF a, low, high, u, v, r
<1>4. \A g \in Hooks : Priority[g] \in Int
  BY HookAssumption
<1>5. u \o v = a
  <2>1. \A g \in Hooks : g \in high <=> g \notin low
    BY <1>4 DEF low, high
  <2>2. ToSet(a) \cap high = ToSet(a) \cap (Hooks \ low)
    BY <1>1, <1>2, <2>1
  <2>3. Filter(a, high) = Filter(a, Hooks \ low)
    BY <1>2, <2>2, FilterAlike
  <2>4. LowFirst(a, low)
    <3> SUFFICES ASSUME NEW i \in 1 .. Len(a), NEW j \in 1 .. Len(a), i < j, a[j] \in low
                 PROVE  a[i] \in low
      BY DEF LowFirst
    <3>1. a[i] \in Hooks /\ a[j] \in Hooks /\ Priority[a[i]] <= Priority[a[j]]
      BY <1>2 DEF IsHookArray
    <3>2. Priority[a[j]] <= Priority[h]
      BY DEF low
    <3> QED BY <1>4, <3>1, <3>2 DEF low
  <2>5. Filter(a, low) \o Filter(a, Hooks \ low) = a
    BY <1>2, <2>4, LowFirstSplits
  <2> QED BY <2>3, <2>5 DEF u, v
<1>6. /\ u \in Seq(Hooks) /\ v \in Seq(Hooks)
      /\ ToSet(u) \subseteq low /\ ToSet(v) \subseteq high
  BY <1>2, FilterFacts DEF u, v
<1> DEFINE k == Len(u)
<1>7. /\ r \in Seq(Hooks) /\ k \in 0 .. Len(a) /\ PutBehind(r, a, k, h)
      /\ \A p \in 1 .. k : a[p] = u[p]
      /\ \A p \in 1 .. Len(v) : a[k + p] = v[p]
      /\ Len(a) = k + Len(v) /\ Len(v) \in Nat
  <2>1. u \in Seq(Hooks) /\ v \in Seq(Hooks) /\ a = u \o v
    BY <1>5, <1>6
  <2>2. PutBetween(u \o <<h>> \o v, u \o v, u, v, h)
    BY <2>1, InsertFacts
  <2>3. PutBetween(r, a, u, v, h)
    BY <2>1, <2>2, Zenon DEF r
  <2> QED BY <2>3 DEF PutBetween
<1>8. (\A p \in 1 .. k : a[p] \in low) /\ \A p \in k + 1 .. Len(a) : a[p] \in high
  <2>1. ASSUME NEW p \in 1 .. k PROVE a[p] \in low
    BY <1>6, <1>7, ToSetType
  <2>2. ASSUME NEW p \in k + 1 .. Len(a) PROVE a[p] \in high
    <3>1. p - k \in 1 .. Len(v) /\ k + (p - k) = p
      BY <1>7
    <3>2. a[p] = v[p - k]
      BY <1>7, <3>1
    <3> QED BY <1>6, <3>1, <3>2, ToSetType
  <2> QED BY <2>1, <2>2
<1> HIDE DEF k
<1>9. /\ Len(r) = Len(a) + 1 /\ r[k + 1] = h
      /\ \A p \in 1 .. k : r[p] = a[p]
      /\ \A p \in k + 1 .. Len(a) : r[p + 1] = a[p]
  BY <1>7 DEF PutBehind
<1>10. \A p \in 1 .. Len(a) : a[p] \in registered /\ a[p] \in Hooks /\ a[p] # h
  BY <1>2, <1>3, ToSetType
<1> DEFINE old(p) == IF p <= k THEN p ELSE p - 1
<1>11. ASSUME NEW p \in 1 .. Len(r)
       PROVE  p = k + 1 \/ (old(p) \in 1 .. Len(a) /\ r[p] = a[old(p)])
  <2>1. CASE p <= k
    BY <1>2, <1>7, <1>9, <2>1
  <2>2. CASE p > k + 1
    <3>1. p - 1 \in k + 1 .. Len(a) /\ (p - 1) + 1 = p /\ ~ (p <= k) /\ p - 1 \in 1 .. Len(a)
      BY <1>2, <1>7, <1>9, <2>2
    <3> QED BY <1>9, <3>1
  <2> QED BY <1>7, <2>1, <2>2
<1>12. IsInjective(r)
  <2>1. DOMAIN r = 1 .. Len(r)
    BY <1>7
  <2> SUFFICES ASSUME NEW p \in 1 .. Len(r), NEW q \in 1 .. Len(r), r[p] = r[q]
               PROVE  p = q
    BY <2>1 DEF IsInjective
  <2>2. CASE p = k + 1 \/ q = k + 1
    BY <1>9, <1>10, <1>11, <2>2
  <2>3. CASE p # k + 1 /\ q # k + 1
    <3>1. old(p) \in 1 .. Len(a) /\ old(q) \in 1 .. Len(a) /\ a[old(p)] = a[old(q)]
      BY <1>11, <2>3
    <3>2. DOMAIN a = 1 .. Len(a)
      BY <1>2
    <3>3. old(p) = old(q)
      BY <1>2, <3>1, <3>2 DEF IsHookArray, IsInjective
    <3> QED BY <1>7, <2>3, <3>3
  <2> QED BY <2>2, <2>3
<1>13. \A p, q \in 1 .. Len(r) : p < q => Priority[r[p]] <= Priority[r[q]]
  <2> SUFFICES ASSUME NEW p \in 1 .. Len(r), NEW q \in 1 .. Len(r), p < q
               PROVE  Priority[r[p]] <= Priority[r[q]]
    OBVIOUS
  <2>1. Priority[h] \in Int
    BY <1>4
  <2>2. CASE p = k + 1
    <3>1. q - 1 \in k + 1 .. Len(a) /\ q # k + 1 /\ old(q) = q - 1
      BY <1>2, <1>7, <1>9, <2>2
    <3>2. r[q] \in high
      BY <1>8, <1>11, <3>1
    <3> QED BY <1>4, <1>9, <2>1, <2>2, <3>2 DEF high
  <2>3. CASE q = k + 1
    <3>1. p \in 1 .. k
      BY <1>7, <2>3
    <3>2. r[p] \in low
      BY <1>8, <1>9, <3>1
    <3> QED BY <1>4, <1>9, <2>1, <2>3, <3>2 DEF low
  <2>4. CASE p # k + 1 /\ q # k + 1
    <3>1. old(p) < old(q)
      BY <1>7, <2>4
    <3>2. /\ old(p) \in 1 .. Len(a) /\ old(q) \in 1 .. Len(a)
          /\ r[p] = a[old(p)] /\ r[q] = a[old(q)]
      BY <1>11, <2>4
    <3> HIDE DEF old
    <3> QED BY <1>2, <3>1, <3>2 DEF IsHookArray
  <2> QED BY <2>2, <2>3, <2>4
<1>14. IsHookArray(r)
  BY <1>7, <1>12, <1>13 DEF IsHookArray
<1>15. ToSet(r) \subseteq registered'
  <2>1. DOMAIN r = 1 .. Len(r)
    BY <1>7
  <2>2. \A p \in 1 .. Len(r) : r[p] \in registered \cup {h}
    BY <1>9, <1>10, <1>11
  <2> QED BY <1>3, <2>1, <2>2 DEF ToSet
<1>16. /\ ArraysInv' /\ Len(arrays') = Len(arrays) /\ arrays'[Current] = r
       /\ \A j \in 1 .. Len(arrays) : j # Current => arrays'[j] = arrays[j]
  BY <1>1, <1>3, <1>14, <1>15, ArraysChange
<1>17. ASSUME NEW e \in Executions
       PROVE  execution'[e] \in Execution /\ ExecutionInv(execution[e])'
  <2> DEFINE x == execution[e]  y == execution'[e]
  <2>1. x \in Execution /\ ExecutionInv(x)
    BY <1>1 DEF HooksInv
  <2>2. CASE Walking(e) /\ x.array = Current
    <3>1. y = [x EXCEPT !.added = TRUE] /\ x.state = "waiting"
      BY <1>3, <2>2 DEF Walking
    <3>2. WalkInv(x, a, x.index)
      BY <2>1, <2>2, <3>1 DEF ExecutionInv, a
    <3>3. h \notin x.stayed
      BY <1>2, <1>3, <3>2 DEF WalkInv
    <3> HIDE DEF x, y
    <3>4. y \in Execution /\ WalkInv(y, r, y.index)
      BY <1>2, <1>7, <2>1, <3>1, <3>2, <3>3, WalkAfterPut
    <3>5. y.state = "waiting" /\ y.array = Current
      BY <2>1, <2>2, <3>1 DEF Execution, x
    <3> USE DEF y
    <3>6. /\ y.array \in 1 .. Len(arrays') /\ WalkInv(y, arrays'[y.array], y.index)
      BY <1>1, <1>16, <3>4, <3>5
    <3> QED BY <3>4, <3>5, <3>6 DEF ExecutionInv
  <2>3. CASE ~ (Walking(e) /\ x.array = Current)
    <3>1. y = x
      BY <1>3, <2>3
    <3> QED BY <1>16, <2>1, <2>3, <3>1, OthersStay
  <2> QED BY <2>2, <2>3
<1>18. execution' \in [Executions -> Execution]
  BY <1>3, <1>17, SMTT(40)
<1> QED BY <1>1, <1>3, <1>16, <1>17, <1>18 DEF HooksInv

(* ... one that is removed leaves the order of the others, ...              *)
LEMMA UnregisterKeeps ==
  ASSUME HooksInv, NEW h \in Hooks, UnregisterHook(h)
  PROVE  HooksInv'
<1> DEFINE a == arrays[Current]
<1>1. /\ ArraysInv /\ execution \in [Executions -> Execution] /\ registered \subseteq Hooks
      /\ now \in Nat
      /\ Current \in 1 .. Len(arrays) /\ Len(arrays) \in Nat
  BY LenProperties DEF HooksInv, ArraysInv, Current
<1>2. IsHookArray(a) /\ ToSet(a) \subseteq registered /\ a \in Seq(Hooks) /\ Len(a) \in Nat
  BY <1>1, LenProperties DEF ArraysInv, IsHookArray
<1>3. PICK q \in DOMAIN a : a[q] = h /\ arrays' = [arrays EXCEPT ![Current] = RemoveAt(a, q)]
  BY DEF UnregisterHook
<1>4. /\ registered' = registered /\ now' = now
      /\ execution' = [e \in Executions |->
           IF Walking(e) /\ execution[e].array = Current
           THEN [execution[e] EXCEPT !.removed = TRUE, !.stayed = @ \ {h}] ELSE execution[e]]
  BY DEF UnregisterHook, WithWalkers
<1> DEFINE r == RemoveAt(a, q)
<1> HIDE DEF a
<1>5. /\ r \in Seq(Hooks) /\ Len(r) = Len(a) - 1 /\ IsInjective(r) /\ q \in 1 .. Len(a)
      /\ \A k \in 1 .. Len(a) - 1 : r[k] = IF k < q THEN a[k] ELSE a[k + 1]
  BY <1>2, SpliceFacts, SpliceKeepsInjective DEF IsHookArray
<1> HIDE DEF r
<1> DEFINE old(k) == IF k < q THEN k ELSE k + 1
<1>6. \A k \in 1 .. Len(r) : old(k) \in 1 .. Len(a) /\ r[k] = a[old(k)]
  BY <1>2, <1>5
<1>7. \A i, j \in 1 .. Len(r) : i < j => Priority[r[i]] <= Priority[r[j]]
  <2> SUFFICES ASSUME NEW i \in 1 .. Len(r), NEW j \in 1 .. Len(r), i < j
               PROVE  Priority[r[i]] <= Priority[r[j]]
    OBVIOUS
  <2>1. old(i) < old(j)
    BY <1>5
  <2>2. /\ old(i) \in 1 .. Len(a) /\ old(j) \in 1 .. Len(a)
        /\ r[i] = a[old(i)] /\ r[j] = a[old(j)]
    BY <1>6
  <2> HIDE DEF old
  <2> QED BY <1>2, <2>1, <2>2 DEF IsHookArray
<1>8. IsHookArray(r)
  BY <1>5, <1>7 DEF IsHookArray
<1>9. ToSet(r) \subseteq registered'
  <2>1. DOMAIN r = 1 .. Len(r)
    BY <1>5
  <2>2. \A k \in 1 .. Len(r) : r[k] \in registered
    BY <1>2, <1>6, ToSetType
  <2> QED BY <1>4, <2>1, <2>2 DEF ToSet
<1>10. arrays' = [arrays EXCEPT ![Current] = r]
  BY <1>3 DEF r
<1>11. /\ ArraysInv' /\ Len(arrays') = Len(arrays) /\ arrays'[Current] = r
       /\ \A j \in 1 .. Len(arrays) : j # Current => arrays'[j] = arrays[j]
  BY <1>1, <1>4, <1>8, <1>9, <1>10, ArraysChange
<1>12. ASSUME NEW e \in Executions
       PROVE  execution'[e] \in Execution /\ ExecutionInv(execution[e])'
  <2> DEFINE x == execution[e]  y == execution'[e]
  <2>1. x \in Execution /\ ExecutionInv(x)
    BY <1>1 DEF HooksInv
  <2>2. CASE Walking(e) /\ x.array = Current
    <3>1. y = [x EXCEPT !.removed = TRUE, !.stayed = @ \ {a[q]}] /\ x.state = "waiting"
      BY <1>3, <1>4, <2>2 DEF Walking
    <3>2. WalkInv(x, a, x.index)
      BY <2>1, <2>2, <3>1 DEF ExecutionInv, a
    <3> HIDE DEF x, y
    <3>3. y \in Execution /\ WalkInv(y, r, y.index)
      BY <1>2, <2>1, <3>1, <3>2, WalkAfterSplice DEF r
    <3>4. y.state = "waiting" /\ y.array = Current
      BY <2>1, <2>2, <3>1 DEF Execution, x
    <3> USE DEF y
    <3>5. y.array \in 1 .. Len(arrays') /\ WalkInv(y, arrays'[y.array], y.index)
      BY <1>1, <1>11, <3>3, <3>4
    <3> QED BY <3>3, <3>4, <3>5 DEF ExecutionInv
  <2>3. CASE ~ (Walking(e) /\ x.array = Current)
    <3>1. y = x
      BY <1>4, <2>3
    <3> QED BY <1>11, <2>1, <2>3, <3>1, OthersStay
  <2> QED BY <2>2, <2>3
<1>13. execution' \in [Executions -> Execution]
  BY <1>4, <1>12
<1> QED BY <1>1, <1>4, <1>11, <1>12, <1>13 DEF HooksInv

(* ... and clearing leaves the array to those that walk it.                 *)
LEMMA ClearKeeps ==
  ASSUME HooksInv, ClearHooks
  PROVE  HooksInv'
<1>1. /\ arrays \in Seq(Seq(Hooks)) /\ Len(arrays) \in Nat \ {0} /\ <<>> \in Seq(Hooks)
      /\ \A k \in 1 .. Len(arrays) : IsHookArray(arrays[k]) /\ ToSet(arrays[k]) \subseteq registered
  BY LenProperties DEF HooksInv, ArraysInv
<1>2. arrays' = Append(arrays, <<>>) /\ UNCHANGED <<registered, execution, now>>
  BY DEF ClearHooks
<1>3. /\ arrays' \in Seq(Seq(Hooks)) /\ Len(arrays') = Len(arrays) + 1
      /\ arrays'[Len(arrays) + 1] = <<>>
      /\ \A k \in 1 .. Len(arrays) : arrays'[k] = arrays[k]
  BY <1>1, <1>2, AppendProperties
<1>4. IsHookArray(<<>>) /\ ToSet(<<>>) = {}
  BY ToSetOfNothing DEF IsHookArray, IsInjective
<1>5. ArraysInv'
  BY <1>1, <1>2, <1>3, <1>4 DEF ArraysInv
<1>6. ASSUME NEW e \in Executions PROVE ExecutionInv(execution[e])'
  <2>1. ExecutionInv(execution[e])
    BY DEF HooksInv
  <2> QED BY <1>1, <1>2, <1>3, <2>1 DEF ExecutionInv
<1> QED BY <1>2, <1>5, <1>6 DEF HooksInv

(* An execution that goes on leaves the others as they are.                 *)
LEMMA OneGoesOn ==
  ASSUME HooksInv, UNCHANGED <<arrays, registered, now>>, NEW e \in Executions,
         NEW y \in Execution, ExecutionInv(y), execution' = [execution EXCEPT ![e] = y]
  PROVE  HooksInv'
<1>1. execution \in [Executions -> Execution]
  BY DEF HooksInv
<1>2. execution' \in [Executions -> Execution]
  BY <1>1
<1>3. ASSUME NEW d \in Executions PROVE ExecutionInv(execution[d])'
  <2>1. execution'[d] = y \/ execution'[d] = execution[d]
    BY <1>1
  <2>2. ExecutionInv(execution[d])
    BY DEF HooksInv
  <2> QED BY <2>1, <2>2 DEF ExecutionInv
<1>4. ArraysInv'
  BY DEF ArraysInv, HooksInv
<1> QED BY <1>2, <1>3, <1>4 DEF HooksInv

(* An execution starts with the current array, unless it is limited, ...    *)
LEMMA ExecuteKeeps ==
  ASSUME HooksInv, NEW e \in Executions, ExecuteHooks(e)
  PROVE  HooksInv'
<1> DEFINE x == execution[e]
           a == arrays[Current]
           x0 == [x EXCEPT !.array = Current, !.stayed = ToSet(a)]
<1>1. /\ ArraysInv /\ x \in Execution /\ ExecutionInv(x) /\ registered \subseteq Hooks
      /\ now \in Nat
      /\ Current \in 1 .. Len(arrays) /\ Len(arrays) \in Nat
  BY LenProperties DEF HooksInv, ArraysInv, Current
<1>2. IsHookArray(a) /\ ToSet(a) \subseteq Hooks
  BY <1>1 DEF ArraysInv
<1>3. x.state = "idle" /\ x.ran = <<>> /\ ~x.blocked /\ ~x.added /\ ~x.removed
  BY <1>1 DEF ExecuteHooks, ExecutionInv
<1>4. UNCHANGED <<arrays, registered, now>>
  BY DEF ExecuteHooks
<1>5. CASE execution' = [execution EXCEPT ![e].state = "limited"]
  <2> DEFINE y == [x EXCEPT !.state = "limited"]
  <2>1. execution' = [execution EXCEPT ![e] = y]
    BY <1>5, Zenon
  <2>2. y \in Execution /\ ExecutionInv(y)
    BY <1>1, <1>3 DEF Execution, ExecutionInv
  <2> HIDE DEF y
  <2> QED BY <1>4, <2>1, <2>2, OneGoesOn
<1>6. CASE execution' = [execution EXCEPT ![e] = Continue(x0, a, 1)]
  <2> DEFINE y == Continue(x0, a, 1)
  <2>1. /\ x0 \in Execution /\ x0.array = Current /\ x0.stayed = ToSet(a) /\ x0.ran = <<>>
    <3> DEFINE all == ToSet(a)  c == Current
    <3>1. /\ all \in SUBSET Hooks /\ c \in Nat /\ x \in Execution
          /\ x0 = [x EXCEPT !.array = c, !.stayed = all]
      BY <1>1, <1>2
    <3> HIDE DEF x0, x, a, all, c
    <3>2. x0 \in Execution /\ x0.array = c /\ x0.stayed = all /\ x0.ran = x.ran
      BY <3>1 DEF Execution
    <3> QED BY <1>3, <3>2 DEF all, c
  <2>2. x0.stayed \subseteq ToSet(a)
    BY <2>1
  <2>3. Len(a) \in Nat /\ a \in Seq(Hooks)
    BY <1>2, LenProperties DEF IsHookArray
  <2> HIDE DEF x0, a
  <2>4. RanUpTo(x0, a, 0)
    <3>1. ASSUME NEW p \in 1 .. Len(a) PROVE Times(a[p], <<>>) = 0
      <4>1. <<>> \in Seq(Hooks) /\ a[p] \in Hooks
        BY <2>3
      <4> QED BY <4>1, TimesAppend
    <3> QED BY <2>1, <2>3, <3>1 DEF RanUpTo
  <2>5. WalkInv(x0, a, 0)
    BY <2>2, <2>4 DEF WalkInv
  <2>6. y = Continue(x0, a, 0 + 1)
    OBVIOUS
  <2> HIDE DEF y
  <2>7. /\ y \in Execution /\ y.array = Current /\ y.state \in {"waiting", "done"}
        /\ y.state = "waiting" => WalkInv(y, a, y.index)
        /\ y.state = "done" => RanOnce(y)
    BY <1>1, <1>2, <2>1, <2>5, <2>6, ContinueFacts DEF a
  <2>8. ExecutionInv(y)
    BY <1>1, <2>7 DEF ExecutionInv, a
  <2> QED BY <1>4, <1>6, <2>7, <2>8, OneGoesOn DEF y
<1> QED BY <1>5, <1>6 DEF ExecuteHooks

(* ... and goes on from its index when a hook is over.                      *)
LEMMA HookOverKeeps ==
  ASSUME HooksInv, NEW e \in Executions, NEW shouldBlock \in BOOLEAN, HookOver(e, shouldBlock)
  PROVE  HooksInv'
<1> DEFINE x == execution[e]
           a == arrays[x.array]
           x0 == [x EXCEPT !.blocked = @ \/ shouldBlock]
           y == Continue(x0, a, x0.index + 1)
<1>1. ArraysInv /\ x \in Execution /\ ExecutionInv(x) /\ now \in Nat /\ x.state = "waiting"
  BY DEF HooksInv, HookOver, Walking
<1>2. x.array \in 1 .. Len(arrays) /\ WalkInv(x, a, x.index)
  BY <1>1 DEF ExecutionInv
<1>3. IsHookArray(a)
  BY <1>1, <1>2 DEF ArraysInv
<1>4. UNCHANGED <<arrays, registered, now>> /\ execution' = [execution EXCEPT ![e] = y]
  BY DEF HookOver, Array
<1>5. x.blocked \/ shouldBlock \in BOOLEAN
  OBVIOUS
<1>6. /\ x0 \in Execution /\ x0.array = x.array /\ x0.stayed = x.stayed /\ x0.ran = x.ran
      /\ x0.added = x.added /\ x0.removed = x.removed
      /\ x0.index = x.index /\ x.index \in Nat
  BY <1>1 DEF Execution
<1> HIDE DEF x0, a
<1>7. WalkInv(x0, a, x.index)
  BY <1>2, <1>6 DEF WalkInv, RanUpTo
<1>8. /\ y \in Execution /\ y.array = x0.array /\ y.state \in {"waiting", "done"}
      /\ y.state = "waiting" => WalkInv(y, a, y.index)
      /\ y.state = "done" => RanOnce(y)
  <2> DEFINE i == x.index
  <2>1. i \in Nat /\ WalkInv(x0, a, i) /\ y = Continue(x0, a, i + 1)
    BY <1>6, <1>7
  <2> HIDE DEF y, i
  <2> QED BY <1>1, <1>3, <1>6, <2>1, ContinueFacts
<1> HIDE DEF y
<1>9. ExecutionInv(y)
  BY <1>2, <1>6, <1>8 DEF ExecutionInv, a
<1> QED BY <1>4, <1>8, <1>9, OneGoesOn

(* Every step of the manager keeps the invariant.                           *)
LEMMA HooksStep ==
  ASSUME HooksInv, [HookNext]_hookVars
  PROVE  HooksInv'
<1>1. ASSUME NEW e \in Executions, HandlerEnds(e) \/ HookTimesOut(e)
      PROVE  HooksInv'
  BY <1>1, HookOverKeeps DEF HandlerEnds, HookTimesOut
<1>2. CASE HookTick \/ UNCHANGED hookVars
  <2>1. UNCHANGED <<arrays, registered, execution>>
    BY <1>2 DEF HookTick, hookVars
  <2>2. now \in Nat
    BY DEF HooksInv
  <2>3. now' \in Nat
    BY <1>2, <2>2 DEF HookTick, Advance, hookVars
  <2>4. ArraysInv' /\ \A e \in Executions : ExecutionInv(execution[e])'
    BY <2>1 DEF HooksInv, ArraysInv, ExecutionInv
  <2> QED BY <2>1, <2>3, <2>4 DEF HooksInv
<1> QED BY <1>1, <1>2, RegisterKeeps, UnregisterKeeps, ClearKeeps, ExecuteKeeps DEF HookNext

(* An execution that returns has run each enabled hook that stayed          *)
(* registered, once: it misses one only if one was removed meanwhile, and   *)
(* repeats one only if one was added (hooks/index.ts:213-265).              *)
THEOREM HooksRunOnceHolds == HookSpec => []HooksRunOnce
<1>1. HookInit /\ now = 0 => HooksInv
  BY HooksInit
<1>2. HooksInv /\ [HookNext]_hookVars => HooksInv'
  BY HooksStep
<1>3. HooksInv => HooksRunOnce
  BY DEF HooksInv, ExecutionInv, RanOnce, HooksRunOnce
<1> QED BY <1>1, <1>2, <1>3, PTL DEF HookSpec

-------------------------------------------------------------------------------
(***************************************************************************)
(* The audio stream.  A node of the automaton stands for the letters that  *)
(* lead to it, and the automaton is always at the longest node that the    *)
(* text so far ends with; so it passes every needle's end.                 *)
(***************************************************************************)
(* The text t ends with s.                                                  *)
Ends(s, t) ==
  /\ Len(s) <= Len(t)
  /\ \A i \in 1 .. Len(s) : s[i] = t[Len(t) - Len(s) + i]

(* A text ends with itself and with nothing, ...                            *)
LEMMA EndsReflexive == ASSUME NEW T, NEW t \in Seq(T) PROVE Ends(t, t) /\ Ends(<<>>, t)
BY DEF Ends

(* ... with what its endings end with; ...                                  *)
LEMMA EndsTransitive ==
  ASSUME NEW T, NEW s \in Seq(T), NEW t \in Seq(T), NEW u \in Seq(T), Ends(s, t), Ends(t, u)
  PROVE  Ends(s, u)
<1>1. Len(s) \in Nat /\ Len(t) \in Nat /\ Len(u) \in Nat /\ Len(s) <= Len(u)
  BY DEF Ends
<1>2. ASSUME NEW i \in 1 .. Len(s) PROVE s[i] = u[Len(u) - Len(s) + i]
  <2>1. s[i] = t[Len(t) - Len(s) + i]
    BY DEF Ends
  <2>2. /\ Len(t) - Len(s) + i \in 1 .. Len(t)
        /\ Len(u) - Len(t) + (Len(t) - Len(s) + i) = Len(u) - Len(s) + i
    BY <1>1 DEF Ends
  <2> QED BY <2>1, <2>2 DEF Ends
<1> QED BY <1>1, <1>2 DEF Ends

(* ... of two of its endings the longer ends with the shorter, ...          *)
LEMMA EndsNested ==
  ASSUME NEW T, NEW s \in Seq(T), NEW t \in Seq(T), NEW u \in Seq(T), Ends(s, u), Ends(t, u), Len(s) <= Len(t)
  PROVE  Ends(s, t)
<1>1. Len(s) \in Nat /\ Len(t) \in Nat /\ Len(u) \in Nat
  OBVIOUS
<1>2. ASSUME NEW i \in 1 .. Len(s) PROVE s[i] = t[Len(t) - Len(s) + i]
  <2>1. s[i] = u[Len(u) - Len(s) + i]
    BY DEF Ends
  <2>2. /\ Len(t) - Len(s) + i \in 1 .. Len(t)
        /\ Len(u) - Len(t) + (Len(t) - Len(s) + i) = Len(u) - Len(s) + i
    BY <1>1
  <2> QED BY <2>1, <2>2 DEF Ends
<1> QED BY <1>2 DEF Ends

(* ... and two of one length are the same.                                  *)
LEMMA EndsSame ==
  ASSUME NEW T, NEW s \in Seq(T), NEW t \in Seq(T), NEW u \in Seq(T), Ends(s, u), Ends(t, u), Len(s) = Len(t)
  PROVE  s = t
<1>1. Len(s) \in Nat /\ Len(t) \in Nat /\ Len(u) \in Nat
  OBVIOUS
<1>2. \A i \in 1 .. Len(s) : s[i] = t[i]
  BY DEF Ends
<1> QED BY <1>1, <1>2, SeqEqual

(* Texts that end alike still do with one more letter each.                 *)
LEMMA EndsAppend ==
  ASSUME NEW T, NEW s \in Seq(T), NEW t \in Seq(T), NEW x \in T
  PROVE  Ends(Append(s, x), Append(t, x)) <=> Ends(s, t)
<1> DEFINE a == Append(s, x)
           b == Append(t, x)
<1>1. /\ Len(s) \in Nat /\ Len(t) \in Nat
      /\ Len(a) = Len(s) + 1 /\ Len(b) = Len(t) + 1
      /\ \A i \in 1 .. Len(s) : a[i] = s[i]
      /\ \A i \in 1 .. Len(t) : b[i] = t[i]
      /\ a[Len(s) + 1] = x /\ b[Len(t) + 1] = x
  BY AppendProperties
<1> HIDE DEF a, b
<1>2. ASSUME Ends(s, t) PROVE Ends(a, b)
  <2>1. Len(s) <= Len(t) /\ Len(b) - Len(a) = Len(t) - Len(s)
    BY <1>1, <1>2 DEF Ends
  <2>2. ASSUME NEW i \in 1 .. Len(a) PROVE a[i] = b[Len(b) - Len(a) + i]
    <3>1. CASE i = Len(s) + 1
      <4>1. Len(b) - Len(a) + i = Len(t) + 1
        BY <1>1, <3>1
      <4> QED BY <4>1, <1>1, <3>1
    <3>2. CASE i # Len(s) + 1
      <4>1. i \in 1 .. Len(s) /\ Len(t) - Len(s) + i \in 1 .. Len(t)
        BY <1>1, <2>1, <3>2
      <4>2. a[i] = s[i] /\ s[i] = t[Len(t) - Len(s) + i]
        BY <1>1, <1>2, <4>1 DEF Ends
      <4>3. t[Len(t) - Len(s) + i] = b[Len(t) - Len(s) + i]
        BY <1>1, <4>1
      <4>4. Len(b) - Len(a) + i = Len(t) - Len(s) + i
        BY <1>1
      <4> QED BY <4>2, <4>3, <4>4
    <3> QED BY <3>1, <3>2
  <2> QED BY <2>1, <2>2, <1>1 DEF Ends
<1>3. ASSUME Ends(a, b) PROVE Ends(s, t)
  <2>1. Len(s) <= Len(t)
    BY <1>1, <1>3 DEF Ends
  <2>2. ASSUME NEW i \in 1 .. Len(s) PROVE s[i] = t[Len(t) - Len(s) + i]
    <3>1. /\ i \in 1 .. Len(a) /\ Len(t) - Len(s) + i \in 1 .. Len(t)
          /\ Len(b) - Len(a) + i = Len(t) - Len(s) + i
      BY <1>1, <2>1
    <3>2. a[i] = b[Len(b) - Len(a) + i]
      BY <1>3, <3>1 DEF Ends
    <3>3. a[i] = s[i] /\ b[Len(t) - Len(s) + i] = t[Len(t) - Len(s) + i]
      BY <1>1, <3>1
    <3> QED BY <3>1, <3>2, <3>3
  <2> QED BY <2>1, <2>2 DEF Ends
<1> QED BY <1>2, <1>3 DEF a, b

(* A text is all but its last letter, and that letter.                      *)
LEMMA FrontFacts ==
  ASSUME NEW T, NEW s \in Seq(T), s # <<>>
  PROVE  /\ Front(s) \in Seq(T) /\ Len(s) \in Nat \ {0} /\ Len(Front(s)) = Len(s) - 1
         /\ Last(s) = s[Len(s)] /\ Last(s) \in T
         /\ s = Append(Front(s), Last(s))
<1> DEFINE f == SubSeq(s, 1, Len(s) - 1)
           x == s[Len(s)]
           a == Append(f, x)
<1>1. /\ Len(s) \in Nat \ {0} /\ x \in T
      /\ 1 \in Int /\ Len(s) - 1 \in Int /\ \A i \in 1 .. Len(s) - 1 : s[i] \in T
  BY EmptySeq
<1>2. /\ f \in Seq(T) /\ Len(f) = Len(s) - 1
      /\ \A i \in 1 .. Len(s) - 1 : f[i] = s[i]
  <2>1. /\ f \in Seq(T)
        /\ Len(f) = IF 1 <= Len(s) - 1 THEN (Len(s) - 1) - 1 + 1 ELSE 0
        /\ \A i \in 1 .. (Len(s) - 1) - 1 + 1 : f[i] = s[1 + i - 1]
    BY <1>1, SubSeqProperties
  <2>2. \A k \in Nat \ {0} :
          /\ (k - 1) - 1 + 1 = k - 1 /\ \A i \in 1 .. k - 1 : 1 + i - 1 = i
          /\ (IF 1 <= k - 1 THEN (k - 1) - 1 + 1 ELSE 0) = k - 1
    OBVIOUS
  <2> HIDE DEF f
  <2> QED BY <1>1, <2>1, <2>2
<1> HIDE DEF f, x
<1>3. /\ a \in Seq(T) /\ Len(a) = Len(s)
      /\ \A i \in 1 .. Len(s) - 1 : a[i] = s[i]
      /\ a[Len(s)] = x
  <2>1. /\ a \in Seq(T) /\ Len(a) = Len(f) + 1
        /\ \A i \in 1 .. Len(f) : a[i] = f[i]
        /\ a[Len(f) + 1] = x
    BY <1>1, <1>2, AppendProperties
  <2> HIDE DEF a
  <2> QED BY <1>1, <1>2, <2>1
<1> HIDE DEF a
<1>4. \A i \in 1 .. Len(s) : a[i] = s[i]
  BY <1>1, <1>3 DEF x
<1>5. a = s
  BY <1>3, <1>4, SeqEqual
<1> QED BY <1>1, <1>2, <1>5 DEF Front, Last, f, x, a

(* An ending of a longer text that is not empty ends with the new letter.   *)
LEMMA EndsSplit ==
  ASSUME NEW T, NEW s \in Seq(T), s # <<>>, NEW t \in Seq(T), NEW x \in T, Ends(s, Append(t, x))
  PROVE  /\ Front(s) \in Seq(T) /\ Len(Front(s)) = Len(s) - 1
         /\ s = Append(Front(s), x) /\ Ends(Front(s), t)
<1> DEFINE f == Front(s)
           b == Append(t, x)
<1>1. /\ Len(s) \in Nat \ {0} /\ Len(t) \in Nat
      /\ Len(b) = Len(t) + 1 /\ b[Len(t) + 1] = x
  BY AppendProperties, EmptySeq
<1>2. /\ f \in Seq(T) /\ Len(f) = Len(s) - 1
      /\ s = Append(f, s[Len(s)])
  BY FrontFacts
<1> HIDE DEF f, b
<1>3. s[Len(s)] = x
  <2>1. Len(s) \in 1 .. Len(s) /\ Len(b) - Len(s) + Len(s) = Len(t) + 1
    BY <1>1
  <2>2. Ends(s, b)
    BY DEF b
  <2>3. s[Len(s)] = b[Len(b) - Len(s) + Len(s)]
    BY <2>1, <2>2 DEF Ends
  <2> QED BY <2>1, <2>3, <1>1
<1>4. Ends(f, t)
  BY <1>2, <1>3, EndsAppend DEF b
<1> QED BY <1>2, <1>3, <1>4 DEF f

(* The beginnings of a sequence, each with one letter more.                 *)
LEMMA PrefixFacts ==
  ASSUME NEW T, NEW s \in Seq(T), NEW k \in 0 .. Len(s)
  PROVE  /\ SubSeq(s, 1, k) \in Seq(T) /\ Len(SubSeq(s, 1, k)) = k
         /\ \A i \in 1 .. k : SubSeq(s, 1, k)[i] = s[i]
<1> DEFINE f == SubSeq(s, 1, k)
<1>1. k \in Nat /\ Len(s) \in Nat /\ 1 \in Int /\ k \in Int /\ \A i \in 1 .. k : s[i] \in T
  OBVIOUS
<1>2. /\ f \in Seq(T)
      /\ Len(f) = IF 1 <= k THEN k - 1 + 1 ELSE 0
      /\ \A i \in 1 .. k - 1 + 1 : f[i] = s[1 + i - 1]
  BY <1>1, SubSeqProperties
<1>3. \A j \in Nat :
        /\ j - 1 + 1 = j /\ \A i \in 1 .. j : 1 + i - 1 = i
        /\ (IF 1 <= j THEN j - 1 + 1 ELSE 0) = j
  OBVIOUS
<1> HIDE DEF f
<1>4. /\ f \in Seq(T) /\ Len(f) = k
      /\ \A i \in 1 .. k : f[i] = s[i]
  BY <1>1, <1>2, <1>3
<1> QED BY <1>4 DEF f

(* A beginning grows by the next letter.                                    *)
LEMMA PrefixGrows ==
  ASSUME NEW T, NEW s \in Seq(T), NEW k \in 0 .. Len(s), k # Len(s)
  PROVE  SubSeq(s, 1, k + 1) = Append(SubSeq(s, 1, k), s[k + 1])
<1> DEFINE f == SubSeq(s, 1, k)
           g == SubSeq(s, 1, k + 1)
           x == s[k + 1]
           a == Append(f, x)
<1>1. k \in Nat /\ Len(s) \in Nat /\ k + 1 \in 0 .. Len(s) /\ x \in T
  OBVIOUS
<1>2. /\ f \in Seq(T) /\ Len(f) = k /\ \A i \in 1 .. k : f[i] = s[i]
      /\ g \in Seq(T) /\ Len(g) = k + 1 /\ \A i \in 1 .. k + 1 : g[i] = s[i]
  BY <1>1, PrefixFacts
<1> HIDE DEF f, g, x
<1>3. /\ a \in Seq(T) /\ Len(a) = Len(f) + 1
      /\ \A i \in 1 .. Len(f) : a[i] = f[i]
      /\ a[Len(f) + 1] = x
  BY <1>1, <1>2, AppendProperties
<1> HIDE DEF a
<1>4. \A i \in 1 .. Len(g) : g[i] = a[i]
  BY <1>1, <1>2, <1>3 DEF x
<1>5. g = a
  BY <1>1, <1>2, <1>3, <1>4, SeqEqual
<1> QED BY <1>5 DEF f, g, x, a

(* The nodes are texts, the needles are among them, and each node's         *)
(* beginnings.                                                              *)
LEMMA NodeFacts ==
  /\ Nodes \subseteq Seq(Letters) /\ Needles \subseteq Nodes
  /\ Needles # {} => <<>> \in Nodes
  /\ \A m \in Seq(Letters), x \in Letters : Child(m, x) \in Nodes => m \in Nodes
<1>0. \A n \in Needles : n \in Seq(Letters)
  BY AudioAssumption
<1>1. ASSUME NEW p \in Nodes
      PROVE  \E n \in Needles : \E k \in 0 .. Len(n) : p = SubSeq(n, 1, k)
  BY DEF Nodes
<1>2. ASSUME NEW n \in Needles, NEW k \in 0 .. Len(n) PROVE SubSeq(n, 1, k) \in Nodes
  BY DEF Nodes
<1>3. Nodes \subseteq Seq(Letters)
  BY <1>0, <1>1, PrefixFacts
<1>4. ASSUME NEW n \in Needles PROVE n \in Nodes /\ <<>> \in Nodes
  <2>1. n \in Seq(Letters) /\ Len(n) \in Nat /\ Len(n) \in 0 .. Len(n) /\ 0 \in 0 .. Len(n)
    BY <1>0
  <2>2. SubSeq(n, 1, Len(n)) = n
    BY <2>1, SubSeqFull
  <2>3. SubSeq(n, 1, 0) = <<>>
    BY SubSeqEmpty
  <2>4. SubSeq(n, 1, Len(n)) \in Nodes /\ SubSeq(n, 1, 0) \in Nodes
    BY <1>2, <2>1
  <2> QED BY <2>2, <2>3, <2>4
<1>5. ASSUME NEW m \in Seq(Letters), NEW x \in Letters, Child(m, x) \in Nodes
      PROVE  m \in Nodes
  <2>1. PICK n \in Needles : \E k \in 0 .. Len(n) : Append(m, x) = SubSeq(n, 1, k)
    BY <1>1, <1>5 DEF Child
  <2>2. PICK k \in 0 .. Len(n) : Append(m, x) = SubSeq(n, 1, k)
    BY <2>1
  <2>3. n \in Seq(Letters) /\ Len(n) \in Nat /\ k \in Nat
    <3>1. n \in Seq(Letters)
      BY <1>0
    <3>2. Len(n) \in Nat
      BY <3>1, LenProperties
    <3> QED BY <3>1, <3>2
  <2>4. Len(Append(m, x)) = Len(m) + 1 /\ Len(m) \in Nat /\ Append(m, x) \in Seq(Letters)
    BY AppendProperties
  <2>5. Len(SubSeq(n, 1, k)) = k
    BY <2>3, PrefixFacts
  <2>6. k - 1 \in 0 .. Len(n) /\ k - 1 # Len(n) /\ (k - 1) + 1 = k
    BY <2>2, <2>3, <2>4, <2>5
  <2>7. SubSeq(n, 1, (k - 1) + 1) = Append(SubSeq(n, 1, k - 1), n[(k - 1) + 1])
    BY <2>3, <2>6, PrefixGrows
  <2>8. SubSeq(n, 1, k - 1) \in Seq(Letters) /\ n[k] \in Letters
    BY <2>3, <2>6, PrefixFacts
  <2>9. Append(m, x) = Append(SubSeq(n, 1, k - 1), n[k])
    BY <2>2, <2>6, <2>7
  <2>10. m = SubSeq(n, 1, k - 1)
    <3>1. \A u, v \in Seq(Letters), y, z \in Letters : Append(u, y) = Append(v, z) => u = v
      BY AppendInjective
    <3> QED BY <2>8, <2>9, <3>1, Zenon
  <2> QED BY <1>2, <2>6, <2>10
<1> QED BY <1>3, <1>4, <1>5

-------------------------------------------------------------------------------
(* m is the longest node below the given length that t ends with.           *)
Longest(m, t, below) ==
  /\ m \in Nodes /\ Ends(m, t) /\ Len(m) < below
  /\ \A n \in Nodes : Ends(n, t) /\ Len(n) < below => Len(n) <= Len(m)

(* That node.                                                               *)
LongestOf(t, below) == CHOOSE m \in Nodes : Longest(m, t, below)

(* There is one, ...                                                        *)
LEMMA LongestIs ==
  ASSUME Needles # {}, NEW t \in Seq(Letters), NEW below \in Nat \ {0}
  PROVE  Longest(LongestOf(t, below), t, below)
<1> DEFINE P(m) == m \in Nodes /\ Ends(m, t) /\ Len(m) < below
           I == {i \in Nat : \E m \in Nodes : P(m) /\ i = below - Len(m)}
<1>1. \A m \in Nodes : m \in Seq(Letters) /\ Len(m) \in Nat
  BY NodeFacts
<1>2. <<>> \in Nodes /\ Ends(<<>>, t) /\ Len(<<>>) = 0
  BY NodeFacts, EndsReflexive
<1>3. below \in I
  BY <1>2
<1>4. PICK i \in I : \A j \in I : i <= j
  <2>1. I \in SUBSET Nat /\ I # {}
    BY <1>3
  <2> HIDE DEF I
  <2> QED BY <2>1, LeastNumber
<1>5. PICK m \in Nodes : P(m) /\ i = below - Len(m)
  OBVIOUS
<1>6. ASSUME NEW n \in Nodes, P(n) PROVE Len(n) <= Len(m)
  <2>1. below - Len(n) \in I
    BY <1>1, <1>6
  <2>2. below - Len(m) <= below - Len(n)
    BY <1>4, <1>5, <2>1
  <2> HIDE DEF I, P
  <2> QED BY <1>1, <2>2
<1>7. Longest(m, t, below)
  BY <1>5, <1>6 DEF Longest
<1> QED BY <1>7, Zenon DEF LongestOf

(* ... and only one.                                                        *)
LEMMA LongestOnly ==
  ASSUME NEW t \in Seq(Letters), NEW below \in Nat, NEW m, NEW n,
         Longest(m, t, below), Longest(n, t, below)
  PROVE  m = n
<1>1. m \in Seq(Letters) /\ n \in Seq(Letters) /\ Ends(m, t) /\ Ends(n, t)
  BY NodeFacts DEF Longest
<1>2. Len(m) \in Nat /\ Len(n) \in Nat /\ Len(m) <= Len(n) /\ Len(n) <= Len(m)
  BY <1>1 DEF Longest
<1>3. Len(m) = Len(n)
  BY <1>2
<1> QED BY <1>1, <1>3, EndsSame

(* The nodes a text ends with are those its longest one ends with.          *)
LEMMA LongestHasAll ==
  ASSUME NEW t \in Seq(Letters), NEW m, Longest(m, t, Len(t) + 1), NEW n \in Nodes
  PROVE  Ends(n, t) <=> Ends(n, m)
<1>1. m \in Seq(Letters) /\ n \in Seq(Letters) /\ Ends(m, t)
  BY NodeFacts DEF Longest
<1>2. ASSUME Ends(n, t) PROVE Ends(n, m)
  <2>1. Len(n) <= Len(t) /\ Len(n) \in Nat /\ Len(t) \in Nat
    BY <1>1, <1>2 DEF Ends
  <2>2. Len(n) <= Len(m)
    BY <1>2, <2>1 DEF Longest
  <2> QED BY <1>1, <1>2, <2>2, EndsNested
<1>3. ASSUME Ends(n, m) PROVE Ends(n, t)
  BY <1>1, <1>3, EndsTransitive
<1> QED BY <1>2, <1>3

(* Where the climb from m with a letter must lead.                          *)
Target(m, letter) == LongestOf(Child(m, letter), Len(m) + 2)

(* The failure link of m is right: the longest node it ends with other than *)
(* itself.                                                                  *)
LinkRight(fail, m) == m # <<>> => Longest(fail[m], m, Len(m))

(* The letter after the longest node takes it to the longest again.         *)
LEMMA TargetExtends ==
  ASSUME Needles # {}, NEW t \in Seq(Letters), NEW below \in Nat, NEW f, Longest(f, t, below),
         NEW x \in Letters
  PROVE  Longest(Target(f, x), Append(t, x), below + 1)
<1> DEFINE a == Append(t, x)
           u == Child(f, x)
           c == Target(f, x)
<1>1. /\ f \in Nodes /\ f \in Seq(Letters) /\ Ends(f, t) /\ Len(f) \in Nat /\ Len(f) < below
      /\ Len(t) \in Nat /\ a \in Seq(Letters)
  <2>1. f \in Nodes /\ f \in Seq(Letters) /\ Ends(f, t) /\ Len(f) < below
    BY NodeFacts DEF Longest
  <2>2. a \in Seq(Letters)
    BY AppendProperties
  <2> QED BY <2>1, <2>2, LenProperties
<1>2. u \in Seq(Letters) /\ Len(u) = Len(f) + 1 /\ Len(f) + 2 \in Nat \ {0} /\ Ends(u, a)
  <2>1. u \in Seq(Letters) /\ Len(u) = Len(f) + 1
    BY <1>1, AppendProperties DEF Child
  <2>2. Ends(u, a)
    BY <1>1, EndsAppend DEF Child
  <2> QED BY <1>1, <2>1, <2>2
<1>3. Longest(c, u, Len(f) + 2)
  BY <1>2, LongestIs DEF Target
<1> HIDE DEF a, u, c
<1>4. c \in Nodes /\ Ends(c, a) /\ Len(c) \in Nat /\ Len(c) < below + 1
  <2>1. c \in Nodes /\ c \in Seq(Letters) /\ Ends(c, u) /\ Len(c) < Len(f) + 2
    BY <1>3, NodeFacts DEF Longest
  <2>2. Ends(c, a)
    BY <1>1, <1>2, <2>1, EndsTransitive
  <2>3. Len(c) \in Nat
    BY <2>1, LenProperties
  <2> QED BY <1>1, <2>1, <2>2, <2>3
<1>5. ASSUME NEW n \in Nodes, Ends(n, a), Len(n) < below + 1 PROVE Len(n) <= Len(c)
  <2>1. n \in Seq(Letters) /\ Len(n) \in Nat
    BY NodeFacts, LenProperties
  <2>2. CASE n = <<>>
    BY <2>2, <1>4
  <2>3. CASE n # <<>>
    <3> DEFINE h == Front(n)
    <3>1. h \in Seq(Letters) /\ Len(h) = Len(n) - 1 /\ n = Append(h, x) /\ Ends(h, t)
      BY <1>5, <2>1, <2>3, EndsSplit DEF a
    <3> HIDE DEF h
    <3>2. h \in Nodes /\ Len(h) \in Nat
      BY <3>1, <1>5, NodeFacts, LenProperties DEF Child
    <3>3. Len(h) < below
      BY <1>5, <2>1, <3>1
    <3>4. Len(h) <= Len(f)
      BY <3>1, <3>2, <3>3 DEF Longest
    <3>5. Ends(h, f)
      BY <1>1, <3>1, <3>4, EndsNested
    <3>6. Ends(n, u)
      BY <1>1, <3>1, <3>5, EndsAppend DEF Child, u
    <3>7. Len(n) < Len(f) + 2
      BY <1>1, <2>1, <3>1, <3>2, <3>4
    <3> QED BY <1>3, <3>6, <3>7 DEF Longest
  <2> QED BY <2>2, <2>3
<1> QED BY <1>4, <1>5 DEF Longest, a, c

(* If the link of m is right and the climb from there, then that from m is. *)
LEMMA ClimbGoesOn ==
  ASSUME Needles # {}, NEW m \in Nodes, NEW x \in Letters, NEW fail, LinkRight(fail, m)
  PROVE  Target(m, x) = IF Child(m, x) \in Nodes THEN Child(m, x)
                        ELSE IF m = <<>> THEN <<>> ELSE Target(fail[m], x)
<1> DEFINE t == Child(m, x)
           below == Len(m) + 2
<1>1. /\ m \in Seq(Letters) /\ Len(m) \in Nat /\ t \in Seq(Letters) /\ Len(t) = Len(m) + 1
      /\ below \in Nat \ {0} /\ Len(t) < below
      /\ <<>> \in Nodes /\ Len(<<>>) = 0 /\ Ends(<<>>, t) /\ Ends(t, t)
  <2>1. m \in Seq(Letters) /\ <<>> \in Nodes
    BY NodeFacts
  <2>2. t \in Seq(Letters) /\ Len(t) = Len(m) + 1
    BY <2>1, AppendProperties DEF Child
  <2> QED BY <2>1, <2>2, EndsReflexive
<1>2. Longest(Target(m, x), t, below)
  BY <1>1, LongestIs DEF Target
<1> HIDE DEF t, below
<1>3. CASE t \in Nodes
  <2>1. Longest(t, t, below)
    <3>1. \A n \in Nodes : Ends(n, t) => Len(n) <= Len(t)
      BY DEF Ends
    <3> QED BY <1>1, <1>3, <3>1 DEF Longest
  <2>2. Target(m, x) = t
    BY <1>1, <1>2, <2>1, LongestOnly
  <2> QED BY <1>3, <2>2 DEF t
(* A node that the text ends with is shorter than the text, if that is no   *)
(* node.                                                                    *)
<1>4. ASSUME t \notin Nodes, NEW n \in Nodes, Ends(n, t)
      PROVE  Len(n) \in Nat /\ Len(n) < Len(t)
  <2>1. n \in Seq(Letters) /\ Len(n) \in Nat /\ Len(n) <= Len(t)
    BY <1>4, NodeFacts, LenProperties DEF Ends
  <2>2. Len(n) # Len(t)
    BY <1>1, <1>4, <2>1, EndsSame
  <2> QED BY <1>1, <2>1, <2>2
<1>5. CASE t \notin Nodes /\ m = <<>>
  <2> DEFINE n == Target(m, x)
  <2>1. n \in Nodes /\ Ends(n, t) /\ n \in Seq(Letters)
    BY <1>2, NodeFacts DEF Longest
  <2> HIDE DEF n
  <2>2. Len(n) = 0
    BY <1>1, <1>4, <1>5, <2>1
  <2>3. n = <<>>
    BY <2>1, <2>2, EmptySeq
  <2> QED BY <1>5, <2>3 DEF t, n
<1>6. CASE t \notin Nodes /\ m # <<>>
  <2> DEFINE c == Target(fail[m], x)
  <2>1. Longest(fail[m], m, Len(m))
    BY <1>6 DEF LinkRight
  <2>2. Longest(c, Append(m, x), Len(m) + 1)
    BY <1>1, <2>1, TargetExtends
  <2> HIDE DEF c
  <2>3. c \in Nodes /\ Ends(c, t) /\ Len(c) < Len(m) + 1
        /\ \A n \in Nodes : Ends(n, t) /\ Len(n) < Len(m) + 1 => Len(n) <= Len(c)
    BY <2>2 DEF Longest, Child, t
  <2>4. Len(c) < below
    BY <1>1, <1>4, <1>6, <2>3 DEF below
  <2>5. \A n \in Nodes : Ends(n, t) => Len(n) <= Len(c)
    BY <1>1, <1>4, <1>6, <2>3
  <2>6. Longest(c, t, below)
    BY <2>3, <2>4, <2>5 DEF Longest
  <2>7. Target(m, x) = c
    BY <1>1, <1>2, <2>6, LongestOnly
  <2> QED BY <1>6, <2>7 DEF c, t
<1> QED BY <1>3, <1>5, <1>6

-------------------------------------------------------------------------------
(* The climbs, as a function of where they start.                           *)
AreClimbs(c, fail, letter) ==
  c = [m \in Nodes |->
         IF Child(m, letter) \in Nodes THEN Child(m, letter)
         ELSE IF m = <<>> THEN <<>> ELSE c[fail[m]]]

(* If the links of some nodes are right, and all links lead to these, then  *)
(* the climbs from them get where they must.                                *)
LEMMA ClimbReaches ==
  ASSUME Needles # {}, NEW x \in Letters, NEW fail, NEW R \in SUBSET Nodes, <<>> \in R,
         \A m \in R : LinkRight(fail, m),
         \A m \in Nodes \ {<<>>} : fail[m] \in R,
         NEW n \in R
  PROVE  Climb(fail, n, x) = Target(n, x)
<1>1. \E c : AreClimbs(c, fail, x)
  <2> DEFINE c == [m \in Nodes |->
                     IF Child(m, x) \in Nodes THEN Child(m, x)
                     ELSE IF m = <<>> THEN <<>> ELSE Target(fail[m], x)]
  <2>1. \A m \in R : c[m] = Target(m, x)
    BY ClimbGoesOn
  <2>2. \A m \in Nodes \ {<<>>} : c[fail[m]] = Target(fail[m], x)
    BY <2>1
  <2>3. AreClimbs(c, fail, x)
    BY <2>2 DEF AreClimbs
  <2> QED BY <2>3
<1> DEFINE c == CHOOSE c : AreClimbs(c, fail, x)
<1>2. Climb(fail, n, x) = c[n]
  BY Zenon DEF Climb, AreClimbs
<1>3. AreClimbs(c, fail, x)
  BY <1>1, Zenon
<1> HIDE DEF c
<1>4. \A m \in Nodes : c[m] = IF Child(m, x) \in Nodes THEN Child(m, x)
                              ELSE IF m = <<>> THEN <<>> ELSE c[fail[m]]
  <2>1. c = [m \in Nodes |->
               IF Child(m, x) \in Nodes THEN Child(m, x)
               ELSE IF m = <<>> THEN <<>> ELSE c[fail[m]]]
    BY <1>3 DEF AreClimbs
  <2> QED BY <2>1
<1> DEFINE I == {i \in Nat : \A m \in R : Len(m) <= i => c[m] = Target(m, x)}
<1>5. \A m \in Nodes : m \in Seq(Letters) /\ Len(m) \in Nat /\ (m = <<>> <=> Len(m) = 0)
  BY NodeFacts, EmptySeq
<1>6. ASSUME NEW m \in R, m # <<>> => c[fail[m]] = Target(fail[m], x)
      PROVE  c[m] = Target(m, x)
  <2>1. Target(m, x) = IF Child(m, x) \in Nodes THEN Child(m, x)
                       ELSE IF m = <<>> THEN <<>> ELSE Target(fail[m], x)
    BY ClimbGoesOn
  <2> QED BY <1>4, <1>6, <2>1
<1>7. 0 \in I
  BY <1>5, <1>6
<1>8. ASSUME NEW i \in I PROVE i + 1 \in I
  <2>1. ASSUME NEW m \in R, Len(m) <= i + 1 PROVE c[m] = Target(m, x)
    <3>1. ASSUME m # <<>> PROVE c[fail[m]] = Target(fail[m], x)
      <4>1. Longest(fail[m], m, Len(m)) /\ fail[m] \in R
        BY <3>1 DEF LinkRight
      <4>2. Len(fail[m]) < Len(m) /\ Len(fail[m]) \in Nat /\ Len(m) \in Nat
        BY <4>1, <1>5 DEF Longest
      <4>3. Len(fail[m]) <= i
        BY <2>1, <4>2
      <4> QED BY <4>1, <4>3
    <3> QED BY <3>1, <1>6
  <2> QED BY <2>1
<1>9. I = Nat
  <2>1. I \in SUBSET Nat
    OBVIOUS
  <2> HIDE DEF I
  <2> QED BY <1>7, <1>8, <2>1, NumbersByInduction
<1>10. c[n] = Target(n, x)
  BY <1>5, <1>9
<1> QED BY <1>2, <1>10

-------------------------------------------------------------------------------
(* The links of one depth more, from those before.                          *)
Deeper(depth, before) ==
  [n \in Nodes |->
     IF depth <= 1 THEN <<>>
     ELSE IF Len(n) # depth THEN before[n]
     ELSE Climb(before, before[Front(n)], Last(n))]

(* What the table of failure links has to satisfy, by breadth.              *)
AreLinks(l) ==
  l = [depth \in Nat |->
         [n \in Nodes |->
            IF depth <= 1 THEN <<>>
            ELSE IF Len(n) # depth THEN l[depth - 1][n]
            ELSE Climb(l[depth - 1], l[depth - 1][Front(n)], Last(n))]]

(* What the link of a node is meant to be: the longest shorter node it ends *)
(* with.                                                                    *)
LinkOf(n) == IF n = <<>> THEN <<>> ELSE LongestOf(n, Len(n))

(* The links once the nodes of a depth have theirs.                         *)
LinksUpTo(depth) == [n \in Nodes |-> IF Len(n) <= depth THEN LinkOf(n) ELSE <<>>]

(* The link of a node is shorter than it.                                   *)
LEMMA LinkOfFacts ==
  ASSUME Needles # {}, NEW n \in Nodes
  PROVE  /\ n \in Seq(Letters) /\ Len(n) \in Nat /\ (n = <<>> <=> Len(n) = 0)
         /\ n # <<>> => Longest(LinkOf(n), n, Len(n)) /\ Len(LinkOf(n)) < Len(n)
         /\ LinkOf(n) \in Nodes /\ Len(LinkOf(n)) \in Nat /\ Len(LinkOf(n)) <= Len(n)
<1>1. n \in Seq(Letters) /\ Len(n) \in Nat /\ (n = <<>> <=> Len(n) = 0)
  BY NodeFacts, EmptySeq
<1>2. ASSUME n # <<>> PROVE Longest(LinkOf(n), n, Len(n))
  <2>1. Len(n) \in Nat \ {0}
    BY <1>1, <1>2
  <2> QED BY <1>1, <1>2, <2>1, LongestIs DEF LinkOf
<1>3. CASE n = <<>>
  BY <1>1, <1>3, NodeFacts DEF LinkOf
<1>4. CASE n # <<>>
  <2>1. LinkOf(n) \in Nodes /\ Len(LinkOf(n)) < Len(n)
    BY <1>2, <1>4 DEF Longest
  <2>2. Len(LinkOf(n)) \in Nat
    BY <2>1, NodeFacts, LenProperties
  <2> QED BY <1>1, <1>2, <1>4, <2>1, <2>2
<1> QED BY <1>3, <1>4

(* The links of one depth give those of the next.                           *)
LEMMA DeeperLinks ==
  ASSUME Needles # {}, NEW depth \in Nat
  PROVE  Deeper(depth, LinksUpTo(depth - 1)) = LinksUpTo(depth)
<1> DEFINE before == LinksUpTo(depth - 1)
<1>1. \A n \in Nodes : before[n] = IF Len(n) <= depth - 1 THEN LinkOf(n) ELSE <<>>
  BY DEF LinksUpTo
<1> HIDE DEF before
<1>2. ASSUME NEW n \in Nodes
      PROVE  (IF depth <= 1 THEN <<>>
              ELSE IF Len(n) # depth THEN before[n]
              ELSE Climb(before, before[Front(n)], Last(n)))
             = IF Len(n) <= depth THEN LinkOf(n) ELSE <<>>
  <2>1. Len(n) \in Nat /\ n \in Seq(Letters) /\ (n = <<>> <=> Len(n) = 0)
    BY LinkOfFacts
  <2>2. CASE depth <= 1
    <3>1. ASSUME Len(n) <= 1 PROVE LinkOf(n) = <<>>
      <4>1. CASE n = <<>>
        BY <4>1 DEF LinkOf
      <4>2. CASE n # <<>>
        <5>1. LinkOf(n) \in Nodes /\ Len(LinkOf(n)) \in Nat /\ Len(LinkOf(n)) < Len(n)
          BY <4>2, LinkOfFacts
        <5>2. Len(LinkOf(n)) = 0
          BY <2>1, <3>1, <5>1
        <5> QED BY <5>1, <5>2, LinkOfFacts
      <4> QED BY <4>1, <4>2
    <3>2. Len(n) <= depth => Len(n) <= 1
      BY <2>1, <2>2
    <3> QED BY <2>2, <3>1, <3>2
  <2>3. CASE depth > 1 /\ Len(n) # depth
    <3>1. Len(n) <= depth <=> Len(n) <= depth - 1
      BY <2>1, <2>3
    <3> QED BY <1>1, <2>3, <3>1
  <2>4. CASE depth > 1 /\ Len(n) = depth
    <3> DEFINE p == Front(n)
               x == Last(n)
               R == {m \in Nodes : Len(m) <= depth - 1}
    <3>1. n # <<>>
      BY <2>1, <2>4
    <3>2. p \in Seq(Letters) /\ Len(p) = Len(n) - 1 /\ x \in Letters /\ n = Append(p, x)
      BY <2>1, <3>1, FrontFacts
    <3> HIDE DEF p, x
    <3>3. p \in Nodes /\ Len(p) = depth - 1 /\ Len(p) > 0
      BY <2>4, <3>2, NodeFacts DEF Child
    <3>4. <<>> \in R
      BY <2>4, NodeFacts
    <3>5. \A m \in R : LinkRight(before, m)
      BY <1>1, LinkOfFacts DEF LinkRight
    <3>6. \A m \in Nodes \ {<<>>} : before[m] \in R
      <4>1. ASSUME NEW m \in Nodes \ {<<>>} PROVE before[m] \in R
        <5>1. CASE Len(m) <= depth - 1
          <6>1. before[m] = LinkOf(m)
            BY <1>1, <5>1
          <6>2. LinkOf(m) \in Nodes /\ Len(LinkOf(m)) <= Len(m) /\ Len(m) \in Nat
                /\ Len(LinkOf(m)) \in Nat
            BY LinkOfFacts
          <6> QED BY <5>1, <6>1, <6>2
        <5>2. CASE ~ (Len(m) <= depth - 1)
          BY <1>1, <3>4, <5>2
        <5> QED BY <5>1, <5>2
      <4> QED BY <4>1
    <3> DEFINE f == before[p]
    <3>7. f = LinkOf(p) /\ f \in R /\ Longest(f, p, Len(p))
      <4>1. p # <<>> /\ Len(p) <= depth - 1
        BY <3>3
      <4> QED BY <1>1, <3>3, <3>6, <4>1, LinkOfFacts
    <3> HIDE DEF f
    <3>8. Climb(before, f, x) = Target(f, x)
      <4>1. R \in SUBSET Nodes
        OBVIOUS
      <4> HIDE DEF R
      <4> QED BY <3>2, <3>4, <3>5, <3>6, <3>7, <4>1, ClimbReaches
    <3>9. Longest(Target(f, x), n, Len(n))
      <4>1. Longest(Target(f, x), Append(p, x), Len(p) + 1)
        BY <3>2, <3>3, <3>7, TargetExtends
      <4>2. Len(p) + 1 = Len(n)
        BY <2>1, <3>2
      <4> QED BY <3>2, <4>1, <4>2
    <3>10. Target(f, x) = LinkOf(n)
      BY <2>1, <3>1, <3>9, LinkOfFacts, LongestOnly
    <3>11. ~ (depth <= 1) /\ Len(n) <= depth
      BY <2>4
    <3> QED BY <2>4, <3>8, <3>10, <3>11 DEF f, p, x
  <2>5. depth <= 1 \/ depth > 1
    OBVIOUS
  <2> QED BY <2>2, <2>3, <2>4, <2>5
<1>3. Deeper(depth, before) = LinksUpTo(depth)
  BY <1>2 DEF Deeper, LinksUpTo
<1> QED BY <1>3 DEF before

(* So every failure link is right.                                          *)
LEMMA FailIsLink ==
  ASSUME Needles # {}, NEW n \in Nodes
  PROVE  Fail[n] = LinkOf(n)
<1> DEFINE L == [depth \in Nat |-> LinksUpTo(depth)]
<1>1. \E l : AreLinks(l)
  <2>1. ASSUME NEW depth \in Nat
        PROVE  LinksUpTo(depth) =
                 [m \in Nodes |->
                    IF depth <= 1 THEN <<>>
                    ELSE IF Len(m) # depth THEN L[depth - 1][m]
                    ELSE Climb(L[depth - 1], L[depth - 1][Front(m)], Last(m))]
    <3>1. CASE depth = 0
      <4>1. LinksUpTo(depth) = [m \in Nodes |-> <<>>]
        <5>1. \A m \in Nodes : (IF Len(m) <= depth THEN LinkOf(m) ELSE <<>>) = <<>>
          BY <3>1, LinkOfFacts DEF LinkOf
        <5> QED BY <5>1 DEF LinksUpTo
      <4> QED BY <3>1, <4>1
    <3>2. CASE depth # 0
      <4>1. L[depth - 1] = LinksUpTo(depth - 1)
        BY <3>2
      <4>2. Deeper(depth, LinksUpTo(depth - 1)) = LinksUpTo(depth)
        BY DeeperLinks
      <4> HIDE DEF L
      <4> QED BY <4>1, <4>2 DEF Deeper
    <3> QED BY <3>1, <3>2
  <2>2. AreLinks(L)
    BY <2>1 DEF AreLinks
  <2> QED BY <2>2
<1> DEFINE l == CHOOSE l : AreLinks(l)
<1>2. Fail = [m \in Nodes |-> l[Len(m)][m]]
  BY Zenon DEF Fail, AreLinks
<1>3. AreLinks(l)
  BY <1>1, Zenon
<1> HIDE DEF l, L
<1>4. ASSUME NEW depth \in Nat PROVE l[depth] = Deeper(depth, l[depth - 1])
  BY <1>3 DEF AreLinks, Deeper
<1> DEFINE I == {i \in Nat : l[i] = LinksUpTo(i)}
<1>5. 0 \in I
  <2>1. Deeper(0, l[0 - 1]) = [m \in Nodes |-> <<>>]
    BY DEF Deeper
  <2>2. LinksUpTo(0) = [m \in Nodes |-> <<>>]
    <3>1. \A m \in Nodes : (IF Len(m) <= 0 THEN LinkOf(m) ELSE <<>>) = <<>>
      BY LinkOfFacts DEF LinkOf
    <3> QED BY <3>1 DEF LinksUpTo
  <2>3. l[0] = Deeper(0, l[0 - 1])
    BY <1>4
  <2> QED BY <2>1, <2>2, <2>3
<1>6. ASSUME NEW i \in I PROVE i + 1 \in I
  <2>1. i \in Nat /\ i + 1 \in Nat /\ (i + 1) - 1 = i /\ l[i] = LinksUpTo(i)
    OBVIOUS
  <2>2. l[i + 1] = Deeper(i + 1, l[i])
    BY <1>4, <2>1
  <2>3. Deeper(i + 1, LinksUpTo((i + 1) - 1)) = LinksUpTo(i + 1)
    BY <2>1, DeeperLinks
  <2> QED BY <2>1, <2>2, <2>3
<1>7. I = Nat
  <2>1. I \in SUBSET Nat
    OBVIOUS
  <2> HIDE DEF I
  <2> QED BY <1>5, <1>6, <2>1, NumbersByInduction
<1>8. Len(n) \in Nat /\ Len(n) \in I
  BY <1>7, LinkOfFacts
<1>9. l[Len(n)] = LinksUpTo(Len(n))
  BY <1>8
<1>10. LinksUpTo(Len(n))[n] = LinkOf(n)
  BY <1>8 DEF LinksUpTo
<1> QED BY <1>2, <1>9, <1>10

(* And every step gets where it must.                                       *)
LEMMA StepReaches ==
  ASSUME Needles # {}, NEW n \in Nodes, NEW x \in Letters
  PROVE  Step(n, x) = Target(n, x)
<1>1. <<>> \in Nodes /\ Nodes \in SUBSET Nodes
  BY NodeFacts
<1>2. \A m \in Nodes : LinkRight(Fail, m) /\ Fail[m] \in Nodes
  BY FailIsLink, LinkOfFacts DEF LinkRight
<1>3. Climb(Fail, n, x) = Target(n, x)
  BY <1>1, <1>2, ClimbReaches
<1> QED BY <1>3 DEF Step

(* The outputs of a node are the needles it ends with.                      *)
NeedlesAt(n) == {p \in Needles : Ends(p, n)}

(* What the table of outputs has to satisfy.                                *)
AreOutputs(o) ==
  o = [n \in Nodes |-> ({n} \cap Needles) \cup (IF n = <<>> THEN {} ELSE o[Fail[n]])]

(* The needles at a node are itself, if it is one, and those at its link.   *)
LEMMA NeedlesAtLink ==
  ASSUME NEW n \in Nodes
  PROVE  NeedlesAt(n) = ({n} \cap Needles) \cup (IF n = <<>> THEN {} ELSE NeedlesAt(Fail[n]))
<1>1. ASSUME NEW p \in Needles
      PROVE  Ends(p, n) <=> p = n \/ (n # <<>> /\ Ends(p, Fail[n]))
  <2>1. /\ p \in Nodes /\ p \in Seq(Letters) /\ p # <<>> /\ n \in Seq(Letters)
        /\ Len(p) \in Nat /\ Len(n) \in Nat /\ Needles # {} /\ Ends(n, n)
    BY NodeFacts, AudioAssumption, LenProperties, EndsReflexive
  <2>2. CASE n = <<>>
    <3>1. ~ Ends(p, n)
      <4>1. Len(p) # 0
        BY <2>1, EmptySeq
      <4> QED BY <2>1, <2>2, <4>1 DEF Ends
    <3> QED BY <2>1, <2>2, <3>1
  <2>3. CASE n # <<>>
    <3> DEFINE f == Fail[n]
    <3>1. Longest(f, n, Len(n))
      BY <2>1, <2>3, FailIsLink, LinkOfFacts
    <3> HIDE DEF f
    <3>2. f \in Seq(Letters) /\ Ends(f, n)
      BY <3>1, NodeFacts DEF Longest
    <3>3. ASSUME Ends(p, n), p # n PROVE Ends(p, f)
      <4>1. Len(p) # Len(n)
        BY <2>1, <3>3, EndsSame
      <4>2. Len(p) < Len(n)
        BY <2>1, <3>3, <4>1 DEF Ends
      <4>3. Len(p) <= Len(f)
        BY <2>1, <3>1, <3>3, <4>2 DEF Longest
      <4> QED BY <2>1, <3>2, <3>3, <4>3, EndsNested
    <3>4. ASSUME Ends(p, f) PROVE Ends(p, n)
      BY <2>1, <3>2, <3>4, EndsTransitive
    <3> QED BY <2>1, <2>3, <3>3, <3>4 DEF f
  <2> QED BY <2>2, <2>3
<1> QED BY <1>1 DEF NeedlesAt

(* So its outputs are the needles it ends with.                             *)
LEMMA OutputsAreNeedles ==
  ASSUME Needles # {}, NEW n \in Nodes
  PROVE  Outputs[n] = NeedlesAt(n)
<1>1. \E o : AreOutputs(o)
  <2> DEFINE o == [m \in Nodes |-> NeedlesAt(m)]
  <2>1. \A m \in Nodes : m # <<>> => Fail[m] \in Nodes /\ o[Fail[m]] = NeedlesAt(Fail[m])
    BY FailIsLink, LinkOfFacts
  <2>2. \A m \in Nodes :
          o[m] = ({m} \cap Needles) \cup (IF m = <<>> THEN {} ELSE o[Fail[m]])
    BY <2>1, NeedlesAtLink
  <2>3. AreOutputs(o)
    BY <2>2 DEF AreOutputs
  <2> QED BY <2>3
<1>2. AreOutputs(Outputs)
  <2>1. Outputs = CHOOSE o : AreOutputs(o)
    BY Zenon DEF Outputs, AreOutputs
  <2> QED BY <1>1, <2>1, Zenon
<1>3. \A m \in Nodes :
        Outputs[m] = ({m} \cap Needles) \cup (IF m = <<>> THEN {} ELSE Outputs[Fail[m]])
  BY <1>2 DEF AreOutputs
<1> DEFINE I == {i \in Nat : \A m \in Nodes : Len(m) <= i => Outputs[m] = NeedlesAt(m)}
<1>4. ASSUME NEW m \in Nodes, m # <<>> => Outputs[Fail[m]] = NeedlesAt(Fail[m])
      PROVE  Outputs[m] = NeedlesAt(m)
  <2>1. NeedlesAt(m) = ({m} \cap Needles) \cup (IF m = <<>> THEN {} ELSE NeedlesAt(Fail[m]))
    BY NeedlesAtLink
  <2> QED BY <1>3, <1>4, <2>1
<1>5. 0 \in I
  <2>1. \A m \in Nodes : Len(m) <= 0 => m = <<>>
    BY LinkOfFacts
  <2> QED BY <1>4, <2>1
<1>6. ASSUME NEW i \in I PROVE i + 1 \in I
  <2>1. ASSUME NEW m \in Nodes, Len(m) <= i + 1 PROVE Outputs[m] = NeedlesAt(m)
    <3>1. ASSUME m # <<>> PROVE Outputs[Fail[m]] = NeedlesAt(Fail[m])
      <4>1. /\ Fail[m] = LinkOf(m) /\ LinkOf(m) \in Nodes /\ Len(m) \in Nat
            /\ Len(LinkOf(m)) < Len(m) /\ Len(LinkOf(m)) \in Nat
        BY <3>1, FailIsLink, LinkOfFacts
      <4>2. Len(LinkOf(m)) <= i
        BY <2>1, <4>1
      <4> QED BY <4>1, <4>2
    <3> QED BY <1>4, <3>1
  <2> QED BY <2>1
<1>7. I = Nat
  <2>1. I \in SUBSET Nat
    OBVIOUS
  <2> HIDE DEF I
  <2> QED BY <1>5, <1>6, <2>1, NumbersByInduction
<1>8. Len(n) \in I /\ Len(n) <= Len(n)
  BY <1>7, LinkOfFacts
<1> QED BY <1>8

-------------------------------------------------------------------------------
(* What was seen when k letters of a span have come.                        *)
SeenUpto(span, k) == SubSeq(seen \o span, 1, Len(seen) + k)

(* How far that is.                                                         *)
LEMMA SeenUptoFacts ==
  ASSUME seen \in Seq(Letters), NEW span \in Seq(Letters)
  PROVE  /\ Len(seen) \in Nat /\ Len(span) \in Nat
         /\ seen \o span \in Seq(Letters) /\ Len(seen \o span) = Len(seen) + Len(span)
         /\ SeenUpto(span, 0) = seen /\ SeenUpto(span, Len(span)) = seen \o span
         /\ \A k \in 0 .. Len(span) : /\ SeenUpto(span, k) \in Seq(Letters)
                                      /\ Len(SeenUpto(span, k)) = Len(seen) + k
         /\ \A k \in 1 .. Len(span) : /\ span[k] \in Letters
                                      /\ SeenUpto(span, k) = Append(SeenUpto(span, k - 1), span[k])
         /\ \A e \in 0 .. Len(seen) : SubSeq(seen \o span, 1, e) = SubSeq(seen, 1, e)
<1> DEFINE whole == seen \o span
<1>1. /\ Len(seen) \in Nat /\ Len(span) \in Nat
      /\ whole \in Seq(Letters) /\ Len(whole) = Len(seen) + Len(span)
      /\ \A i \in 1 .. Len(seen) + Len(span) :
           whole[i] = IF i <= Len(seen) THEN seen[i] ELSE span[i - Len(seen)]
  BY ConcatProperties, LenProperties
<1> HIDE DEF whole
<1>2. \A k \in 0 .. Len(span) : SubSeq(whole, 1, Len(seen) + k) \in Seq(Letters)
                                /\ Len(SubSeq(whole, 1, Len(seen) + k)) = Len(seen) + k
  <2>1. \A k \in 0 .. Len(span) : Len(seen) + k \in 0 .. Len(whole)
    BY <1>1
  <2> QED BY <1>1, <2>1, PrefixFacts
<1>3. ASSUME NEW k \in 1 .. Len(span)
      PROVE  /\ span[k] \in Letters
             /\ SubSeq(whole, 1, Len(seen) + k)
                  = Append(SubSeq(whole, 1, Len(seen) + (k - 1)), span[k])
  <2> DEFINE j == Len(seen) + (k - 1)
  <2>1. j \in 0 .. Len(whole) /\ j # Len(whole) /\ j + 1 = Len(seen) + k
    BY <1>1
  <2>2. whole[j + 1] = span[k] /\ span[k] \in Letters
    <3>1. j + 1 \in 1 .. Len(seen) + Len(span) /\ ~ (j + 1 <= Len(seen))
          /\ (j + 1) - Len(seen) = k
      BY <1>1
    <3> HIDE DEF j
    <3> QED BY <1>1, <3>1
  <2> HIDE DEF j
  <2>3. SubSeq(whole, 1, j + 1) = Append(SubSeq(whole, 1, j), whole[j + 1])
    BY <1>1, <2>1, PrefixGrows
  <2>4. SubSeq(whole, 1, Len(seen) + k) = Append(SubSeq(whole, 1, j), span[k])
    BY <2>1, <2>2, <2>3
  <2> QED BY <2>2, <2>4 DEF j
<1>4. ASSUME NEW e \in 0 .. Len(seen) PROVE SubSeq(whole, 1, e) = SubSeq(seen, 1, e)
  <2> DEFINE f == SubSeq(whole, 1, e)
             g == SubSeq(seen, 1, e)
  <2>1. e \in 0 .. Len(whole) /\ e \in Nat
    BY <1>1
  <2>2. f \in Seq(Letters) /\ Len(f) = e /\ \A i \in 1 .. e : f[i] = whole[i]
    BY <1>1, <2>1, PrefixFacts
  <2>3. g \in Seq(Letters) /\ Len(g) = e /\ \A i \in 1 .. e : g[i] = seen[i]
    BY PrefixFacts
  <2> HIDE DEF f, g
  <2>4. \A i \in 1 .. e : whole[i] = seen[i]
    BY <1>1
  <2>5. f = g
    BY <2>2, <2>3, <2>4, SeqEqual
  <2> QED BY <2>5 DEF f, g
<1>5. SubSeq(whole, 1, Len(seen) + 0) = seen
  <2>1. Len(seen) \in 0 .. Len(seen) /\ Len(seen) + 0 = Len(seen)
    BY <1>1
  <2>2. SubSeq(seen, 1, Len(seen)) = seen
    BY SubSeqFull
  <2> QED BY <1>4, <2>1, <2>2
<1>6. SubSeq(whole, 1, Len(seen) + Len(span)) = whole
  <2>1. SubSeq(whole, 1, Len(whole)) = whole
    BY <1>1, SubSeqFull
  <2> QED BY <1>1, <2>1
<1> QED BY <1>1, <1>2, <1>3, <1>4, <1>5, <1>6 DEF SeenUpto, whole

(* The way of the automaton through a span.                                 *)
IsPath(at, span) ==
  at = [k \in 0 .. Len(span) |-> IF k = 0 THEN node ELSE Step(at[k - 1], span[k])]

(* It is always at the longest node that what was seen ends with.           *)
LEMMA PathIsLongest ==
  ASSUME Needles # {}, seen \in Seq(Letters), NEW span \in Seq(Letters),
         Longest(node, seen, Len(seen) + 1), NEW k \in 0 .. Len(span)
  PROVE  Longest(Path(span)[k], SeenUpto(span, k), Len(seen) + k + 1)
<1> DEFINE best(j) == LongestOf(SeenUpto(span, j), Len(seen) + j + 1)
<1>1. Len(seen) \in Nat /\ Len(span) \in Nat
  BY LenProperties
<1>2. ASSUME NEW j \in 0 .. Len(span) PROVE Longest(best(j), SeenUpto(span, j), Len(seen) + j + 1)
  <2>1. SeenUpto(span, j) \in Seq(Letters) /\ Len(seen) + j + 1 \in Nat \ {0}
    BY <1>1, SeenUptoFacts
  <2> QED BY <2>1, LongestIs
<1>3. node = best(0)
  <2>1. 0 \in 0 .. Len(span) /\ Len(seen) + 0 + 1 = Len(seen) + 1 /\ SeenUpto(span, 0) = seen
    BY <1>1, SeenUptoFacts
  <2>2. Longest(best(0), seen, Len(seen) + 1)
    BY <1>2, <2>1
  <2> HIDE DEF best
  <2> QED BY <1>1, <2>2, LongestOnly
<1> HIDE DEF best
<1>4. ASSUME NEW j \in 1 .. Len(span) PROVE Step(best(j - 1), span[j]) = best(j)
  <2> DEFINE f == best(j - 1)
             t == SeenUpto(span, j - 1)
             below == Len(seen) + (j - 1) + 1
  <2>1. /\ j - 1 \in 0 .. Len(span) /\ j \in 0 .. Len(span)
        /\ below \in Nat /\ below + 1 = Len(seen) + j + 1 /\ below + 1 \in Nat
    BY <1>1
  <2>2. Longest(f, t, below) /\ Longest(best(j), SeenUpto(span, j), below + 1)
    BY <1>2, <2>1
  <2>3. t \in Seq(Letters) /\ span[j] \in Letters /\ SeenUpto(span, j) = Append(t, span[j])
        /\ SeenUpto(span, j) \in Seq(Letters)
    BY <2>1, SeenUptoFacts
  <2> HIDE DEF f, t, below
  <2>4. Longest(Target(f, span[j]), Append(t, span[j]), below + 1)
    BY <2>1, <2>2, <2>3, TargetExtends
  <2>5. Step(f, span[j]) = Target(f, span[j])
    BY <2>2, <2>3, StepReaches DEF Longest
  <2>6. Target(f, span[j]) = best(j)
    BY <2>1, <2>2, <2>3, <2>4, LongestOnly
  <2> QED BY <2>5, <2>6 DEF f
<1>5. \E at : IsPath(at, span)
  <2> DEFINE at == [j \in 0 .. Len(span) |-> best(j)]
  <2>1. \A j \in 0 .. Len(span) :
          best(j) = IF j = 0 THEN node ELSE Step(at[j - 1], span[j])
    <3>1. ASSUME NEW j \in 0 .. Len(span), j # 0 PROVE best(j) = Step(at[j - 1], span[j])
      <4>1. j \in 1 .. Len(span) /\ j - 1 \in 0 .. Len(span)
        BY <1>1, <3>1
      <4>2. at[j - 1] = best(j - 1)
        BY <4>1
      <4> HIDE DEF at
      <4> QED BY <1>4, <4>1, <4>2
    <3> QED BY <1>3, <3>1
  <2>2. IsPath(at, span)
    BY <2>1 DEF IsPath
  <2> QED BY <2>2
<1> DEFINE at == Path(span)
<1>6. IsPath(at, span)
  <2>1. at = CHOOSE p : IsPath(p, span)
    BY Zenon DEF Path, IsPath
  <2> QED BY <1>5, <2>1, Zenon
<1> HIDE DEF at
<1>7. \A j \in 0 .. Len(span) : at[j] = IF j = 0 THEN node ELSE Step(at[j - 1], span[j])
  BY <1>6 DEF IsPath
<1> DEFINE I == {i \in Nat : i <= Len(span) => at[i] = best(i)}
<1>8. 0 \in I
  BY <1>1, <1>3, <1>7
<1>9. ASSUME NEW i \in I PROVE i + 1 \in I
  <2>1. ASSUME i + 1 <= Len(span) PROVE at[i + 1] = best(i + 1)
    <3>1. i + 1 \in 0 .. Len(span) /\ i + 1 \in 1 .. Len(span) /\ i + 1 # 0
          /\ (i + 1) - 1 = i /\ i <= Len(span)
      BY <1>1, <2>1
    <3>2. at[i] = best(i)
      BY <3>1
    <3>3. at[i + 1] = Step(at[(i + 1) - 1], span[i + 1])
      BY <1>7, <3>1
    <3>4. Step(best((i + 1) - 1), span[i + 1]) = best(i + 1)
      BY <1>4, <3>1
    <3> QED BY <3>1, <3>2, <3>3, <3>4
  <2> QED BY <2>1
<1>10. I = Nat
  <2>1. I \in SUBSET Nat
    OBVIOUS
  <2> HIDE DEF I
  <2> QED BY <1>8, <1>9, <2>1, NumbersByInduction
<1>11. k \in I /\ k <= Len(span)
  BY <1>1, <1>10
<1>12. at[k] = best(k)
  BY <1>11
<1> QED BY <1>2, <1>12 DEF at

(* A needle occurs in a text if some beginning of the text ends with it, .. *)
LEMMA OccursEnds ==
  ASSUME NEW n \in Seq(Letters), NEW text \in Seq(Letters)
  PROVE  OccursIn(n, text) <=> \E e \in 0 .. Len(text) : Ends(n, SubSeq(text, 1, e))
<1>1. Len(n) \in Nat /\ Len(text) \in Nat
  BY LenProperties
<1>2. ASSUME NEW k \in 0 .. (Len(text) - Len(n)), SubSeq(text, k + 1, k + Len(n)) = n
      PROVE  \E e \in 0 .. Len(text) : Ends(n, SubSeq(text, 1, e))
  <2> DEFINE e == k + Len(n)
             p == SubSeq(text, 1, e)
  <2>1. e \in 0 .. Len(text) /\ e \in Nat /\ k \in Nat /\ e - Len(n) = k /\ Len(n) <= e
    BY <1>1
  <2>2. Len(p) = e /\ \A i \in 1 .. e : p[i] = text[i]
    BY <2>1, PrefixFacts
  <2>3. \A i \in 1 .. Len(n) : n[i] = text[k + i]
    <3>1. /\ k + 1 \in Int /\ k + Len(n) \in Int
          /\ \A i \in k + 1 .. k + Len(n) : text[i] \in Letters
      <4>1. \A i \in k + 1 .. k + Len(n) : i \in 1 .. Len(text)
        BY <1>1, <2>1
      <4> QED BY <1>1, <2>1, <4>1
    <3>2. \A i \in 1 .. (k + Len(n)) - (k + 1) + 1 :
            SubSeq(text, k + 1, k + Len(n))[i] = text[(k + 1) + i - 1]
      BY <3>1, SubSeqProperties
    <3>3. (k + Len(n)) - (k + 1) + 1 = Len(n)
          /\ \A i \in 1 .. Len(n) : (k + 1) + i - 1 = k + i
      BY <1>1, <2>1
    <3> QED BY <1>2, <3>2, <3>3
  <2> HIDE DEF p
  <2>4. \A i \in 1 .. Len(n) : k + i \in 1 .. e /\ (e - Len(n)) + i = k + i
    BY <1>1, <2>1
  <2> HIDE DEF e
  <2>5. Ends(n, p)
    BY <2>1, <2>2, <2>3, <2>4 DEF Ends
  <2> QED BY <2>1, <2>5 DEF p
<1>3. ASSUME NEW e \in 0 .. Len(text), Ends(n, SubSeq(text, 1, e))
      PROVE  OccursIn(n, text)
  <2> DEFINE k == e - Len(n)
             p == SubSeq(text, 1, e)
             q == SubSeq(text, k + 1, k + Len(n))
  <2>1. Len(p) = e /\ \A i \in 1 .. e : p[i] = text[i]
    BY PrefixFacts
  <2>2. Len(n) <= e /\ \A i \in 1 .. Len(n) : n[i] = p[e - Len(n) + i]
    BY <1>3, <2>1 DEF Ends
  <2> HIDE DEF p
  <2>3. /\ k \in Nat /\ k \in 0 .. (Len(text) - Len(n)) /\ e \in Nat /\ e <= Len(text)
        /\ k + Len(n) = e
    BY <1>1, <2>2
  <2>4. /\ q \in Seq(Letters)
        /\ Len(q) = IF k + 1 <= k + Len(n) THEN (k + Len(n)) - (k + 1) + 1 ELSE 0
        /\ \A i \in 1 .. (k + Len(n)) - (k + 1) + 1 : q[i] = text[(k + 1) + i - 1]
    <3>1. /\ k + 1 \in Int /\ k + Len(n) \in Int
          /\ \A i \in k + 1 .. k + Len(n) : text[i] \in Letters
      <4>1. \A i \in k + 1 .. k + Len(n) : i \in 1 .. Len(text)
        BY <1>1, <2>3
      <4> QED BY <1>1, <2>3, <4>1
    <3> QED BY <3>1, SubSeqProperties
  <2>5. /\ (IF k + 1 <= k + Len(n) THEN (k + Len(n)) - (k + 1) + 1 ELSE 0) = Len(n)
        /\ (k + Len(n)) - (k + 1) + 1 = Len(n)
        /\ \A i \in 1 .. Len(n) : /\ (k + 1) + i - 1 = k + i /\ k + i \in 1 .. e
                                  /\ e - Len(n) + i = k + i
    BY <1>1, <2>3
  <2> HIDE DEF k, q
  <2>6. Len(q) = Len(n) /\ \A i \in 1 .. Len(q) : q[i] = n[i]
    <3>1. Len(q) = Len(n)
      BY <2>4, <2>5
    <3>2. ASSUME NEW i \in 1 .. Len(n) PROVE q[i] = n[i]
      <4>1. (k + 1) + i - 1 = k + i /\ k + i \in 1 .. e /\ e - Len(n) + i = k + i
        BY <2>5
      <4>2. q[i] = text[k + i]
        BY <2>4, <2>5, <4>1
      <4>3. p[k + i] = text[k + i]
        BY <2>1, <4>1
      <4>4. n[i] = p[k + i]
        BY <2>2, <4>1
      <4> QED BY <4>2, <4>3, <4>4
    <3> QED BY <3>1, <3>2
  <2>7. q = n
    BY <2>4, <2>6, SeqEqual
  <2> QED BY <2>3, <2>7 DEF OccursIn, q
<1> QED BY <1>2, <1>3 DEF OccursIn

(* ... so a span brings it in if what is seen ends with it at some letter.  *)
LEMMA OccursLater ==
  ASSUME seen \in Seq(Letters), NEW span \in Seq(Letters), NEW n \in Seq(Letters)
  PROVE  OccursIn(n, seen \o span) <=>
           OccursIn(n, seen) \/ \E k \in 1 .. Len(span) : Ends(n, SeenUpto(span, k))
<1> DEFINE whole == seen \o span
<1>1. /\ Len(seen) \in Nat /\ Len(span) \in Nat
      /\ whole \in Seq(Letters) /\ Len(whole) = Len(seen) + Len(span)
      /\ \A e \in 0 .. Len(seen) : SubSeq(whole, 1, e) = SubSeq(seen, 1, e)
  BY SeenUptoFacts
<1>2. \A k \in 1 .. Len(span) : SeenUpto(span, k) = SubSeq(whole, 1, Len(seen) + k)
  BY DEF SeenUpto
<1> HIDE DEF whole
<1>3. ASSUME NEW e \in 0 .. Len(whole), Ends(n, SubSeq(whole, 1, e))
      PROVE  \/ \E d \in 0 .. Len(seen) : Ends(n, SubSeq(seen, 1, d))
             \/ \E k \in 1 .. Len(span) : Ends(n, SeenUpto(span, k))
  <2>1. CASE e <= Len(seen)
    <3>1. e \in 0 .. Len(seen)
      BY <1>1, <2>1
    <3> QED BY <1>1, <1>3, <3>1
  <2>2. CASE ~ (e <= Len(seen))
    <3>1. e - Len(seen) \in 1 .. Len(span) /\ Len(seen) + (e - Len(seen)) = e
      BY <1>1, <2>2
    <3> QED BY <1>2, <1>3, <3>1
  <2> QED BY <2>1, <2>2
<1>4. ASSUME NEW d \in 0 .. Len(seen), Ends(n, SubSeq(seen, 1, d))
      PROVE  \E e \in 0 .. Len(whole) : Ends(n, SubSeq(whole, 1, e))
  <2>1. d \in 0 .. Len(whole)
    BY <1>1
  <2> QED BY <1>1, <1>4, <2>1
<1>5. ASSUME NEW k \in 1 .. Len(span), Ends(n, SeenUpto(span, k))
      PROVE  \E e \in 0 .. Len(whole) : Ends(n, SubSeq(whole, 1, e))
  <2>1. Len(seen) + k \in 0 .. Len(whole)
    BY <1>1
  <2> QED BY <1>2, <1>5, <2>1
<1>6. OccursIn(n, whole) <=> \E e \in 0 .. Len(whole) : Ends(n, SubSeq(whole, 1, e))
  BY <1>1, OccursEnds
<1>7. OccursIn(n, seen) <=> \E d \in 0 .. Len(seen) : Ends(n, SubSeq(seen, 1, d))
  BY OccursEnds
<1>8. OccursIn(n, whole) <=>
        OccursIn(n, seen) \/ \E k \in 1 .. Len(span) : Ends(n, SeenUpto(span, k))
  BY <1>3, <1>4, <1>5, <1>6, <1>7
<1> QED BY <1>8 DEF whole

-------------------------------------------------------------------------------
(* The invariant of a session.                                              *)
AudioInv ==
  /\ pendingText \in Seq(Letters) /\ seen \in Seq(Letters) /\ earlyBlock \in BOOLEAN
  /\ Needles # {} => Longest(node, seen, Len(seen) + 1)
  /\ EarlyBlockExact

(* A session that is new or cleared has it.                                 *)
LEMMA EmptySession ==
  /\ Needles # {} => Longest(<<>>, <<>>, Len(<<>>) + 1)
  /\ \A n \in Critical : ~ OccursIn(n, <<>>)
<1>1. ASSUME Needles # {} PROVE Longest(<<>>, <<>>, Len(<<>>) + 1)
  <2>1. <<>> \in Nodes /\ Ends(<<>>, <<>>) /\ Len(<<>>) = 0
    BY <1>1, NodeFacts DEF Ends
  <2>2. \A n \in Nodes : Ends(n, <<>>) => Len(n) <= Len(<<>>)
    BY DEF Ends
  <2> QED BY <2>1, <2>2 DEF Longest
<1>2. ASSUME NEW n \in Critical PROVE ~ OccursIn(n, <<>>)
  <2>1. n \in Seq(Letters) /\ n # <<>>
    BY AudioAssumption
  <2>2. Len(n) \in Nat \ {0}
    BY <2>1, EmptySeq
  <2>3. 0 .. (Len(<<>>) - Len(n)) = {}
    BY <2>2
  <2> QED BY <2>3 DEF OccursIn
<1> QED BY <1>1, <1>2

(* So a new session has the invariant, ...                                  *)
LEMMA AudioInvInit == ASSUME AudioInit PROVE AudioInv
<1>1. pendingText = <<>> /\ seen = <<>> /\ earlyBlock = FALSE /\ node = <<>>
  BY DEF AudioInit
<1>2. pendingText \in Seq(Letters) /\ seen \in Seq(Letters) /\ earlyBlock \in BOOLEAN
  BY <1>1, EmptySeq
<1>3. Needles # {} => Longest(node, seen, Len(seen) + 1)
  <2>1. Needles # {} => Longest(<<>>, <<>>, Len(<<>>) + 1)
    BY EmptySession
  <2> QED BY <1>1, <2>1, Zenon
<1>4. EarlyBlockExact
  <2>1. \A n \in Critical : ~ OccursIn(n, <<>>)
    BY EmptySession
  <2>2. \A n \in Critical : ~ OccursIn(n, seen)
    BY <1>1, <2>1, Zenon
  <2> QED BY <1>1, <2>2, Zenon DEF EarlyBlockExact
<1> QED BY <1>2, <1>3, <1>4 DEF AudioInv

(* ... and so does one that was cleared.                                    *)
LEMMA ClearKeepsInv ==
  ASSUME ClearSessionState
  PROVE  AudioInv'
<1>1. pendingText' = <<>> /\ seen' = <<>> /\ earlyBlock' = FALSE /\ node' = <<>>
  BY DEF ClearSessionState
<1>2. pendingText' \in Seq(Letters) /\ seen' \in Seq(Letters) /\ earlyBlock' \in BOOLEAN
  BY <1>1, EmptySeq
<1>3. Needles # {} => Longest(node', seen', Len(seen') + 1)
  <2>1. Needles # {} => Longest(<<>>, <<>>, Len(<<>>) + 1)
    BY EmptySession
  <2> QED BY <1>1, <2>1, Zenon
<1>4. EarlyBlockExact'
  <2>1. \A n \in Critical : ~ OccursIn(n, <<>>)
    BY EmptySession
  <2>2. \A n \in Critical : ~ OccursIn(n, seen')
    BY <1>1, <2>1, Zenon
  <2>3. earlyBlock' <=> \E n \in Critical : OccursIn(n, seen')
    BY <1>1, <2>2, Zenon
  <2> QED BY <2>3, Zenon DEF EarlyBlockExact
<1> QED BY <1>2, <1>3, <1>4 DEF AudioInv

(* A span that is released goes through the automaton letter by letter, and *)
(* each needle it completes is seen at the node it leads to.                *)
LEMMA ReleasedKeepsInv ==
  ASSUME AudioInv, NEW span \in Seq(Letters), Released(span)
  PROVE  AudioInv'
<1> DEFINE path == Path(span)
           hit == \E k \in 1 .. Len(span) : Outputs[path[k]] \cap Critical # {}
<1>1. /\ node' = path[Len(span)] /\ earlyBlock' = (earlyBlock \/ hit)
      /\ seen' = seen \o span /\ pendingText' = <<>>
  BY DEF Released
<1>2. /\ seen \in Seq(Letters) /\ Len(seen) \in Nat /\ Len(span) \in Nat
      /\ seen' \in Seq(Letters) /\ Len(seen') = Len(seen) + Len(span)
  BY <1>1, SeenUptoFacts DEF AudioInv
<1>3. \A n \in Critical : n \in Needles /\ n \in Nodes /\ n \in Seq(Letters)
  BY AudioAssumption, NodeFacts
<1>4. ASSUME Needles # {}
      PROVE  \A k \in 0 .. Len(span) : Longest(path[k], SeenUpto(span, k), Len(seen) + k + 1)
  <2>1. Longest(node, seen, Len(seen) + 1)
    BY <1>4 DEF AudioInv
  <2> QED BY <1>2, <1>4, <2>1, PathIsLongest
<1> HIDE DEF path
<1>5. ASSUME Needles # {} PROVE Longest(node', seen', Len(seen') + 1)
  <2>1. Len(span) \in 0 .. Len(span) /\ SeenUpto(span, Len(span)) = seen'
    BY <1>1, <1>2, SeenUptoFacts
  <2>2. Longest(path[Len(span)], SeenUpto(span, Len(span)), Len(seen) + Len(span) + 1)
    BY <1>4, <1>5, <2>1
  <2> QED BY <1>1, <1>2, <2>1, <2>2
<1>6. hit <=> \E n \in Critical : \E k \in 1 .. Len(span) : Ends(n, SeenUpto(span, k))
  <2>1. ASSUME NEW n \in Critical, NEW k \in 1 .. Len(span)
        PROVE  n \in Outputs[path[k]] <=> Ends(n, SeenUpto(span, k))
    <3> DEFINE t == SeenUpto(span, k)
    <3>1. n \in Needles /\ n \in Nodes /\ Needles # {} /\ k \in 0 .. Len(span)
      BY <1>3
    <3>2. t \in Seq(Letters) /\ Len(t) = Len(seen) + k
      BY <1>2, <3>1, SeenUptoFacts
    <3>3. Longest(path[k], t, Len(t) + 1)
      BY <1>4, <3>1, <3>2
    <3> HIDE DEF t
    <3>4. path[k] \in Nodes /\ (Ends(n, t) <=> Ends(n, path[k]))
      BY <3>1, <3>2, <3>3, LongestHasAll DEF Longest
    <3>5. Outputs[path[k]] = NeedlesAt(path[k])
      BY <3>1, <3>4, OutputsAreNeedles
    <3>6. n \in Outputs[path[k]] <=> Ends(n, path[k])
      BY <3>1, <3>5 DEF NeedlesAt
    <3> QED BY <3>4, <3>6 DEF t
  <2>2. hit <=> \E k \in 1 .. Len(span) : \E n \in Critical : n \in Outputs[path[k]]
    OBVIOUS
  <2> QED BY <2>1, <2>2
<1>7. \A n \in Critical : OccursIn(n, seen') <=>
        OccursIn(n, seen) \/ \E k \in 1 .. Len(span) : Ends(n, SeenUpto(span, k))
  BY <1>1, <1>2, <1>3, OccursLater
<1> HIDE DEF hit
<1>8. EarlyBlockExact'
  <2>1. earlyBlock <=> \E n \in Critical : OccursIn(n, seen)
    BY DEF AudioInv, EarlyBlockExact
  <2>2. earlyBlock' <=> \E n \in Critical : OccursIn(n, seen')
    BY <1>1, <1>6, <1>7, <2>1
  <2> QED BY <2>2 DEF EarlyBlockExact, OccursIn
<1>9. earlyBlock' \in BOOLEAN
  BY <1>1 DEF AudioInv
<1> QED BY <1>1, <1>2, <1>5, <1>8, <1>9 DEF AudioInv

(* So every step keeps the invariant.                                       *)
LEMMA AudioInvStep == ASSUME AudioInv, [AudioNext]_audioVars PROVE AudioInv'
<1>1. ASSUME NEW piece \in Pieces, ValidatePartial(piece) PROVE AudioInv'
  <2> DEFINE text == pendingText \o piece
  <2>1. text \in Seq(Letters)
    BY AudioAssumption, ConcatProperties DEF AudioInv
  <2>2. CASE Released(text)
    BY <2>1, <2>2, ReleasedKeepsInv
  <2>3. CASE pendingText' = text /\ UNCHANGED <<node, earlyBlock, seen>>
    BY <2>1, <2>3 DEF AudioInv, EarlyBlockExact
  <2> QED BY <1>1, <2>2, <2>3 DEF ValidatePartial
<1>2. CASE ValidateFinal
  BY <1>2 DEF ValidateFinal, AudioInv, EarlyBlockExact
<1>3. CASE FinalEnds \/ ResetSession
  BY <1>3, ClearKeepsInv DEF FinalEnds, ResetSession
<1>4. CASE UNCHANGED audioVars
  BY <1>4 DEF audioVars, AudioInv, EarlyBlockExact
<1> QED BY <1>1, <1>2, <1>3, <1>4 DEF AudioNext

(* earlyBlock is up exactly if a critical needle lies in what was released  *)
(* since the session was cleared: the automaton is at the longest node that *)
(* this text ends with, so every needle that ends there is among its        *)
(* outputs, however the partials cut it up (audio-stream.ts:584-617).       *)
THEOREM EarlyBlockIsExact == AudioSpec => []EarlyBlockExact
<1>1. AudioInit => AudioInv
  BY AudioInvInit
<1>2. AudioInv /\ [AudioNext]_audioVars => AudioInv'
  BY AudioInvStep
<1>3. AudioInv => EarlyBlockExact
  BY DEF AudioInv
<1> QED BY <1>1, <1>2, <1>3, PTL DEF AudioSpec
-----------------------------------------------------------------------------
(***************************************************************************)
(* The telemetry service.  What it has been told stands, for a buffered    *)
(* collector, in what was delivered, in its buffer, and in the deliveries  *)
(* on the stack, once; and calls that nest only work at the top of the     *)
(* stack.                                                                  *)
(***************************************************************************)
(* Two sequences, one after the other.                                      *)
LEMMA InjectiveConcat ==
  ASSUME NEW T, NEW s \in Seq(T), NEW t \in Seq(T)
  PROVE  /\ ToSet(s \o t) = ToSet(s) \cup ToSet(t)
         /\ IsInjective(s \o t) <=>
              IsInjective(s) /\ IsInjective(t) /\ ToSet(s) \cap ToSet(t) = {}
<1> DEFINE u == s \o t
           n == Len(s)
           m == Len(t)
<1>1. /\ n \in Nat /\ m \in Nat /\ DOMAIN s = 1 .. n /\ DOMAIN t = 1 .. m
      /\ DOMAIN u = 1 .. n + m
      /\ \A i \in 1 .. n + m : u[i] = IF i <= n THEN s[i] ELSE t[i - n]
  BY ConcatProperties, LenProperties
<1> HIDE DEF u, n, m
<1>2. \A i \in 1 .. n : i \in 1 .. n + m /\ u[i] = s[i]
  BY <1>1
<1>3. \A i \in 1 .. m : n + i \in 1 .. n + m /\ u[n + i] = t[i]
  <2> TAKE i \in 1 .. m
  <2>1. n + i \in 1 .. n + m /\ ~(n + i <= n) /\ (n + i) - n = i
    BY <1>1
  <2> QED BY <1>1, <2>1
<1>4. \A k \in 1 .. n + m : k \in 1 .. n \/ \E i \in 1 .. m : k = n + i
  <2> TAKE k \in 1 .. n + m
  <2>1. k \in 1 .. n \/ (k - n \in 1 .. m /\ k = n + (k - n))
    BY <1>1
  <2> QED BY <2>1
<1>5. \A x : /\ x \in ToSet(u) <=> \E k \in 1 .. n + m : u[k] = x
             /\ x \in ToSet(s) <=> \E i \in 1 .. n : s[i] = x
             /\ x \in ToSet(t) <=> \E i \in 1 .. m : t[i] = x
  BY <1>1, Zenon DEF ToSet
<1>6. ToSet(u) = ToSet(s) \cup ToSet(t)
  <2>1. \A x : x \in ToSet(u) => x \in ToSet(s) \/ x \in ToSet(t)
    BY <1>2, <1>3, <1>4, <1>5
  <2>2. \A x : x \in ToSet(s) => x \in ToSet(u)
    BY <1>2, <1>5, Zenon
  <2>3. \A x : x \in ToSet(t) => x \in ToSet(u)
    BY <1>3, <1>5, Zenon
  <2> QED BY <2>1, <2>2, <2>3, Zenon
<1>7. ASSUME IsInjective(u) PROVE IsInjective(s) /\ IsInjective(t) /\ ToSet(s) \cap ToSet(t) = {}
  <2>1. \A k, l \in 1 .. n + m : u[k] = u[l] => k = l
    BY <1>1, <1>7 DEF IsInjective
  <2>2. \A i, j \in 1 .. n : s[i] = s[j] => i = j
    BY <1>2, <2>1, Zenon
  <2>3. \A i, j \in 1 .. m : t[i] = t[j] => i = j
    <3> SUFFICES ASSUME NEW i \in 1 .. m, NEW j \in 1 .. m, t[i] = t[j] PROVE i = j
      OBVIOUS
    <3>1. n + i = n + j
      BY <1>3, <2>1
    <3> QED BY <1>1, <3>1
  <2>4. ASSUME NEW i \in 1 .. n, NEW j \in 1 .. m, s[i] = t[j] PROVE FALSE
    <3>1. i = n + j
      BY <1>2, <1>3, <2>1, <2>4
    <3> QED BY <1>1, <3>1
  <2>5. ToSet(s) \cap ToSet(t) = {}
    BY <1>5, <2>4
  <2> QED BY <1>1, <2>2, <2>3, <2>5, Zenon DEF IsInjective
<1>8. ASSUME IsInjective(s), IsInjective(t), ToSet(s) \cap ToSet(t) = {} PROVE IsInjective(u)
  <2>1. /\ \A i, j \in 1 .. n : s[i] = s[j] => i = j
        /\ \A i, j \in 1 .. m : t[i] = t[j] => i = j
    BY <1>1, <1>8, Zenon DEF IsInjective
  <2>2. \A i \in 1 .. n, j \in 1 .. m : s[i] # t[j]
    BY <1>5, <1>8, Zenon
  <2>3. ASSUME NEW k \in 1 .. n + m, NEW l \in 1 .. n + m, u[k] = u[l] PROVE k = l
    <3>1. CASE k \in 1 .. n /\ l \in 1 .. n
      BY <1>2, <2>1, <2>3, <3>1, Zenon
    <3>2. CASE k \in 1 .. n /\ l \notin 1 .. n
      <4>1. PICK j \in 1 .. m : l = n + j
        BY <1>4, <3>2
      <4> QED BY <1>2, <1>3, <2>2, <2>3, <3>2, <4>1, Zenon
    <3>3. CASE k \notin 1 .. n /\ l \in 1 .. n
      <4>1. PICK j \in 1 .. m : k = n + j
        BY <1>4, <3>3
      <4> QED BY <1>2, <1>3, <2>2, <2>3, <3>3, <4>1, Zenon
    <3>4. CASE k \notin 1 .. n /\ l \notin 1 .. n
      <4>1. PICK i \in 1 .. m, j \in 1 .. m : k = n + i /\ l = n + j
        BY <1>4, <3>4
      <4> QED BY <1>3, <2>1, <2>3, <4>1, Zenon
    <3> QED BY <3>1, <3>2, <3>3, <3>4
  <2> QED BY <1>1, <2>3, Zenon DEF IsInjective
<1> QED BY <1>6, <1>7, <1>8 DEF u

(* What is in two sequences is in the one or the other.                     *)
LEMMA ToSetConcat ==
  ASSUME NEW T, NEW s \in Seq(T), NEW t \in Seq(T)
  PROVE  ToSet(s \o t) = ToSet(s) \cup ToSet(t)
BY InjectiveConcat

(* The first of a sequence, and the rest.                                   *)
LEMMA HeadAndTail ==
  ASSUME NEW T, NEW s \in Seq(T), s # <<>>
  PROVE  /\ Head(s) \in T /\ Tail(s) \in Seq(T)
         /\ ToSet(s) = ToSet(Tail(s)) \cup {Head(s)}
         /\ IsInjective(s) => IsInjective(Tail(s)) /\ Head(s) \notin ToSet(Tail(s))
<1> DEFINE h == Head(s)
           t == Tail(s)
<1>1. /\ h \in T /\ t \in Seq(T) /\ h = s[1]
      /\ Len(s) \in Nat \ {0} /\ Len(t) = Len(s) - 1 /\ Len(t) \in Nat
      /\ DOMAIN s = 1 .. Len(s) /\ DOMAIN t = 1 .. Len(t)
      /\ \A i \in 1 .. Len(t) : t[i] = s[i + 1]
  BY HeadTailProperties, EmptySeq, LenProperties
<1> HIDE DEF h, t
<1>2. \A x : /\ x \in ToSet(s) <=> \E k \in 1 .. Len(s) : s[k] = x
             /\ x \in ToSet(t) <=> \E i \in 1 .. Len(t) : t[i] = x
  BY <1>1, Zenon DEF ToSet
<1>3. /\ \A i \in 1 .. Len(t) : i + 1 \in 1 .. Len(s) /\ i + 1 # 1
      /\ \A k \in 1 .. Len(s) : k = 1 \/ \E i \in 1 .. Len(t) : k = i + 1
      /\ 1 \in 1 .. Len(s)
  <2>1. \A k \in 1 .. Len(s) : k = 1 \/ (k - 1 \in 1 .. Len(t) /\ k = (k - 1) + 1)
    BY <1>1
  <2> QED BY <1>1, <2>1
<1>4. ToSet(s) = ToSet(t) \cup {h}
  <2>1. \A x : x \in ToSet(s) => x \in ToSet(t) \/ x = h
    <3> SUFFICES ASSUME NEW k \in 1 .. Len(s) PROVE s[k] \in ToSet(t) \/ s[k] = h
      BY <1>2, Zenon
    <3>1. CASE k = 1
      BY <1>1, <3>1, Zenon
    <3>2. CASE \E i \in 1 .. Len(t) : k = i + 1
      BY <1>1, <1>2, <3>2, Zenon
    <3> QED BY <1>3, <3>1, <3>2, Zenon
  <2>2. \A x : x \in ToSet(t) \/ x = h => x \in ToSet(s)
    BY <1>1, <1>2, <1>3, Zenon
  <2> QED BY <2>1, <2>2, Zenon
<1>5. ASSUME IsInjective(s) PROVE IsInjective(t) /\ h \notin ToSet(t)
  <2>1. \A k, l \in 1 .. Len(s) : s[k] = s[l] => k = l
    BY <1>1, <1>5, Zenon DEF IsInjective
  <2>2. ASSUME NEW i \in 1 .. Len(t), NEW j \in 1 .. Len(t), t[i] = t[j] PROVE i = j
    <3>1. s[i + 1] = s[j + 1] /\ i + 1 \in 1 .. Len(s) /\ j + 1 \in 1 .. Len(s)
      BY <1>1, <1>3, <2>2
    <3>2. i + 1 = j + 1
      BY <2>1, <3>1
    <3> QED BY <1>1, <3>2
  <2>3. ASSUME NEW i \in 1 .. Len(t), t[i] = h PROVE FALSE
    <3>1. s[i + 1] = s[1] /\ i + 1 \in 1 .. Len(s) /\ 1 \in 1 .. Len(s) /\ i + 1 # 1
      BY <1>1, <1>3, <2>3
    <3> QED BY <2>1, <3>1
  <2>4. h \notin ToSet(t)
    BY <1>2, <2>3, Zenon
  <2> QED BY <1>1, <2>2, <2>4, Zenon DEF IsInjective
<1> QED BY <1>1, <1>4, <1>5 DEF h, t

(* What has come to a collector, once: delivered, in the buffer, under way. *)
Once(g, b, p, came) ==
  /\ g \in Seq(Nat) /\ b \in Seq(Nat) /\ p \in Seq(Nat)
  /\ IsInjective(g) /\ IsInjective(b) /\ IsInjective(p)
  /\ ToSet(g) \cap ToSet(b) = {} /\ ToSet(g) \cap ToSet(p) = {} /\ ToSet(b) \cap ToSet(p) = {}
  /\ ToSet(g) \cup ToSet(b) \cup ToSet(p) = came

(* A new event goes into the buffer, ...                                    *)
LEMMA OnceBuffered ==
  ASSUME NEW g, NEW b, NEW p, NEW came, Once(g, b, p, came), NEW e \in Nat, e \notin came
  PROVE  Once(g, Append(b, e), p, came \cup {e})
<1> DEFINE a == Append(b, e)
<1>1. /\ g \in Seq(Nat) /\ b \in Seq(Nat) /\ p \in Seq(Nat)
      /\ IsInjective(g) /\ IsInjective(b) /\ IsInjective(p)
      /\ ToSet(g) \cap ToSet(b) = {} /\ ToSet(g) \cap ToSet(p) = {} /\ ToSet(b) \cap ToSet(p) = {}
      /\ ToSet(g) \cup ToSet(b) \cup ToSet(p) = came
  BY Zenon DEF Once
<1>2. a \in Seq(Nat) /\ ToSet(a) = ToSet(b) \cup {e}
  BY <1>1, AppendProperties, ToSetAppend
<1>3. IsInjective(a)
  BY <1>1, InjectiveAppend
<1> HIDE DEF a
<1>4. /\ ToSet(g) \cap ToSet(a) = {} /\ ToSet(a) \cap ToSet(p) = {}
      /\ ToSet(g) \cup ToSet(a) \cup ToSet(p) = came \cup {e}
  BY <1>1, <1>2
<1> QED BY <1>1, <1>2, <1>3, <1>4, Zenon DEF Once, a

(* ... a buffer is emptied into a delivery, ...                             *)
LEMMA OnceFlushed ==
  ASSUME NEW g, NEW b, NEW p, NEW came, Once(g, b, p, came), b # <<>>
  PROVE  Once(Append(g, Head(b)), <<>>, p \o Tail(b), came)
<1> DEFINE h == Head(b)
           t == Tail(b)
           a == Append(g, h)
           q == p \o t
<1>1. /\ g \in Seq(Nat) /\ b \in Seq(Nat) /\ p \in Seq(Nat)
      /\ IsInjective(g) /\ IsInjective(b) /\ IsInjective(p)
      /\ ToSet(g) \cap ToSet(b) = {} /\ ToSet(g) \cap ToSet(p) = {} /\ ToSet(b) \cap ToSet(p) = {}
      /\ ToSet(g) \cup ToSet(b) \cup ToSet(p) = came
  BY Zenon DEF Once
<1>2. /\ h \in Nat /\ t \in Seq(Nat) /\ ToSet(b) = ToSet(t) \cup {h}
      /\ IsInjective(t) /\ h \notin ToSet(t)
  BY <1>1, HeadAndTail
<1> HIDE DEF h, t
<1>3. /\ a \in Seq(Nat) /\ ToSet(a) = ToSet(g) \cup {h}
      /\ IsInjective(a) <=> IsInjective(g) /\ h \notin ToSet(g)
  <2>0. g \in Seq(Nat) /\ h \in Nat
    BY <1>1, <1>2
  <2>1. a \in Seq(Nat)
    BY <2>0, AppendProperties
  <2>2. ToSet(a) = ToSet(g) \cup {h}
    BY <2>0, ToSetAppend
  <2>3. IsInjective(a) <=> IsInjective(g) /\ h \notin ToSet(g)
    BY <2>0, InjectiveAppend
  <2> QED BY <2>1, <2>2, <2>3, Zenon
<1>4. /\ q \in Seq(Nat) /\ ToSet(q) = ToSet(p) \cup ToSet(t)
      /\ IsInjective(q) <=> IsInjective(p) /\ IsInjective(t) /\ ToSet(p) \cap ToSet(t) = {}
  BY <1>1, <1>2, ConcatProperties, InjectiveConcat
<1>5. <<>> \in Seq(Nat) /\ IsInjective(<<>>) /\ ToSet(<<>>) = {}
  BY EmptySeq, ToSetOfNothing DEF IsInjective
<1> HIDE DEF a, q
<1>6. IsInjective(a) /\ IsInjective(q)
  BY <1>1, <1>2, <1>3, <1>4
<1>7. /\ ToSet(a) \cap {} = {} /\ ToSet(a) \cap ToSet(q) = {} /\ {} \cap ToSet(q) = {}
      /\ ToSet(a) \cup {} \cup ToSet(q) = came
  BY <1>1, <1>2, <1>3, <1>4
<1> QED BY <1>3, <1>4, <1>5, <1>6, <1>7, Zenon DEF Once, a, q, h, t

(* ... and a delivery goes on to its next event.                            *)
LEMMA OnceDelivered ==
  ASSUME NEW g, NEW b, NEW q, NEW r, NEW came, q \in Seq(Nat), r \in Seq(Nat),
         Once(g, b, q \o r, came), r # <<>>
  PROVE  Once(Append(g, Head(r)), b, q \o Tail(r), came)
<1> DEFINE h == Head(r)
           t == Tail(r)
           a == Append(g, h)
           p == q \o r
           o == q \o t
<1>1. /\ g \in Seq(Nat) /\ b \in Seq(Nat) /\ p \in Seq(Nat)
      /\ IsInjective(g) /\ IsInjective(b) /\ IsInjective(p)
      /\ ToSet(g) \cap ToSet(b) = {} /\ ToSet(g) \cap ToSet(p) = {} /\ ToSet(b) \cap ToSet(p) = {}
      /\ ToSet(g) \cup ToSet(b) \cup ToSet(p) = came
  BY Zenon DEF Once
<1>2. /\ h \in Nat /\ t \in Seq(Nat) /\ ToSet(r) = ToSet(t) \cup {h}
      /\ IsInjective(r) => IsInjective(t) /\ h \notin ToSet(t)
  BY HeadAndTail
<1>3. /\ ToSet(p) = ToSet(q) \cup ToSet(r)
      /\ IsInjective(p) <=> IsInjective(q) /\ IsInjective(r) /\ ToSet(q) \cap ToSet(r) = {}
  BY InjectiveConcat
<1> HIDE DEF h, t, p
<1>4. /\ a \in Seq(Nat) /\ ToSet(a) = ToSet(g) \cup {h}
      /\ IsInjective(a) <=> IsInjective(g) /\ h \notin ToSet(g)
  <2>0. g \in Seq(Nat) /\ h \in Nat
    BY <1>1, <1>2
  <2>1. a \in Seq(Nat)
    BY <2>0, AppendProperties
  <2>2. ToSet(a) = ToSet(g) \cup {h}
    BY <2>0, ToSetAppend
  <2>3. IsInjective(a) <=> IsInjective(g) /\ h \notin ToSet(g)
    BY <2>0, InjectiveAppend
  <2> QED BY <2>1, <2>2, <2>3, Zenon
<1>5. /\ o \in Seq(Nat) /\ ToSet(o) = ToSet(q) \cup ToSet(t)
      /\ IsInjective(o) <=> IsInjective(q) /\ IsInjective(t) /\ ToSet(q) \cap ToSet(t) = {}
  BY <1>2, ConcatProperties, InjectiveConcat
<1> HIDE DEF a, o
<1>6. IsInjective(a) /\ IsInjective(o)
  BY <1>1, <1>2, <1>3, <1>4, <1>5
<1>7. /\ ToSet(a) \cap ToSet(b) = {} /\ ToSet(a) \cap ToSet(o) = {} /\ ToSet(b) \cap ToSet(o) = {}
      /\ ToSet(a) \cup ToSet(b) \cup ToSet(o) = came
  BY <1>1, <1>2, <1>3, <1>4, <1>5
<1> QED BY <1>1, <1>4, <1>5, <1>6, <1>7, Zenon DEF Once, a, o, h, t

(* So that all of it is in one sequence, once.                              *)
LEMMA OnceSpliced ==
  ASSUME NEW g, NEW b, NEW p, NEW came, Once(g, b, p, came)
  PROVE  IsInjective(g \o (b \o p)) /\ ToSet(g \o (b \o p)) = came
<1> DEFINE o == b \o p
<1>1. /\ g \in Seq(Nat) /\ b \in Seq(Nat) /\ p \in Seq(Nat)
      /\ IsInjective(g) /\ IsInjective(b) /\ IsInjective(p)
      /\ ToSet(g) \cap ToSet(b) = {} /\ ToSet(g) \cap ToSet(p) = {} /\ ToSet(b) \cap ToSet(p) = {}
      /\ ToSet(g) \cup ToSet(b) \cup ToSet(p) = came
  BY Zenon DEF Once
<1>2. o \in Seq(Nat) /\ IsInjective(o) /\ ToSet(o) = ToSet(b) \cup ToSet(p)
  BY <1>1, ConcatProperties, InjectiveConcat
<1> HIDE DEF o
<1>3. /\ ToSet(g \o o) = ToSet(g) \cup ToSet(o)
      /\ IsInjective(g \o o) <=> IsInjective(g) /\ IsInjective(o) /\ ToSet(g) \cap ToSet(o) = {}
  BY <1>1, <1>2, InjectiveConcat
<1> QED BY <1>1, <1>2, <1>3 DEF o
-----------------------------------------------------------------------------
(* The frames of the stack.                                                 *)
Loops == [does : {"record", "flush", "shutdown"}, event : Nat, at : Nat]
(* A delivery has its events, the one in hand first; ...                    *)
Deliveries == [does : {"deliver"}, to : ToSet(Given) \cup Later, events : Seq(Nat)]

(* ... there is one, and only one for a collector that is called directly.  *)
Frames ==
  Loops \cup {d \in Deliveries : d.events # <<>> /\ (d.to \in Later => Tail(d.events) = <<>>)}

(* What a delivery has not come to yet, ...                                 *)
Rest(fr, c) == IF fr.does = "deliver" /\ fr.to = c THEN Tail(fr.events) ELSE <<>>

(* What the deliveries to c on a stack have not come to yet, by frame, ...  *)
Rests(st, c) == [f \in DOMAIN st |-> Rest(st[f], c)]

(* ... and in one sequence.                                                 *)
Pending(st, c) == FlattenSeq(Rests(st, c))

(* ... and the events that are recorded but not at the i-th collector yet.  *)
Coming(st, i) ==
  {st[f].event : f \in {g \in DOMAIN st : st[g].does = "record" /\ st[g].at < i}}

(* The events of the loops of record.                                       *)
EventsOf(st) == {st[f].event : f \in {g \in DOMAIN st : st[g].does = "record"}}

(* No two of them have the same event.                                      *)
EachOnce(st) ==
  \A f, g \in DOMAIN st :
    st[f].does = "record" /\ st[g].does = "record" /\ st[f].event = st[g].event => f = g

(* A frame is a loop, or a delivery with a rest.                            *)
LEMMA FrameFacts ==
  ASSUME NEW fr \in Frames
  PROVE  /\ fr.does # "deliver" => fr \in Loops
         /\ fr.does = "deliver" =>
              /\ fr \in Deliveries /\ fr.events # <<>>
              /\ fr.to \in Later => Tail(fr.events) = <<>>
         /\ \A c : Rest(fr, c) \in Seq(Nat)
<1>1. \/ fr \in Loops
      \/ fr \in Deliveries /\ fr.events # <<>> /\ (fr.to \in Later => Tail(fr.events) = <<>>)
  BY DEF Frames
<1>2. <<>> \in Seq(Nat)
  BY EmptySeq
<1>3. CASE fr \in Loops
  <2>1. fr.does # "deliver"
    BY <1>3 DEF Loops
  <2> QED BY <1>2, <1>3, <2>1 DEF Rest
<1>4. CASE fr \in Deliveries /\ fr.events # <<>> /\ (fr.to \in Later => Tail(fr.events) = <<>>)
  <2>1. fr.does = "deliver" /\ fr.events \in Seq(Nat)
    BY <1>4 DEF Deliveries
  <2>2. Tail(fr.events) \in Seq(Nat)
    BY <1>4, <2>1, HeadTailProperties
  <2> QED BY <1>2, <1>4, <2>1, <2>2 DEF Rest
<1> QED BY <1>1, <1>3, <1>4

(* A frame more on the stack.                                               *)
LEMMA PendingPushed ==
  ASSUME NEW st \in Seq(Frames), NEW fr \in Frames, NEW c
  PROVE  /\ Pending(st, c) \in Seq(Nat)
         /\ Pending(Append(st, fr), c) = Pending(st, c) \o Rest(fr, c)
<1> DEFINE n == Len(st)
           a == Append(st, fr)
           r == Rests(st, c)
           ra == Rests(a, c)
           x == Rest(fr, c)
<1>1. /\ n \in Nat /\ DOMAIN st = 1 .. n /\ DOMAIN a = 1 .. n + 1
      /\ a[n + 1] = fr /\ \A f \in 1 .. n : a[f] = st[f] /\ st[f] \in Frames
  BY AppendProperties, LenProperties, ElementOfSeq
<1> HIDE DEF a, n
<1>2. x \in Seq(Nat)
  BY FrameFacts
<1>3. r \in [1 .. n -> Seq(Nat)]
  BY <1>1, FrameFacts DEF Rests
<1>4. ra = [f \in 1 .. n + 1 |-> Rest(a[f], c)]
  BY <1>1 DEF Rests
<1>5. \A f \in 1 .. n : r[f] = Rest(st[f], c)
  BY <1>1 DEF Rests
<1> HIDE DEF r, ra, x
<1>6. r \in Seq(Seq(Nat)) /\ Len(r) = n
  <2>1. r \in Seq(Seq(Nat))
    BY <1>1, <1>3, IsASeq
  <2>2. DOMAIN r = 1 .. n /\ DOMAIN r = 1 .. Len(r) /\ Len(r) \in Nat
    BY <1>3, <2>1, LenProperties
  <2> QED BY <1>1, <2>1, <2>2
<1>7. \A f \in 1 .. n + 1 : ra[f] = Append(r, x)[f]
  <2>1. /\ \A f \in 1 .. n : Append(r, x)[f] = r[f]
        /\ Append(r, x)[n + 1] = x
    BY <1>2, <1>6, AppendProperties
  <2>2. \A f \in 1 .. n + 1 : f \in 1 .. n \/ f = n + 1
    BY <1>1
  <2>3. \A f \in 1 .. n : f \in 1 .. n + 1 /\ ra[f] = r[f]
    BY <1>1, <1>4, <1>5
  <2>4. ra[n + 1] = x
    BY <1>1, <1>4 DEF x
  <2> QED BY <2>1, <2>2, <2>3, <2>4
<1>8. ra = Append(r, x)
  <2>1. \A f \in 1 .. n + 1 : ra[f] \in Seq(Nat)
    <3>1. \A f \in 1 .. n + 1 : a[f] \in Frames
      BY <1>1
    <3> QED BY <1>4, <3>1, FrameFacts
  <2>2. ra \in [1 .. n + 1 -> Seq(Nat)] /\ n + 1 \in Nat
    BY <1>1, <1>4, <2>1
  <2>3. ra \in Seq(Seq(Nat)) /\ Len(ra) = n + 1
    <3>1. ra \in Seq(Seq(Nat))
      BY <2>2, IsASeq
    <3>2. DOMAIN ra = 1 .. n + 1 /\ DOMAIN ra = 1 .. Len(ra) /\ Len(ra) \in Nat
      BY <2>2, <3>1, LenProperties
    <3> QED BY <2>2, <3>1, <3>2
  <2>4. Append(r, x) \in Seq(Seq(Nat)) /\ Len(Append(r, x)) = n + 1
    BY <1>2, <1>6, AppendProperties
  <2> QED BY <1>7, <2>3, <2>4, SeqEqual
<1>9. FlattenSeq(r) \in Seq(Nat)
  BY <1>6, FlattenType
<1>10. FlattenSeq(Append(r, x)) = FlattenSeq(r) \o x
  BY <1>2, <1>6, <1>9, FlattenAppend
<1> QED BY <1>8, <1>9, <1>10 DEF Pending, r, ra, x, a

(* Nothing is pending on an empty stack.                                    *)
LEMMA NothingPending == \A c : Pending(<<>>, c) = <<>>
<1> SUFFICES ASSUME NEW c PROVE Pending(<<>>, c) = <<>>
  OBVIOUS
<1>1. Rests(<<>>, c) = <<>>
  BY DEF Rests
<1> QED BY <1>1, Zenon DEF Pending, FlattenSeq

(* A loop of record that is put on the stack brings its event.              *)
LEMMA ComingPushed ==
  ASSUME NEW st \in Seq(Frames), NEW fr \in Frames
  PROVE  /\ \A i : Coming(Append(st, fr), i) =
               Coming(st, i) \cup IF fr.does = "record" /\ fr.at < i THEN {fr.event} ELSE {}
         /\ EventsOf(Append(st, fr)) =
              EventsOf(st) \cup IF fr.does = "record" THEN {fr.event} ELSE {}
         /\ EachOnce(Append(st, fr)) <=>
              EachOnce(st) /\ (fr.does = "record" => fr.event \notin EventsOf(st))
<1> DEFINE n == Len(st)
           a == Append(st, fr)
<1>1. /\ n \in Nat /\ DOMAIN st = 1 .. n /\ DOMAIN a = 1 .. n + 1
      /\ a[n + 1] = fr /\ \A f \in 1 .. n : a[f] = st[f]
  BY AppendProperties, LenProperties
<1> HIDE DEF a, n
<1>2. /\ \A f \in 1 .. n : f \in 1 .. n + 1 /\ f # n + 1
      /\ \A f \in 1 .. n + 1 : f \in 1 .. n \/ f = n + 1
      /\ n + 1 \in 1 .. n + 1
  BY <1>1
<1>3. ASSUME NEW i
      PROVE  Coming(a, i) =
               Coming(st, i) \cup IF fr.does = "record" /\ fr.at < i THEN {fr.event} ELSE {}
  <2>1. \A e : e \in Coming(st, i) <=>
          \E f \in 1 .. n : st[f].does = "record" /\ st[f].at < i /\ st[f].event = e
    BY <1>1, Zenon DEF Coming
  <2>2. \A e : e \in Coming(a, i) <=>
          \E f \in 1 .. n + 1 : a[f].does = "record" /\ a[f].at < i /\ a[f].event = e
    BY <1>1, Zenon DEF Coming
  <2>3. \A e : e \in Coming(a, i) <=>
          e \in Coming(st, i) \/ (fr.does = "record" /\ fr.at < i /\ e = fr.event)
    <3> SUFFICES ASSUME NEW e
                 PROVE  e \in Coming(a, i) <=>
                          e \in Coming(st, i) \/ (fr.does = "record" /\ fr.at < i /\ e = fr.event)
      OBVIOUS
    <3>1. ASSUME NEW f \in 1 .. n + 1, a[f].does = "record", a[f].at < i, a[f].event = e
          PROVE  e \in Coming(st, i) \/ (fr.does = "record" /\ fr.at < i /\ e = fr.event)
      BY <1>1, <1>2, <2>1, <3>1, SMT
    <3>2. ASSUME NEW f \in 1 .. n, st[f].does = "record", st[f].at < i, st[f].event = e
          PROVE  e \in Coming(a, i)
      BY <1>1, <1>2, <2>2, <3>2, SMT
    <3>3. ASSUME fr.does = "record", fr.at < i, e = fr.event PROVE e \in Coming(a, i)
      BY <1>1, <1>2, <2>2, <3>3, SMT
    <3> QED BY <2>1, <2>2, <3>1, <3>2, <3>3, Zenon
  <2> QED BY <2>3, Zenon
<1>4. /\ \A e : e \in EventsOf(st) <=> \E f \in 1 .. n : st[f].does = "record" /\ st[f].event = e
      /\ \A e : e \in EventsOf(a) <=>
           \E f \in 1 .. n + 1 : a[f].does = "record" /\ a[f].event = e
  BY <1>1, Zenon DEF EventsOf
<1>5. EventsOf(a) = EventsOf(st) \cup IF fr.does = "record" THEN {fr.event} ELSE {}
  <2>1. \A e : e \in EventsOf(a) <=>
          e \in EventsOf(st) \/ (fr.does = "record" /\ e = fr.event)
    <3> SUFFICES ASSUME NEW e
                 PROVE  e \in EventsOf(a) <=>
                          e \in EventsOf(st) \/ (fr.does = "record" /\ e = fr.event)
      OBVIOUS
    <3>1. ASSUME NEW f \in 1 .. n + 1, a[f].does = "record", a[f].event = e
          PROVE  e \in EventsOf(st) \/ (fr.does = "record" /\ e = fr.event)
      BY <1>1, <1>2, <1>4, <3>1, SMT
    <3>2. ASSUME NEW f \in 1 .. n, st[f].does = "record", st[f].event = e
          PROVE  e \in EventsOf(a)
      BY <1>1, <1>2, <1>4, <3>2, SMT
    <3>3. ASSUME fr.does = "record", e = fr.event PROVE e \in EventsOf(a)
      BY <1>1, <1>2, <1>4, <3>3, SMT
    <3> QED BY <1>4, <3>1, <3>2, <3>3, Zenon
  <2> QED BY <2>1, Zenon
<1>6. ASSUME EachOnce(a) PROVE EachOnce(st) /\ (fr.does = "record" => fr.event \notin EventsOf(st))
  <2>1. \A f, g \in 1 .. n + 1 :
          a[f].does = "record" /\ a[g].does = "record" /\ a[f].event = a[g].event => f = g
    BY <1>1, <1>6, Zenon DEF EachOnce
  <2>2. EachOnce(st)
    BY <1>1, <1>2, <2>1, Zenon DEF EachOnce
  <2>3. ASSUME fr.does = "record", fr.event \in EventsOf(st) PROVE FALSE
    <3>1. PICK f \in 1 .. n : st[f].does = "record" /\ st[f].event = fr.event
      BY <1>4, <2>3, Zenon
    <3>2. a[f] = st[f] /\ a[n + 1] = fr /\ f \in 1 .. n + 1 /\ n + 1 \in 1 .. n + 1 /\ f # n + 1
      BY <1>1, <1>2
    <3> QED BY <2>1, <2>3, <3>1, <3>2, Zenon
  <2> QED BY <2>2, <2>3
<1>7. ASSUME EachOnce(st), fr.does = "record" => fr.event \notin EventsOf(st) PROVE EachOnce(a)
  <2>1. \A f, g \in 1 .. n :
          st[f].does = "record" /\ st[g].does = "record" /\ st[f].event = st[g].event => f = g
    BY <1>1, <1>7, Zenon DEF EachOnce
  <2>2. \A f \in 1 .. n : fr.does = "record" /\ st[f].does = "record" => st[f].event # fr.event
    BY <1>4, <1>7, Zenon
  <2>3. \A f, g \in 1 .. n + 1 :
          a[f].does = "record" /\ a[g].does = "record" /\ a[f].event = a[g].event => f = g
    BY <1>1, <1>2, <2>1, <2>2, Zenon
  <2> QED BY <1>1, <2>3, Zenon DEF EachOnce
<1> QED BY <1>3, <1>5, <1>6, <1>7 DEF a

(* Nothing is coming on an empty stack.                                     *)
LEMMA NothingComing ==
  (\A i : Coming(<<>>, i) = {}) /\ EventsOf(<<>>) = {} /\ EachOnce(<<>>)
BY DEF Coming, EventsOf, EachOnce
-----------------------------------------------------------------------------
(* The given collectors stay in front, in their order, ...                  *)
GivenFirst == \E rest \in Seq(Later) : collectors = Given \o rest

(* The given collectors have numbers, which tell them apart.                *)
LEMMA GivenNumbers ==
  /\ Len(Given) \in Nat
  /\ \A i \in 1 .. Len(Given) : Given[i] \in ToSet(Given) /\ Given[i] \notin Later
  /\ \A i, j \in 1 .. Len(Given) : Given[i] = Given[j] => i = j
  /\ \A c \in ToSet(Given) : \E i \in 1 .. Len(Given) : c = Given[i]
<1>1. Given \in Seq(ToSet(Given)) /\ IsInjective(Given) /\ ToSet(Given) \cap Later = {}
  BY TelemetryAssumption
<1>2. Len(Given) \in Nat /\ DOMAIN Given = 1 .. Len(Given)
  BY <1>1, LenProperties
<1>3. \A c : c \in ToSet(Given) <=> \E i \in 1 .. Len(Given) : c = Given[i]
  BY <1>2, Zenon DEF ToSet
<1> QED BY <1>1, <1>2, <1>3, Zenon DEF IsInjective

(* Up to their number the array holds them, and later ones above.           *)
LEMMA GivenFacts ==
  ASSUME GivenFirst
  PROVE  /\ collectors \in Seq(ToSet(Given) \cup Later)
         /\ Len(collectors) \in Nat /\ Len(Given) <= Len(collectors)
         /\ \A k \in 1 .. Len(Given) : collectors[k] = Given[k]
         /\ \A k \in 1 .. Len(collectors) : k \notin 1 .. Len(Given) => collectors[k] \in Later
<1> DEFINE T == ToSet(Given) \cup Later
<1>1. PICK rest \in Seq(Later) : collectors = Given \o rest
  BY DEF GivenFirst
<1>2. Given \in Seq(T) /\ rest \in Seq(T)
  <2>1. ToSet(Given) \subseteq T /\ Later \subseteq T
    OBVIOUS
  <2> HIDE DEF T
  <2> QED BY <2>1, TelemetryAssumption, SeqMonotonic
<1> HIDE DEF T
<1>3. /\ collectors \in Seq(T) /\ Len(collectors) = Len(Given) + Len(rest)
      /\ \A k \in 1 .. Len(Given) + Len(rest) :
           collectors[k] = IF k <= Len(Given) THEN Given[k] ELSE rest[k - Len(Given)]
      /\ Len(Given) \in Nat /\ Len(rest) \in Nat
  BY <1>1, <1>2, ConcatProperties, LenProperties
<1>4. \A k \in 1 .. Len(rest) : rest[k] \in Later
  BY ElementOfSeq
<1>5. \A n, m \in Nat : /\ n <= n + m /\ n + m \in Nat
                        /\ \A k \in 1 .. n : k \in 1 .. n + m /\ k <= n
                        /\ \A k \in 1 .. n + m : k \notin 1 .. n => ~(k <= n) /\ k - n \in 1 .. m
  OBVIOUS
<1>6. Len(collectors) \in Nat /\ Len(Given) <= Len(collectors)
  BY <1>3, <1>5
<1>7. \A k \in 1 .. Len(Given) : collectors[k] = Given[k]
  BY <1>3, <1>5
<1>8. ASSUME NEW k \in 1 .. Len(collectors), k \notin 1 .. Len(Given) PROVE collectors[k] \in Later
  BY <1>3, <1>4, <1>5, <1>8
<1> QED BY <1>3, <1>6, <1>7, <1>8 DEF T

(* ... so that a loop has come to the i-th when it has counted to i.        *)
LEMMA OnTheWayIsComing ==
  ASSUME GivenFirst, stack \in Seq(Frames), NEW i \in 1 .. Len(Given)
  PROVE  OnTheWay(Given[i]) = Coming(stack, i)
<1>1. /\ Len(Given) \in Nat /\ \A k \in 1 .. Len(Given) : collectors[k] = Given[k]
      /\ \A k \in 1 .. Len(Given) : Given[k] = Given[i] => k = i
  BY GivenFacts, GivenNumbers
<1>2. ASSUME NEW n \in Nat
      PROVE  (\A k \in 1 .. n : collectors[k] # Given[i]) <=> n < i
  <2>1. CASE n < i
    <3>1. \A k \in 1 .. n : k \in 1 .. Len(Given) /\ k # i
      BY <1>1, <2>1
    <3>2. \A k \in 1 .. n : collectors[k] # Given[i]
      BY <1>1, <3>1, Zenon
    <3> QED BY <2>1, <3>2
  <2>2. CASE ~(n < i)
    <3>1. i \in 1 .. n
      BY <1>1, <2>2
    <3>2. collectors[i] = Given[i]
      BY <1>1
    <3> QED BY <2>2, <3>1, <3>2
  <2> QED BY <2>1, <2>2
<1>3. \A f \in DOMAIN stack : stack[f].does = "record" => stack[f].at \in Nat
  <2> SUFFICES ASSUME NEW f \in DOMAIN stack, stack[f].does = "record" PROVE stack[f].at \in Nat
    OBVIOUS
  <2>1. stack[f] \in Frames
    BY LenProperties, ElementOfSeq
  <2>2. stack[f] \in Loops
    BY <2>1, FrameFacts
  <2> QED BY <2>2 DEF Loops
<1>4. {g \in DOMAIN stack :
         stack[g].does = "record" /\ \A k \in 1 .. stack[g].at : collectors[k] # Given[i]}
      = {g \in DOMAIN stack : stack[g].does = "record" /\ stack[g].at < i}
  BY <1>2, <1>3, Zenon
<1> QED BY <1>4, Zenon DEF OnTheWay, Coming
-----------------------------------------------------------------------------
(* The types of the state.                                                  *)
TeleTypes ==
  /\ GivenFirst
  /\ stack \in Seq(Frames) /\ recorded \in Nat
  /\ buffered \in [ToSet(Given) -> Seq(Nat)]
  /\ got \in [ToSet(Given) -> Seq(Nat)]
  /\ owed \in [ToSet(Given) -> SUBSET Nat]

(* Each event is in one loop of record at most.                             *)
Booked(st, r) == EachOnce(st) /\ EventsOf(st) \subseteq 1 .. r

(* What has come to the i-th collector, and what it is owed.                *)
Tells(i, g, b, o, st, r) ==
  /\ Once(g, b, Pending(st, Given[i]), (1 .. r) \ Coming(st, i))
  /\ o \subseteq ToSet(g) \cup ToSet(Pending(st, Given[i]))

(* The invariant of the telemetry.                                          *)
TeleInv ==
  /\ TeleTypes
  /\ Booked(stack, recorded)
  /\ \A i \in 1 .. Len(Given) :
       Tells(i, got[Given[i]], buffered[Given[i]], owed[Given[i]], stack, recorded)

(* It does not matter how a stack holds what is pending and coming.         *)
LEMMA TellsAlike ==
  ASSUME NEW i, NEW g, NEW b, NEW o, NEW st, NEW r, Tells(i, g, b, o, st, r), NEW s, NEW q,
         Pending(s, Given[i]) = Pending(st, Given[i]),
         (1 .. q) \ Coming(s, i) = (1 .. r) \ Coming(st, i)
  PROVE  Tells(i, g, b, o, s, q)
BY Zenon DEF Tells

(* What is coming is the event of a loop.                                   *)
LEMMA ComingIsBooked ==
  ASSUME NEW st, NEW i PROVE Coming(st, i) \subseteq EventsOf(st)
BY DEF Coming, EventsOf

(* It holds in the beginning.                                               *)
LEMMA TeleInvInit == ASSUME TelemetryInit PROVE TeleInv
<1>1. /\ collectors = Given /\ stack = <<>> /\ recorded = 0
      /\ buffered = [c \in ToSet(Given) |-> <<>>]
      /\ got = [c \in ToSet(Given) |-> <<>>]
      /\ owed = [c \in ToSet(Given) |-> {}]
  BY Zenon DEF TelemetryInit
<1>2. GivenFirst
  <2>1. <<>> \in Seq(Later) /\ Given \o <<>> = Given
    BY TelemetryAssumption, EmptySeq, ConcatEmptySeq
  <2> QED BY <1>1, <2>1, Zenon DEF GivenFirst
<1>3. <<>> \in Seq(Frames) /\ <<>> \in Seq(Nat) /\ IsInjective(<<>>) /\ ToSet(<<>>) = {}
  BY EmptySeq, ToSetOfNothing DEF IsInjective
<1>4. TeleTypes
  BY <1>1, <1>2, <1>3 DEF TeleTypes
<1>5. Booked(stack, recorded)
  BY <1>1, NothingComing DEF Booked
<1>6. ASSUME NEW i \in 1 .. Len(Given)
      PROVE  Tells(i, got[Given[i]], buffered[Given[i]], owed[Given[i]], stack, recorded)
  <2>1. Given[i] \in ToSet(Given)
    BY GivenNumbers
  <2>2. got[Given[i]] = <<>> /\ buffered[Given[i]] = <<>> /\ owed[Given[i]] = {}
    BY <1>1, <2>1, Zenon
  <2>3. Pending(stack, Given[i]) = <<>> /\ (1 .. recorded) \ Coming(stack, i) = {}
    BY <1>1, NothingPending, NothingComing
  <2>4. Once(<<>>, <<>>, <<>>, {})
    BY <1>3, Zenon DEF Once
  <2> QED BY <2>2, <2>3, <2>4, Zenon DEF Tells
<1> QED BY <1>4, <1>5, <1>6 DEF TeleInv

(* A loop is put on the stack.                                              *)
LEMMA LoopStarts ==
  ASSUME TeleInv, NEW does \in {"flush", "shutdown"}, stack' = Starts(Loop(does, 0)),
         UNCHANGED <<collectors, buffered, recorded, got, owed>>
  PROVE  TeleInv'
<1> DEFINE fr == Loop(does, 0)
<1>1. stack' = Append(stack, fr) /\ fr.does # "record" /\ fr.does # "deliver" /\ fr \in Frames
  BY DEF Starts, Loop, Frames, Loops
<1> HIDE DEF fr
<1>2. TeleTypes /\ Booked(stack, recorded)
  BY DEF TeleInv
<1>3. stack \in Seq(Frames)
  BY <1>2 DEF TeleTypes
<1>4. stack' \in Seq(Frames)
  BY <1>1, <1>3, AppendProperties
<1>5. TeleTypes'
  BY <1>2, <1>4 DEF TeleTypes, GivenFirst
<1>6. /\ \A i : Coming(stack', i) = Coming(stack, i)
      /\ EventsOf(stack') = EventsOf(stack) /\ (EachOnce(stack') <=> EachOnce(stack))
  <2>1. /\ \A i : Coming(Append(stack, fr), i) = Coming(stack, i)
                 \cup IF fr.does = "record" /\ fr.at < i THEN {fr.event} ELSE {}
        /\ EventsOf(Append(stack, fr)) =
             EventsOf(stack) \cup IF fr.does = "record" THEN {fr.event} ELSE {}
        /\ EachOnce(Append(stack, fr)) <=>
             EachOnce(stack) /\ (fr.does = "record" => fr.event \notin EventsOf(stack))
    BY <1>1, <1>3, ComingPushed
  <2> QED BY <1>1, <2>1
<1>7. Booked(stack', recorded')
  BY <1>2, <1>6 DEF Booked
<1>8. \A c : Pending(stack', c) = Pending(stack, c)
  <2> TAKE c
  <2>1. Rest(fr, c) = <<>>
    BY <1>1 DEF Rest
  <2>2. Pending(stack', c) = Pending(stack, c) \o <<>> /\ Pending(stack, c) \in Seq(Nat)
    BY <1>1, <1>3, <2>1, PendingPushed
  <2> QED BY <2>2, ConcatEmptySeq
<1>9. ASSUME NEW i \in 1 .. Len(Given)
      PROVE  Tells(i, got[Given[i]], buffered[Given[i]], owed[Given[i]], stack', recorded)
  <2>1. Tells(i, got[Given[i]], buffered[Given[i]], owed[Given[i]], stack, recorded)
    BY DEF TeleInv
  <2> QED BY <1>6, <1>8, <2>1, TellsAlike
<1> QED BY <1>5, <1>7, <1>9 DEF TeleInv

(* An event is recorded: it has come to no collector yet.                   *)
LEMMA RecordStep == ASSUME TeleInv, Record PROVE TeleInv'
<1> DEFINE e == recorded + 1
           fr == Loop("record", e)
<1>0. TeleTypes /\ Booked(stack, recorded)
  BY DEF TeleInv
<1>1. stack \in Seq(Frames) /\ recorded \in Nat /\ e \in Nat
  BY <1>0 DEF TeleTypes
<1>2. /\ stack' = Append(stack, fr) /\ recorded' = e
      /\ UNCHANGED <<collectors, buffered, got, owed>>
      /\ fr.does = "record" /\ fr.at = 0 /\ fr.event = e /\ fr \in Frames
  BY <1>1 DEF Record, Starts, Loop, Frames, Loops
<1> HIDE DEF fr
<1>3. stack' \in Seq(Frames)
  BY <1>1, <1>2, AppendProperties
<1>4. TeleTypes'
  BY <1>0, <1>1, <1>2, <1>3 DEF TeleTypes, GivenFirst
<1>5. /\ \A i \in 1 .. Len(Given) : Coming(stack', i) = Coming(stack, i) \cup {e}
      /\ EventsOf(stack') = EventsOf(stack) \cup {e}
      /\ EachOnce(stack') <=> EachOnce(stack) /\ e \notin EventsOf(stack)
  <2>1. \A i \in 1 .. Len(Given) : 0 < i
    OBVIOUS
  <2> HIDE DEF e
  <2> QED BY <1>1, <1>2, <2>1, ComingPushed
<1>6. e \notin 1 .. recorded /\ 1 .. e = (1 .. recorded) \cup {e}
  BY <1>1
<1> HIDE DEF e
<1>7. Booked(stack', recorded')
  BY <1>0, <1>2, <1>5, <1>6 DEF Booked
<1>8. \A c : Pending(stack', c) = Pending(stack, c)
  <2> TAKE c
  <2>1. Rest(fr, c) = <<>>
    BY <1>2 DEF Rest
  <2>2. Pending(stack', c) = Pending(stack, c) \o <<>> /\ Pending(stack, c) \in Seq(Nat)
    BY <1>1, <1>2, <2>1, PendingPushed
  <2> QED BY <2>2, ConcatEmptySeq
<1>9. ASSUME NEW i \in 1 .. Len(Given)
      PROVE  Tells(i, got[Given[i]], buffered[Given[i]], owed[Given[i]], stack', recorded')
  <2>1. Tells(i, got[Given[i]], buffered[Given[i]], owed[Given[i]], stack, recorded)
    BY DEF TeleInv
  <2>2. (1 .. recorded') \ Coming(stack', i) = (1 .. recorded) \ Coming(stack, i)
    BY <1>2, <1>5, <1>6
  <2> QED BY <1>8, <2>1, <2>2, TellsAlike
<1>10. \A i \in 1 .. Len(Given) :
         Tells(i, got'[Given[i]], buffered'[Given[i]], owed'[Given[i]], stack', recorded')
  BY <1>2, <1>9, Zenon
<1> QED BY <1>4, <1>7, <1>10 DEF TeleInv

(* The stack with its top apart.                                            *)
LEMMA TopApart ==
  ASSUME stack \in Seq(Frames), stack # <<>>
  PROVE  /\ Front(stack) \in Seq(Frames) /\ Last(stack) \in Frames
         /\ stack = Append(Front(stack), Last(stack)) /\ Last(stack) = stack[Len(stack)]
BY FrontFacts

(* Replacing the top of a sequence is putting another on the rest.          *)
LEMMA TopReplaced ==
  ASSUME NEW T, NEW s \in Seq(T), s # <<>>, NEW y \in T
  PROVE  [s EXCEPT ![Len(s)] = y] = Append(Front(s), y)
<1> DEFINE n == Len(s)
           u == Front(s)
           a == Append(u, y)
           b == [s EXCEPT ![n] = y]
<1>1. /\ n \in Nat \ {0} /\ u \in Seq(T) /\ Len(u) = n - 1 /\ s = Append(u, Last(s))
      /\ Last(s) \in T
  BY FrontFacts
<1> HIDE DEF u
<1>2. \A i \in 1 .. n - 1 : s[i] = u[i]
  BY <1>1, AppendProperties
<1>3. /\ a \in Seq(T) /\ Len(a) = (n - 1) + 1
      /\ \A i \in 1 .. n - 1 : a[i] = u[i] /\ a[(n - 1) + 1] = y
      /\ a[(n - 1) + 1] = y
  BY <1>1, AppendProperties
<1>4. (n - 1) + 1 = n /\ n \in 1 .. n /\ \A i \in 1 .. n : i \in 1 .. n - 1 \/ i = n
  BY <1>1
<1>5. b \in Seq(T) /\ Len(b) = n /\ \A i \in 1 .. n : b[i] = IF i = n THEN y ELSE s[i]
  <2>1. b \in Seq(T)
    BY <1>4, ExceptSeq
  <2>2. DOMAIN b = 1 .. n /\ DOMAIN b = 1 .. Len(b) /\ Len(b) \in Nat /\ DOMAIN s = 1 .. n
    BY <2>1, LenProperties
  <2>3. Len(b) = n
    <3> HIDE DEF b
    <3> QED BY <1>1, <2>2
  <2> QED BY <2>1, <2>2, <2>3
<1> HIDE DEF a, b, n
<1>6. \A i \in 1 .. n : a[i] = b[i]
  BY <1>2, <1>3, <1>4, <1>5
<1>7. a = b
  BY <1>3, <1>4, <1>5, <1>6, SeqEqual
<1> QED BY <1>7 DEF a, b, u, n

(* The loop on top goes on: one event has come to one collector.            *)
LEMMA LoopGoesOn ==
  ASSUME TeleTypes, Booked(stack, recorded), ~Outside
  PROVE  LET x == Last(stack) IN
         /\ x \in Loops
         /\ Further \in Seq(Frames) /\ Booked(Further, recorded)
         /\ \A c : Pending(Further, c) = Pending(stack, c)
         /\ \A i : i \in 1 .. Len(Given) /\ (x.does # "record" \/ i # x.at + 1) =>
              Coming(Further, i) = Coming(stack, i)
         /\ x.does = "record" => x.event \in 1 .. recorded
         /\ \A i : i = x.at + 1 /\ x.does = "record" =>
              /\ Coming(stack, i) = Coming(Further, i) \cup {x.event}
              /\ x.event \notin Coming(Further, i)
<1> DEFINE x == Last(stack)
           u == Front(stack)
           y == [x EXCEPT !.at = @ + 1]
<1>1. stack \in Seq(Frames) /\ stack # <<>> /\ x.does # "deliver"
  BY DEF TeleTypes, Outside
<1>2. u \in Seq(Frames) /\ x \in Frames /\ stack = Append(u, x) /\ x = stack[Len(stack)]
  BY <1>1, TopApart
<1>3. x \in Loops
  BY <1>1, <1>2, FrameFacts
<1>4. Further = [stack EXCEPT ![Len(stack)] = y]
  BY <1>2, Zenon DEF Further
<1> HIDE DEF x, u
<1>5. /\ y \in Loops /\ y.does = x.does /\ y.event = x.event /\ y.at = x.at + 1
      /\ x.at \in Nat /\ x.event \in Nat
  BY <1>3 DEF Loops
<1> HIDE DEF y
<1>6. y \in Frames
  BY <1>5 DEF Frames
<1>7. Further = Append(u, y)
  BY <1>1, <1>4, <1>6, TopReplaced DEF u
<1>8. Further \in Seq(Frames)
  BY <1>2, <1>6, <1>7, AppendProperties
<1>9. /\ \A i : Coming(stack, i) =
            Coming(u, i) \cup IF x.does = "record" /\ x.at < i THEN {x.event} ELSE {}
      /\ EventsOf(stack) = EventsOf(u) \cup IF x.does = "record" THEN {x.event} ELSE {}
      /\ EachOnce(stack) <=> EachOnce(u) /\ (x.does = "record" => x.event \notin EventsOf(u))
  BY <1>2, ComingPushed
<1>10. /\ \A i : Coming(Further, i) =
             Coming(u, i) \cup IF y.does = "record" /\ y.at < i THEN {y.event} ELSE {}
       /\ EventsOf(Further) = EventsOf(u) \cup IF y.does = "record" THEN {y.event} ELSE {}
       /\ EachOnce(Further) <=> EachOnce(u) /\ (y.does = "record" => y.event \notin EventsOf(u))
  BY <1>2, <1>6, <1>7, ComingPushed
<1>11. Booked(Further, recorded)
  BY <1>5, <1>9, <1>10 DEF Booked
<1>12. ASSUME NEW c PROVE Pending(Further, c) = Pending(stack, c)
  <2>1. Rest(x, c) = <<>> /\ Rest(y, c) = <<>>
    BY <1>3, <1>5 DEF Rest, Loops
  <2>2. /\ Pending(Append(u, x), c) = Pending(u, c) \o Rest(x, c)
        /\ Pending(Append(u, y), c) = Pending(u, c) \o Rest(y, c)
    BY <1>2, <1>6, PendingPushed
  <2> QED BY <1>2, <1>7, <2>1, <2>2, Zenon
<1>13. ASSUME NEW i, i \in 1 .. Len(Given), x.does # "record" \/ i # x.at + 1
       PROVE  Coming(Further, i) = Coming(stack, i)
  <2>1. x.does = "record" => (x.at < i <=> y.at < i)
    BY <1>5, <1>13
  <2> QED BY <1>5, <1>9, <1>10, <2>1, Zenon
<1>14. x.does = "record" => x.event \in 1 .. recorded
  BY <1>9 DEF Booked
<1>15. ASSUME NEW i, i = x.at + 1, x.does = "record"
       PROVE  /\ Coming(stack, i) = Coming(Further, i) \cup {x.event}
              /\ x.event \notin Coming(Further, i)
  <2>1. x.at < i /\ ~(y.at < i)
    BY <1>5, <1>15
  <2>2. Coming(stack, i) = Coming(u, i) \cup {x.event} /\ Coming(Further, i) = Coming(u, i)
    BY <1>5, <1>9, <1>10, <1>15, <2>1
  <2>3. x.event \notin EventsOf(u)
    BY <1>9, <1>15 DEF Booked
  <2> QED BY <2>2, <2>3, ComingIsBooked
<1> QED BY <1>3, <1>8, <1>11, <1>12, <1>13, <1>14, <1>15 DEF x

(* What a buffer holds is taken out and delivered, under some stack.        *)
LEMMA FlushesStep ==
  ASSUME TeleTypes, NEW j \in 1 .. Len(Given), NEW events \in Seq(Nat), NEW under \in Seq(Frames),
         Booked(under, recorded),
         \A i \in 1 .. Len(Given) :
           Tells(i, got[Given[i]], IF i = j THEN events ELSE buffered[Given[i]],
                 owed[Given[i]], under, recorded),
         Flushes(Given[j], events, under)
  PROVE  /\ stack' \in Seq(Frames) /\ Booked(stack', recorded)
         /\ buffered' \in [ToSet(Given) -> Seq(Nat)] /\ got' \in [ToSet(Given) -> Seq(Nat)]
         /\ \A i \in 1 .. Len(Given) :
              Tells(i, got'[Given[i]], buffered'[Given[i]], owed[Given[i]], stack', recorded)
         /\ ToSet(got'[Given[j]]) \cup ToSet(Pending(stack', Given[j]))
              = (1 .. recorded) \ Coming(under, j)
<1> DEFINE c == Given[j]
<1>1. /\ c \in ToSet(Given) /\ c \notin Later
      /\ \A i \in 1 .. Len(Given) : Given[i] \in ToSet(Given) /\ (i # j => Given[i] # c)
  BY GivenNumbers
<1> HIDE DEF c
<1>2. /\ buffered \in [ToSet(Given) -> Seq(Nat)] /\ got \in [ToSet(Given) -> Seq(Nat)]
      /\ recorded \in Nat
  BY DEF TeleTypes
<1>3. <<>> \in Seq(Nat) /\ ToSet(<<>>) = {}
  BY EmptySeq, ToSetOfNothing
<1>4. buffered' = [buffered EXCEPT ![c] = <<>>]
  BY DEF Flushes, Left, c
<1>5. buffered' \in [ToSet(Given) -> Seq(Nat)] /\ buffered'[c] = <<>>
      /\ \A i \in 1 .. Len(Given) : i # j => buffered'[Given[i]] = buffered[Given[i]]
  BY <1>1, <1>2, <1>3, <1>4
<1>6. /\ Once(got[c], events, Pending(under, c), (1 .. recorded) \ Coming(under, j))
      /\ owed[c] \subseteq ToSet(got[c]) \cup ToSet(Pending(under, c))
  BY Zenon DEF Tells, c
<1>7. CASE events = <<>>
  <2>1. stack' = under /\ got' = got
    BY <1>7 DEF Flushes
  <2>2. ASSUME NEW i \in 1 .. Len(Given)
        PROVE  Tells(i, got'[Given[i]], buffered'[Given[i]], owed[Given[i]], stack', recorded)
    <3>1. (IF i = j THEN events ELSE buffered[Given[i]]) = buffered'[Given[i]]
      BY <1>5, <1>7 DEF c
    <3> QED BY <2>1, <3>1, Zenon
  <2>3. ToSet(got'[c]) \cup ToSet(Pending(stack', c)) = (1 .. recorded) \ Coming(under, j)
    BY <1>3, <1>6, <1>7, <2>1 DEF Once
  <2> QED BY <1>2, <1>5, <2>1, <2>2, <2>3 DEF c
<1>8. CASE events # <<>>
  <2> DEFINE fr == Delivery(c, events)
             g == Append(got[c], Head(events))
  <2>1. stack' = Append(under, fr) /\ got' = [got EXCEPT ![c] = g]
    BY <1>8 DEF Flushes, c
  <2>2. /\ fr \in Frames /\ fr.does = "deliver" /\ fr.does # "record"
        /\ fr.to = c /\ fr.events = events
    BY <1>1, <1>8 DEF Delivery, Frames, Deliveries
  <2> HIDE DEF fr
  <2>3. Head(events) \in Nat /\ Tail(events) \in Seq(Nat)
    BY <1>8, HeadTailProperties
  <2>4. g \in Seq(Nat)
    BY <1>1, <1>2, <2>3, AppendProperties
  <2>5. Once(g, <<>>, Pending(under, c) \o Tail(events), (1 .. recorded) \ Coming(under, j))
    BY <1>6, <1>8, OnceFlushed
  <2>6. ToSet(g) = ToSet(got[c]) \cup {Head(events)}
    BY <1>1, <1>2, <2>3, ToSetAppend
  <2> HIDE DEF g
  <2>7. stack' \in Seq(Frames)
    BY <2>1, <2>2, AppendProperties
  <2>8. /\ \A i : Coming(stack', i) = Coming(under, i)
        /\ Booked(stack', recorded)
    <3>1. /\ \A i : Coming(Append(under, fr), i) = Coming(under, i)
                   \cup IF fr.does = "record" /\ fr.at < i THEN {fr.event} ELSE {}
          /\ EventsOf(Append(under, fr)) =
               EventsOf(under) \cup IF fr.does = "record" THEN {fr.event} ELSE {}
          /\ EachOnce(Append(under, fr)) <=>
               EachOnce(under) /\ (fr.does = "record" => fr.event \notin EventsOf(under))
      BY <2>2, ComingPushed
    <3> QED BY <2>1, <2>2, <3>1 DEF Booked
  <2>9. Pending(stack', c) = Pending(under, c) \o Tail(events) /\ Pending(under, c) \in Seq(Nat)
    <3>1. Rest(fr, c) = Tail(events)
      BY <2>2 DEF Rest
    <3> QED BY <2>1, <2>2, <3>1, PendingPushed
  <2>10. ASSUME NEW d, d # c PROVE Pending(stack', d) = Pending(under, d)
    <3>1. Rest(fr, d) = <<>>
      BY <2>2, <2>10 DEF Rest
    <3>2. Pending(stack', d) = Pending(under, d) \o <<>> /\ Pending(under, d) \in Seq(Nat)
      BY <2>1, <2>2, <3>1, PendingPushed
    <3> QED BY <3>2, ConcatEmptySeq
  <2>11. /\ got' \in [ToSet(Given) -> Seq(Nat)] /\ got'[c] = g
         /\ \A i \in 1 .. Len(Given) : i # j => got'[Given[i]] = got[Given[i]]
    BY <1>1, <1>2, <2>1, <2>4
  <2>12. Tells(j, got'[c], buffered'[c], owed[c], stack', recorded)
    <3>1. Once(got'[c], buffered'[c], Pending(stack', c), (1 .. recorded) \ Coming(stack', j))
      BY <1>5, <2>5, <2>8, <2>9, <2>11, Zenon
    <3>2. ToSet(Pending(stack', c)) = ToSet(Pending(under, c)) \cup ToSet(Tail(events))
      <4> DEFINE p == Pending(under, c)
                 t == Tail(events)
      <4>1. p \in Seq(Nat) /\ t \in Seq(Nat)
        BY <2>3, <2>9
      <4> HIDE DEF p, t
      <4>2. ToSet(p \o t) = ToSet(p) \cup ToSet(t)
        BY <4>1, ToSetConcat
      <4> QED BY <2>9, <4>2, Zenon DEF p, t
    <3>3. owed[c] \subseteq ToSet(got'[c]) \cup ToSet(Pending(stack', c))
      BY <1>6, <2>6, <2>11, <3>2
    <3> QED BY <3>1, <3>3, Zenon DEF Tells, c
  <2>13. ASSUME NEW i \in 1 .. Len(Given), i # j
         PROVE  Tells(i, got'[Given[i]], buffered'[Given[i]], owed[Given[i]], stack', recorded)
    <3>1. Tells(i, got[Given[i]], buffered[Given[i]], owed[Given[i]], under, recorded)
      BY <2>13, Zenon
    <3>2. Pending(stack', Given[i]) = Pending(under, Given[i])
      BY <1>1, <2>10, <2>13
    <3>3. got'[Given[i]] = got[Given[i]] /\ buffered'[Given[i]] = buffered[Given[i]]
      BY <1>5, <2>11, <2>13
    <3>4. Tells(i, got[Given[i]], buffered[Given[i]], owed[Given[i]], stack', recorded)
      BY <2>8, <3>1, <3>2, TellsAlike
    <3> QED BY <3>3, <3>4, Zenon
  <2>14. \A i \in 1 .. Len(Given) :
           Tells(i, got'[Given[i]], buffered'[Given[i]], owed[Given[i]], stack', recorded)
    BY <2>12, <2>13, Zenon DEF c
  <2>15. ToSet(got'[c]) \cup ToSet(Pending(stack', c)) = (1 .. recorded) \ Coming(under, j)
    BY <1>3, <2>5, <2>9, <2>11 DEF Once
  <2> QED BY <1>5, <2>7, <2>8, <2>11, <2>14, <2>15 DEF c
<1> QED BY <1>7, <1>8

(* The next collector of a loop: with the five ways it can go.              *)
LEMMA LoopEnds ==
  ASSUME TeleInv, ~Outside, Last(stack).at >= Len(collectors), stack' = Front(stack),
         UNCHANGED <<collectors, buffered, recorded, got, owed>>
  PROVE  TeleInv'
<1> DEFINE x == Last(stack)
           u == Front(stack)
<1>0. TeleTypes /\ Booked(stack, recorded)
  BY DEF TeleInv
<1>1. stack \in Seq(Frames) /\ stack # <<>> /\ x.does # "deliver"
  BY <1>0 DEF TeleTypes, Outside
<1>2. u \in Seq(Frames) /\ x \in Frames /\ stack = Append(u, x)
  BY <1>1, TopApart
<1>3. x \in Loops /\ x.at \in Nat
  BY <1>1, <1>2, FrameFacts DEF Loops
<1>4. x.at >= Len(collectors) /\ stack' = u
  OBVIOUS
<1> HIDE DEF x, u
<1>5. \A i \in 1 .. Len(Given) : ~(x.at < i)
  BY <1>0, <1>3, <1>4, GivenFacts, GivenNumbers DEF TeleTypes
<1>6. /\ \A i : Coming(stack, i) =
            Coming(u, i) \cup IF x.does = "record" /\ x.at < i THEN {x.event} ELSE {}
      /\ EventsOf(stack) = EventsOf(u) \cup IF x.does = "record" THEN {x.event} ELSE {}
      /\ EachOnce(stack) => EachOnce(u)
  BY <1>2, ComingPushed
<1>7. \A i \in 1 .. Len(Given) : Coming(u, i) = Coming(stack, i)
  BY <1>5, <1>6
<1>8. Booked(u, recorded)
  BY <1>0, <1>6 DEF Booked
<1>9. \A c : Pending(u, c) = Pending(stack, c)
  <2> TAKE c
  <2>1. Rest(x, c) = <<>>
    BY <1>3 DEF Rest, Loops
  <2>2. Pending(stack, c) = Pending(u, c) \o <<>> /\ Pending(u, c) \in Seq(Nat)
    BY <1>2, <2>1, PendingPushed
  <2> QED BY <2>2, ConcatEmptySeq
<1>10. TeleTypes'
  BY <1>0, <1>2, <1>4 DEF TeleTypes, GivenFirst
<1>11. ASSUME NEW i \in 1 .. Len(Given)
       PROVE  Tells(i, got[Given[i]], buffered[Given[i]], owed[Given[i]], u, recorded)
  <2>1. Tells(i, got[Given[i]], buffered[Given[i]], owed[Given[i]], stack, recorded)
    BY DEF TeleInv
  <2> QED BY <1>7, <1>9, <2>1, TellsAlike
<1> QED BY <1>4, <1>8, <1>10, <1>11 DEF TeleInv

(* The collectors that are not given do not matter to those that are.       *)
LEMMA LaterStep ==
  ASSUME TeleInv, ~Outside, Last(stack).at < Len(collectors),
         collectors[Last(stack).at + 1] \in Later,
         stack' = IF Last(stack).does = "record"
                  THEN Append(Further, Delivery(collectors[Last(stack).at + 1],
                                                <<Last(stack).event>>))
                  ELSE Further,
         UNCHANGED <<collectors, buffered, recorded, got, owed>>
  PROVE  TeleInv'
<1> DEFINE x == Last(stack)
           d == collectors[x.at + 1]
           fr == Delivery(d, <<x.event>>)
<1>0. TeleTypes /\ Booked(stack, recorded)
  BY DEF TeleInv
<1>1. /\ x \in Loops
      /\ Further \in Seq(Frames) /\ Booked(Further, recorded)
      /\ \A c : Pending(Further, c) = Pending(stack, c)
      /\ \A i : i \in 1 .. Len(Given) /\ (x.does # "record" \/ i # x.at + 1) =>
           Coming(Further, i) = Coming(stack, i)
  BY <1>0, LoopGoesOn, Zenon
<1>2. /\ d \in Later /\ x.at < Len(collectors)
      /\ stack' = IF x.does = "record" THEN Append(Further, fr) ELSE Further
  OBVIOUS
<1> HIDE DEF x
<1>3. x.at \in Nat /\ x.event \in Nat
  BY <1>1 DEF Loops
<1>4. \A i \in 1 .. Len(Given) : i # x.at + 1 /\ Given[i] # d
  <2>1. /\ Len(Given) \in Nat /\ \A k \in 1 .. Len(Given) : collectors[k] = Given[k]
        /\ \A i \in 1 .. Len(Given) : Given[i] \notin Later
    BY <1>0, GivenFacts, GivenNumbers DEF TeleTypes
  <2> QED BY <1>2, <2>1
<1>5. fr \in Frames /\ fr.does = "deliver" /\ fr.does # "record" /\ fr.to = d
  <2>1. <<x.event>> \in Seq(Nat) /\ <<x.event>> # <<>> /\ Tail(<<x.event>>) = <<>>
    BY <1>3
  <2> QED BY <1>2, <2>1 DEF Delivery, Frames, Deliveries
<1> HIDE DEF fr, d
<1>6. /\ stack' \in Seq(Frames) /\ Booked(stack', recorded)
      /\ \A i : Coming(stack', i) = Coming(Further, i)
      /\ \A i \in 1 .. Len(Given) : Pending(stack', Given[i]) = Pending(Further, Given[i])
  <2>1. CASE stack' = Append(Further, fr)
    <3>1. stack' \in Seq(Frames)
      BY <1>1, <1>5, <2>1, AppendProperties
    <3>2. (\A i : Coming(stack', i) = Coming(Further, i)) /\ Booked(stack', recorded)
      <4>1. /\ \A i : Coming(Append(Further, fr), i) = Coming(Further, i)
                     \cup IF fr.does = "record" /\ fr.at < i THEN {fr.event} ELSE {}
            /\ EventsOf(Append(Further, fr)) =
                 EventsOf(Further) \cup IF fr.does = "record" THEN {fr.event} ELSE {}
            /\ EachOnce(Append(Further, fr)) <=>
                 EachOnce(Further) /\ (fr.does = "record" => fr.event \notin EventsOf(Further))
        BY <1>1, <1>5, ComingPushed
      <4> QED BY <1>1, <1>5, <2>1, <4>1 DEF Booked
    <3>3. ASSUME NEW i \in 1 .. Len(Given)
          PROVE  Pending(stack', Given[i]) = Pending(Further, Given[i])
      <4>1. Rest(fr, Given[i]) = <<>>
        BY <1>4, <1>5 DEF Rest
      <4>2. /\ Pending(stack', Given[i]) = Pending(Further, Given[i]) \o <<>>
            /\ Pending(Further, Given[i]) \in Seq(Nat)
        BY <1>1, <1>5, <2>1, <4>1, PendingPushed
      <4> QED BY <4>2, ConcatEmptySeq
    <3> QED BY <3>1, <3>2, <3>3
  <2>2. CASE stack' = Further
    BY <1>1, <2>2
  <2> QED BY <1>2, <2>1, <2>2
<1>7. TeleTypes'
  BY <1>0, <1>6 DEF TeleTypes, GivenFirst
<1>8. ASSUME NEW i \in 1 .. Len(Given)
      PROVE  Tells(i, got[Given[i]], buffered[Given[i]], owed[Given[i]], stack', recorded)
  <2>1. Tells(i, got[Given[i]], buffered[Given[i]], owed[Given[i]], stack, recorded)
    BY DEF TeleInv
  <2>2. Coming(stack', i) = Coming(stack, i) /\ Pending(stack', Given[i]) = Pending(stack, Given[i])
    BY <1>1, <1>4, <1>6
  <2> QED BY <2>1, <2>2, TellsAlike
<1> QED BY <1>6, <1>7, <1>8 DEF TeleInv

(* The loop is at the j-th of the given collectors.                         *)
AtGiven(j) ==
  /\ j \in 1 .. Len(Given) /\ j = Last(stack).at + 1 /\ Last(stack) \in Loops
  /\ collectors[Last(stack).at + 1] = Given[j]

(* A collector that was not added later is one of the given.                *)
LEMMA GivenIsNext ==
  ASSUME TeleInv, ~Outside, Last(stack).at < Len(collectors),
         collectors[Last(stack).at + 1] \notin Later
  PROVE  \E j \in 1 .. Len(Given) : AtGiven(j)
<1> DEFINE x == Last(stack)
           j == x.at + 1
<1>0. TeleTypes /\ Booked(stack, recorded)
  BY DEF TeleInv
<1>1. x \in Loops
  BY <1>0, LoopGoesOn, Zenon
<1>2. x.at < Len(collectors) /\ collectors[j] \notin Later
  OBVIOUS
<1>3. /\ Len(collectors) \in Nat
      /\ \A k \in 1 .. Len(Given) : collectors[k] = Given[k]
      /\ \A k \in 1 .. Len(collectors) : k \notin 1 .. Len(Given) => collectors[k] \in Later
  BY <1>0, GivenFacts DEF TeleTypes
<1> HIDE DEF x
<1>4. x.at \in Nat
  BY <1>1 DEF Loops
<1>5. j \in 1 .. Len(collectors)
  BY <1>2, <1>3, <1>4
<1> HIDE DEF j
<1>6. j \in 1 .. Len(Given) /\ collectors[j] = Given[j]
  BY <1>2, <1>3, <1>5
<1> QED BY <1>1, <1>6, Zenon DEF AtGiven, x, j

(* A buffer is flushed on top of a stack that has come as far.              *)
LEMMA FlushedIsKept ==
  ASSUME TeleInv, NEW j \in 1 .. Len(Given), NEW events \in Seq(Nat), NEW under \in Seq(Frames),
         Booked(under, recorded),
         \A i \in 1 .. Len(Given) :
           Tells(i, got[Given[i]], IF i = j THEN events ELSE buffered[Given[i]],
                 owed[Given[i]], under, recorded),
         Flushes(Given[j], events, under),
         UNCHANGED <<collectors, recorded, owed>>
  PROVE  TeleInv'
<1>0. TeleTypes
  BY DEF TeleInv
<1>1. /\ stack' \in Seq(Frames) /\ Booked(stack', recorded)
      /\ buffered' \in [ToSet(Given) -> Seq(Nat)] /\ got' \in [ToSet(Given) -> Seq(Nat)]
      /\ \A i \in 1 .. Len(Given) :
           Tells(i, got'[Given[i]], buffered'[Given[i]], owed[Given[i]], stack', recorded)
  BY <1>0, FlushesStep, Zenon
<1>2. TeleTypes'
  BY <1>0, <1>1 DEF TeleTypes, GivenFirst
<1>3. recorded' = recorded /\ owed' = owed
  OBVIOUS
<1> QED BY <1>1, <1>2, <1>3, Zenon DEF TeleInv

(* The buffers tell the same of a stack on which as much is coming.         *)
LEMMA BufferedTell ==
  ASSUME TeleInv, NEW j \in 1 .. Len(Given), NEW s,
         \A i \in 1 .. Len(Given) : Coming(s, i) = Coming(stack, i),
         \A c : Pending(s, c) = Pending(stack, c)
  PROVE  \A i \in 1 .. Len(Given) :
           Tells(i, got[Given[i]], IF i = j THEN buffered[Given[j]] ELSE buffered[Given[i]],
                 owed[Given[i]], s, recorded)
<1> TAKE i \in 1 .. Len(Given)
<1>1. Tells(i, got[Given[i]], buffered[Given[i]], owed[Given[i]], stack, recorded)
  BY DEF TeleInv
<1>2. Tells(i, got[Given[i]], buffered[Given[i]], owed[Given[i]], s, recorded)
  BY <1>1, TellsAlike
<1>3. (IF i = j THEN buffered[Given[j]] ELSE buffered[Given[i]]) = buffered[Given[i]]
  OBVIOUS
<1> QED BY <1>2, <1>3, Zenon

(* An event goes into the buffer of the collector that the loop is at, ...  *)
LEMMA BufferStep ==
  ASSUME TeleInv, ~Outside, NEW j, AtGiven(j), Last(stack).does = "record"
  PROVE  LET events == Append(buffered[Given[j]], Last(stack).event) IN
         /\ events \in Seq(Nat)
         /\ \A i \in 1 .. Len(Given) :
              Tells(i, got[Given[i]], IF i = j THEN events ELSE buffered[Given[i]],
                    owed[Given[i]], Further, recorded)
<1> DEFINE x == Last(stack)
           c == Given[j]
           events == Append(buffered[c], x.event)
<1>0. TeleTypes /\ Booked(stack, recorded)
  BY DEF TeleInv
<1>1. /\ \A d : Pending(Further, d) = Pending(stack, d)
      /\ \A i : i \in 1 .. Len(Given) /\ (x.does # "record" \/ i # x.at + 1) =>
           Coming(Further, i) = Coming(stack, i)
      /\ x.does = "record" => x.event \in 1 .. recorded
      /\ \A i : i = x.at + 1 /\ x.does = "record" =>
           /\ Coming(stack, i) = Coming(Further, i) \cup {x.event}
           /\ x.event \notin Coming(Further, i)
  BY <1>0, LoopGoesOn, Zenon
<1>2. j \in 1 .. Len(Given) /\ j = x.at + 1 /\ x.does = "record"
  BY DEF AtGiven
<1> HIDE DEF x
<1>3. /\ x.event \in Nat /\ x.event \in 1 .. recorded
      /\ Coming(stack, j) = Coming(Further, j) \cup {x.event} /\ x.event \notin Coming(Further, j)
  BY <1>1, <1>2
<1>4. Tells(j, got[c], buffered[c], owed[c], stack, recorded)
  BY <1>2 DEF TeleInv
<1>5. buffered[c] \in Seq(Nat)
  BY <1>4, Zenon DEF Tells, Once
<1>6. events \in Seq(Nat)
  BY <1>3, <1>5, AppendProperties
<1> HIDE DEF c
<1>7. Tells(j, got[c], events, owed[c], Further, recorded)
  <2>1. /\ Once(got[c], buffered[c], Pending(Further, c), (1 .. recorded) \ Coming(stack, j))
        /\ owed[c] \subseteq ToSet(got[c]) \cup ToSet(Pending(Further, c))
    BY <1>1, <1>4, Zenon DEF Tells, c
  <2>2. /\ x.event \notin (1 .. recorded) \ Coming(stack, j)
        /\ ((1 .. recorded) \ Coming(stack, j)) \cup {x.event} = (1 .. recorded) \ Coming(Further, j)
    BY <1>3
  <2>3. Once(got[c], events, Pending(Further, c), (1 .. recorded) \ Coming(Further, j))
    <3> DEFINE came == (1 .. recorded) \ Coming(stack, j)
               p == Pending(Further, c)
    <3> HIDE DEF came, p
    <3>1. Once(got[c], events, p, came \cup {x.event})
      BY <1>3, <2>1, <2>2, OnceBuffered DEF came, p
    <3> QED BY <2>2, <3>1, Zenon DEF came, p
  <2> QED BY <2>1, <2>3, Zenon DEF Tells, c
<1> HIDE DEF events
<1>8. ASSUME NEW i \in 1 .. Len(Given), i # j
      PROVE  Tells(i, got[Given[i]], buffered[Given[i]], owed[Given[i]], Further, recorded)
  <2>1. Tells(i, got[Given[i]], buffered[Given[i]], owed[Given[i]], stack, recorded)
    BY DEF TeleInv
  <2>2. Coming(Further, i) = Coming(stack, i)
    BY <1>1, <1>2, <1>8
  <2> QED BY <1>1, <2>1, <2>2, TellsAlike
<1>9. ASSUME NEW i \in 1 .. Len(Given)
      PROVE  Tells(i, got[Given[i]], IF i = j THEN events ELSE buffered[Given[i]],
                   owed[Given[i]], Further, recorded)
  <2>1. CASE i = j
    BY <1>7, <2>1, Zenon DEF c
  <2>2. CASE i # j
    BY <1>8, <2>2, Zenon
  <2> QED BY <2>1, <2>2
<1> QED BY <1>6, <1>9, Zenon DEF events, c, x

(* ... and stays in it as long as it is not full.                           *)
LEMMA NotFullStep ==
  ASSUME TeleInv, ~Outside, NEW j, AtGiven(j), Last(stack).does = "record",
         buffered' = [buffered EXCEPT
                        ![Given[j]] = Append(buffered[Given[j]], Last(stack).event)],
         stack' = Further, UNCHANGED <<collectors, recorded, got, owed>>
  PROVE  TeleInv'
<1> DEFINE events == Append(buffered[Given[j]], Last(stack).event)
<1>0. TeleTypes /\ Booked(stack, recorded)
  BY DEF TeleInv
<1>1. /\ events \in Seq(Nat)
      /\ \A i \in 1 .. Len(Given) :
           Tells(i, got[Given[i]], IF i = j THEN events ELSE buffered[Given[i]],
                 owed[Given[i]], Further, recorded)
  BY BufferStep, Zenon
<1>2. Further \in Seq(Frames) /\ Booked(Further, recorded)
  BY <1>0, LoopGoesOn, Zenon
<1>3. buffered' = [buffered EXCEPT ![Given[j]] = events] /\ j \in 1 .. Len(Given)
  BY DEF AtGiven
<1> HIDE DEF events
<1>4. /\ \A i \in 1 .. Len(Given) : Given[i] \in ToSet(Given) /\ (Given[i] = Given[j] => i = j)
      /\ buffered \in [ToSet(Given) -> Seq(Nat)]
  BY <1>0, <1>3, GivenNumbers DEF TeleTypes
<1>5. /\ buffered' \in [ToSet(Given) -> Seq(Nat)]
      /\ \A i \in 1 .. Len(Given) :
           buffered'[Given[i]] = IF i = j THEN events ELSE buffered[Given[i]]
  <2>1. Given[j] \in ToSet(Given) /\ events \in Seq(Nat)
    BY <1>1, <1>3, <1>4
  <2>2. buffered' \in [ToSet(Given) -> Seq(Nat)] /\ buffered'[Given[j]] = events
    BY <1>3, <1>4, <2>1
  <2>3. \A d \in ToSet(Given) : d # Given[j] => buffered'[d] = buffered[d]
    BY <1>3, <1>4
  <2>4. ASSUME NEW i \in 1 .. Len(Given)
        PROVE  buffered'[Given[i]] = IF i = j THEN events ELSE buffered[Given[i]]
    BY <1>4, <2>2, <2>3, Zenon
  <2> QED BY <2>2, <2>4, Zenon
<1>6. TeleTypes'
  BY <1>0, <1>2, <1>5 DEF TeleTypes, GivenFirst
<1>7. \A i \in 1 .. Len(Given) :
        Tells(i, got[Given[i]], buffered'[Given[i]], owed[Given[i]], Further, recorded)
  BY <1>1, <1>5, Zenon
<1>8. stack' = Further /\ recorded' = recorded /\ got' = got /\ owed' = owed
  OBVIOUS
<1> QED BY <1>2, <1>6, <1>7, <1>8, Zenon DEF TeleInv

(* A shutdown writes down what its collector is owed.                       *)
LEMMA ShutdownReaches ==
  ASSUME TeleInv, ~Outside, NEW j, AtGiven(j), Last(stack).does = "shutdown",
         Flushes(Given[j], buffered[Given[j]], Further),
         owed' = [owed EXCEPT ![Given[j]] = (1..recorded) \ OnTheWay(Given[j])],
         UNCHANGED <<collectors, recorded>>
  PROVE  TeleInv'
<1> DEFINE c == Given[j]
           o == (1 .. recorded) \ Coming(stack, j)
<1>0. TeleTypes /\ Booked(stack, recorded)
  BY DEF TeleInv
<1>1. /\ j \in 1 .. Len(Given) /\ stack \in Seq(Frames) /\ recorded \in Nat /\ GivenFirst
      /\ owed \in [ToSet(Given) -> SUBSET Nat]
  BY <1>0 DEF AtGiven, TeleTypes
<1>2. /\ c \in ToSet(Given)
      /\ \A i \in 1 .. Len(Given) : Given[i] \in ToSet(Given) /\ (Given[i] = c => i = j)
  BY <1>1, GivenNumbers
<1>3. owed' = [owed EXCEPT ![c] = o]
  BY <1>1, OnTheWayIsComing
<1>4. /\ Further \in Seq(Frames) /\ Booked(Further, recorded)
      /\ \A d : Pending(Further, d) = Pending(stack, d)
      /\ \A i \in 1 .. Len(Given) : Coming(Further, i) = Coming(stack, i)
  BY <1>0, LoopGoesOn
<1>5. \A i \in 1 .. Len(Given) :
        Tells(i, got[Given[i]], IF i = j THEN buffered[c] ELSE buffered[Given[i]],
              owed[Given[i]], Further, recorded)
  BY <1>1, <1>4, BufferedTell
<1>6. buffered[c] \in Seq(Nat)
  BY <1>0, <1>2 DEF TeleTypes
<1>7. /\ stack' \in Seq(Frames) /\ Booked(stack', recorded)
      /\ buffered' \in [ToSet(Given) -> Seq(Nat)] /\ got' \in [ToSet(Given) -> Seq(Nat)]
      /\ \A i \in 1 .. Len(Given) :
           Tells(i, got'[Given[i]], buffered'[Given[i]], owed[Given[i]], stack', recorded)
      /\ ToSet(got'[c]) \cup ToSet(Pending(stack', c)) = (1 .. recorded) \ Coming(Further, j)
  BY <1>0, <1>1, <1>4, <1>5, <1>6, FlushesStep, Zenon
<1>8. o \subseteq Nat /\ o = (1 .. recorded) \ Coming(Further, j)
  BY <1>1, <1>4
<1> HIDE DEF c, o
<1>9. /\ owed' \in [ToSet(Given) -> SUBSET Nat]
      /\ owed'[c] = o /\ \A i \in 1 .. Len(Given) : i # j => owed'[Given[i]] = owed[Given[i]]
  <2>1. owed \in [ToSet(Given) -> SUBSET Nat] /\ o \in SUBSET Nat /\ c \in ToSet(Given)
    BY <1>1, <1>2, <1>8
  <2>2. owed' \in [ToSet(Given) -> SUBSET Nat] /\ owed'[c] = o
    BY <1>3, <2>1
  <2>3. \A d \in ToSet(Given) : d # c => owed'[d] = owed[d]
    BY <1>3, <2>1
  <2> QED BY <1>2, <2>2, <2>3, Zenon
<1>10. TeleTypes'
  BY <1>0, <1>7, <1>9 DEF TeleTypes, GivenFirst
<1>11. ASSUME NEW i \in 1 .. Len(Given)
       PROVE  Tells(i, got'[Given[i]], buffered'[Given[i]], owed'[Given[i]], stack', recorded)
  <2>1. Tells(i, got'[Given[i]], buffered'[Given[i]], owed[Given[i]], stack', recorded)
    BY <1>7
  <2>2. CASE i = j
    <3>1. owed'[Given[i]] \subseteq ToSet(got'[Given[i]]) \cup ToSet(Pending(stack', Given[i]))
      BY <1>7, <1>8, <1>9, <2>2 DEF c
    <3> QED BY <2>1, <3>1, Zenon DEF Tells
  <2>3. CASE i # j
    BY <1>9, <2>1, <2>3, Zenon
  <2> QED BY <2>2, <2>3
<1>12. recorded' = recorded
  OBVIOUS
<1> QED BY <1>7, <1>10, <1>11, <1>12, Zenon DEF TeleInv

(* So every way to go on keeps the invariant.                               *)
LEMMA NextCollectorStep == ASSUME TeleInv, NextCollector PROVE TeleInv'
<1> DEFINE x == Last(stack)
           c == collectors[x.at + 1]
<1>0. TeleTypes /\ Booked(stack, recorded)
  BY DEF TeleInv
<1>1. /\ ~Outside /\ UNCHANGED <<collectors, recorded>>
      /\ \/ x.at >= Len(collectors) /\ stack' = Front(stack) /\ UNCHANGED <<buffered, ticking, got, owed>>
         \/ /\ x.at < Len(collectors) /\ c \in Later
            /\ stack' = IF x.does = "record"
                        THEN Append(Further, Delivery(c, <<x.event>>)) ELSE Further
            /\ UNCHANGED <<buffered, ticking, got, owed>>
         \/ /\ x.at < Len(collectors) /\ c \notin Later /\ x.does = "record"
            /\ \/ Flushes(c, Append(buffered[c], x.event), Further)
               \/ /\ buffered' = [buffered EXCEPT ![c] = Append(buffered[c], x.event)]
                  /\ stack' = Further /\ UNCHANGED got
            /\ UNCHANGED <<ticking, owed>>
         \/ /\ x.at < Len(collectors) /\ c \notin Later /\ x.does = "flush"
            /\ Flushes(c, buffered[c], Further)
            /\ UNCHANGED <<ticking, owed>>
         \/ /\ x.at < Len(collectors) /\ c \notin Later /\ x.does = "shutdown"
            /\ Flushes(c, buffered[c], Further)
            /\ owed' = [owed EXCEPT ![c] = (1..recorded) \ OnTheWay(c)]
  BY Zenon DEF NextCollector
<1>2. CASE x.at >= Len(collectors) /\ stack' = Front(stack) /\ UNCHANGED <<buffered, got, owed>>
  BY <1>1, <1>2, LoopEnds
<1>3. CASE /\ x.at < Len(collectors) /\ c \in Later
           /\ stack' = IF x.does = "record"
                       THEN Append(Further, Delivery(c, <<x.event>>)) ELSE Further
           /\ UNCHANGED <<buffered, got, owed>>
  BY <1>1, <1>3, LaterStep
<1>4. ASSUME x.at < Len(collectors) /\ c \notin Later
      PROVE  \E j \in 1 .. Len(Given) : AtGiven(j) /\ c = Given[j]
  <2>1. \E j \in 1 .. Len(Given) : AtGiven(j)
    BY <1>1, <1>4, GivenIsNext
  <2> QED BY <2>1, Zenon DEF AtGiven
<1>5. /\ Further \in Seq(Frames) /\ Booked(Further, recorded)
      /\ \A d : Pending(Further, d) = Pending(stack, d)
      /\ x.does # "record" => \A i \in 1 .. Len(Given) : Coming(Further, i) = Coming(stack, i)
  BY <1>0, <1>1, LoopGoesOn, Zenon
<1>6. CASE /\ x.at < Len(collectors) /\ c \notin Later /\ x.does = "record"
           /\ Flushes(c, Append(buffered[c], x.event), Further) /\ UNCHANGED owed
  <2>1. PICK j \in 1 .. Len(Given) : AtGiven(j) /\ c = Given[j]
    BY <1>4, <1>6
  <2> DEFINE events == Append(buffered[Given[j]], x.event)
  <2>2. /\ events \in Seq(Nat)
        /\ \A i \in 1 .. Len(Given) :
             Tells(i, got[Given[i]], IF i = j THEN events ELSE buffered[Given[i]],
                   owed[Given[i]], Further, recorded)
    BY <1>1, <1>6, <2>1, BufferStep, Zenon
  <2>3. Flushes(Given[j], events, Further) /\ UNCHANGED <<collectors, recorded, owed>>
    BY <1>1, <1>6, <2>1, Zenon
  <2> HIDE DEF events
  <2> QED BY <1>5, <2>2, <2>3, FlushedIsKept, Zenon
<1>7. CASE /\ x.at < Len(collectors) /\ c \notin Later /\ x.does = "record"
           /\ buffered' = [buffered EXCEPT ![c] = Append(buffered[c], x.event)]
           /\ stack' = Further /\ UNCHANGED <<got, owed>>
  <2>1. PICK j \in 1 .. Len(Given) : AtGiven(j) /\ c = Given[j]
    BY <1>4, <1>7
  <2>2. buffered' = [buffered EXCEPT ![Given[j]] = Append(buffered[Given[j]], Last(stack).event)]
    BY <1>7, <2>1, Zenon
  <2> QED BY <1>1, <1>7, <2>1, <2>2, NotFullStep, Zenon
<1>8. CASE /\ x.at < Len(collectors) /\ c \notin Later /\ x.does = "flush"
           /\ Flushes(c, buffered[c], Further) /\ UNCHANGED owed
  <2>1. PICK j \in 1 .. Len(Given) : AtGiven(j) /\ c = Given[j]
    BY <1>4, <1>8
  <2>2. \A i \in 1 .. Len(Given) :
          Tells(i, got[Given[i]], IF i = j THEN buffered[Given[j]] ELSE buffered[Given[i]],
                owed[Given[i]], Further, recorded)
    BY <1>5, <1>8, BufferedTell
  <2>3. Flushes(Given[j], buffered[Given[j]], Further) /\ UNCHANGED <<collectors, recorded, owed>>
    BY <1>1, <1>8, <2>1, Zenon
  <2>4. buffered[Given[j]] \in Seq(Nat)
    BY <1>0, GivenNumbers DEF TeleTypes
  <2> QED BY <1>5, <2>2, <2>3, <2>4, FlushedIsKept, Zenon
<1>9. CASE /\ x.at < Len(collectors) /\ c \notin Later /\ x.does = "shutdown"
           /\ Flushes(c, buffered[c], Further)
           /\ owed' = [owed EXCEPT ![c] = (1..recorded) \ OnTheWay(c)]
  <2>1. PICK j \in 1 .. Len(Given) : AtGiven(j) /\ c = Given[j]
    BY <1>4, <1>9
  <2>2. /\ Flushes(Given[j], buffered[Given[j]], Further)
        /\ owed' = [owed EXCEPT ![Given[j]] = (1..recorded) \ OnTheWay(Given[j])]
    BY <1>9, <2>1, Zenon
  <2> QED BY <1>1, <1>9, <2>1, <2>2, ShutdownReaches, Zenon
<1> QED BY <1>1, <1>2, <1>3, <1>6, <1>7, <1>8, <1>9, Zenon

(* A delivery goes on to its next event, or ends.                           *)
LEMMA CollectorReturnsStep == ASSUME TeleInv, CollectorReturns PROVE TeleInv'
<1> DEFINE x == Last(stack)
           u == Front(stack)
           rest == Tail(x.events)
<1>0. TeleTypes /\ Booked(stack, recorded)
  BY DEF TeleInv
<1>1. /\ stack # <<>> /\ x.does = "deliver" /\ UNCHANGED <<collectors, buffered, recorded, owed>>
      /\ \/ rest = <<>> /\ stack' = u /\ got' = got
         \/ /\ rest # <<>> /\ stack' = [stack EXCEPT ![Len(stack)].events = rest]
            /\ got' = [got EXCEPT ![x.to] = Append(got[x.to], Head(rest))]
  BY Zenon DEF CollectorReturns, Outside
<1>2. stack \in Seq(Frames) /\ got \in [ToSet(Given) -> Seq(Nat)] /\ recorded \in Nat
  BY <1>0 DEF TeleTypes
<1>3. u \in Seq(Frames) /\ x \in Frames /\ stack = Append(u, x) /\ x = stack[Len(stack)]
  BY <1>1, <1>2, TopApart
<1>4. /\ x \in Deliveries /\ x.events # <<>> /\ (x.to \in Later => rest = <<>>)
      /\ \A c : Rest(x, c) \in Seq(Nat)
  BY <1>1, <1>3, FrameFacts
<1> HIDE DEF x, u
<1>5. x.to \in ToSet(Given) \cup Later /\ x.events \in Seq(Nat) /\ x.does # "record"
  BY <1>4 DEF Deliveries
<1>6. rest \in Seq(Nat)
  BY <1>4, <1>5, HeadTailProperties
<1>7. /\ \A i : Coming(stack, i) = Coming(u, i)
      /\ EventsOf(stack) = EventsOf(u)
      /\ EachOnce(stack) => EachOnce(u)
  <2>1. /\ \A i : Coming(Append(u, x), i) = Coming(u, i)
                 \cup IF x.does = "record" /\ x.at < i THEN {x.event} ELSE {}
        /\ EventsOf(Append(u, x)) = EventsOf(u) \cup IF x.does = "record" THEN {x.event} ELSE {}
        /\ EachOnce(Append(u, x)) <=>
             EachOnce(u) /\ (x.does = "record" => x.event \notin EventsOf(u))
    BY <1>3, ComingPushed
  <2>2. stack = Append(u, x)
    BY <1>3
  <2> QED BY <1>5, <2>1, <2>2
<1>8. \A c : Pending(u, c) \in Seq(Nat) /\ Pending(stack, c) = Pending(u, c) \o Rest(x, c)
  BY <1>3, PendingPushed
<1>9. Booked(u, recorded)
  BY <1>0, <1>7 DEF Booked
<1> HIDE DEF rest
<1>10. CASE rest = <<>> /\ stack' = u /\ got' = got
  <2>1. ASSUME NEW c PROVE Pending(u, c) = Pending(stack, c)
    <3>1. Rest(x, c) = <<>>
      BY <1>10 DEF Rest, rest
    <3> QED BY <1>8, <3>1, ConcatEmptySeq
  <2>2. TeleTypes'
    BY <1>0, <1>1, <1>3, <1>10 DEF TeleTypes, GivenFirst
  <2>3. ASSUME NEW i \in 1 .. Len(Given)
        PROVE  Tells(i, got[Given[i]], buffered[Given[i]], owed[Given[i]], u, recorded)
    <3>1. Tells(i, got[Given[i]], buffered[Given[i]], owed[Given[i]], stack, recorded)
      BY DEF TeleInv
    <3> QED BY <1>7, <2>1, <3>1, TellsAlike
  <2>4. UNCHANGED <<buffered, recorded, owed>>
    BY <1>1
  <2> QED BY <1>9, <1>10, <2>2, <2>3, <2>4, Zenon DEF TeleInv
<1>11. CASE /\ rest # <<>> /\ stack' = [stack EXCEPT ![Len(stack)].events = rest]
            /\ got' = [got EXCEPT ![x.to] = Append(got[x.to], Head(rest))]
  <2> DEFINE y == [x EXCEPT !.events = rest]
             d == x.to
             g == Append(got[d], Head(rest))
  <2>1. stack' = [stack EXCEPT ![Len(stack)] = y]
    BY <1>3, <1>11, Zenon
  <2>2. /\ y \in Deliveries /\ y.does = "deliver" /\ y.does # "record" /\ y.to = d /\ y.events = rest
    BY <1>4, <1>6 DEF Deliveries
  <2>3. d \in ToSet(Given) /\ d \notin Later
    BY <1>4, <1>5, <1>11
  <2> HIDE DEF y
  <2>4. y \in Frames
    BY <1>11, <2>2, <2>3 DEF Frames
  <2>5. stack' = Append(u, y)
    BY <1>1, <1>2, <2>1, <2>4, TopReplaced DEF u
  <2>6. stack' \in Seq(Frames)
    BY <1>3, <2>4, <2>5, AppendProperties
  <2>7. (\A i : Coming(stack', i) = Coming(stack, i)) /\ Booked(stack', recorded)
    <3>1. /\ \A i : Coming(Append(u, y), i) = Coming(u, i)
                   \cup IF y.does = "record" /\ y.at < i THEN {y.event} ELSE {}
          /\ EventsOf(Append(u, y)) = EventsOf(u) \cup IF y.does = "record" THEN {y.event} ELSE {}
          /\ EachOnce(Append(u, y)) <=>
               EachOnce(u) /\ (y.does = "record" => y.event \notin EventsOf(u))
      BY <1>3, <2>4, ComingPushed
    <3> QED BY <1>7, <1>9, <2>2, <2>5, <3>1 DEF Booked
  <2>8. /\ Head(rest) \in Nat /\ Tail(rest) \in Seq(Nat)
        /\ ToSet(rest) = ToSet(Tail(rest)) \cup {Head(rest)}
    BY <1>6, <1>11, HeadAndTail
  <2>9. /\ g \in Seq(Nat) /\ ToSet(g) = ToSet(got[d]) \cup {Head(rest)}
    BY <1>2, <2>3, <2>8, AppendProperties, ToSetAppend
  <2>10. /\ got' = [got EXCEPT ![d] = g]
    BY <1>11
  <2>11. PICK j \in 1 .. Len(Given) : d = Given[j]
    BY <2>3, GivenNumbers
  <2>12. \A i \in 1 .. Len(Given) : Given[i] \in ToSet(Given) /\ (Given[i] = d => i = j)
    BY <2>11, GivenNumbers
  <2> HIDE DEF d
  <2>13. /\ Rest(x, d) = rest /\ Rest(y, d) = Tail(rest)
         /\ \A c : c # d => Rest(x, c) = <<>> /\ Rest(y, c) = <<>>
    BY <1>1, <2>2 DEF Rest, rest, d
  <2>14. /\ Pending(stack, d) = Pending(u, d) \o rest
         /\ Pending(stack', d) = Pending(u, d) \o Tail(rest)
    <3>1. Pending(Append(u, y), d) = Pending(u, d) \o Rest(y, d)
      BY <1>3, <2>4, PendingPushed
    <3> QED BY <1>8, <2>5, <2>13, <3>1, Zenon
  <2>15. \A c : c # d => Pending(stack', c) = Pending(stack, c)
    <3> SUFFICES ASSUME NEW c, c # d PROVE Pending(stack', c) = Pending(stack, c)
      OBVIOUS
    <3>1. Pending(Append(u, y), c) = Pending(u, c) \o Rest(y, c)
      BY <1>3, <2>4, PendingPushed
    <3>2. Rest(x, c) = <<>> /\ Rest(y, c) = <<>>
      BY <2>13
    <3> QED BY <1>8, <2>5, <3>1, <3>2, Zenon
  <2>16. Tells(j, g, buffered[d], owed[d], stack', recorded)
    <3>1. /\ Once(got[d], buffered[d], Pending(u, d) \o rest, (1 .. recorded) \ Coming(stack, j))
          /\ owed[d] \subseteq ToSet(got[d]) \cup ToSet(Pending(stack, d))
      BY <2>11, <2>14, Zenon DEF TeleInv, Tells
    <3>2. Once(g, buffered[d], Pending(u, d) \o Tail(rest), (1 .. recorded) \ Coming(stack, j))
      BY <1>6, <1>8, <1>11, <3>1, OnceDelivered
    <3>3. /\ ToSet(Pending(stack, d)) = ToSet(Pending(u, d)) \cup ToSet(rest)
          /\ ToSet(Pending(stack', d)) = ToSet(Pending(u, d)) \cup ToSet(Tail(rest))
      <4> DEFINE p == Pending(u, d)
                 t == Tail(rest)
      <4>1. p \in Seq(Nat) /\ rest \in Seq(Nat) /\ t \in Seq(Nat)
        BY <1>6, <1>8, <2>8
      <4> HIDE DEF p, t
      <4>2. ToSet(p \o rest) = ToSet(p) \cup ToSet(rest)
        BY <4>1, ToSetConcat
      <4>3. ToSet(p \o t) = ToSet(p) \cup ToSet(t)
        BY <4>1, ToSetConcat
      <4> QED BY <2>14, <4>2, <4>3, Zenon DEF p, t
    <3>4. owed[d] \subseteq ToSet(g) \cup ToSet(Pending(stack', d))
      BY <2>8, <2>9, <3>1, <3>3
    <3>5. Once(g, buffered[d], Pending(stack', d), (1 .. recorded) \ Coming(stack', j))
      BY <2>7, <2>14, <3>2, Zenon
    <3> QED BY <2>11, <3>4, <3>5, Zenon DEF Tells
  <2> HIDE DEF g
  <2>17. /\ got' \in [ToSet(Given) -> Seq(Nat)] /\ got'[d] = g
         /\ \A i \in 1 .. Len(Given) : i # j => got'[Given[i]] = got[Given[i]]
    BY <1>2, <2>3, <2>9, <2>10, <2>12
  <2>18. ASSUME NEW i \in 1 .. Len(Given)
         PROVE  Tells(i, got'[Given[i]], buffered[Given[i]], owed[Given[i]], stack', recorded)
    <3>1. CASE i = j
      BY <2>11, <2>16, <2>17, <3>1, Zenon
    <3>2. CASE i # j
      <4>1. Tells(i, got[Given[i]], buffered[Given[i]], owed[Given[i]], stack, recorded)
        BY DEF TeleInv
      <4>2. Pending(stack', Given[i]) = Pending(stack, Given[i])
        BY <2>12, <2>15, <3>2
      <4>3. Tells(i, got[Given[i]], buffered[Given[i]], owed[Given[i]], stack', recorded)
        BY <2>7, <4>1, <4>2, TellsAlike
      <4> QED BY <2>17, <3>2, <4>3, Zenon
    <3> QED BY <3>1, <3>2
  <2>19. TeleTypes'
    BY <1>0, <1>1, <2>6, <2>17 DEF TeleTypes, GivenFirst
  <2>20. UNCHANGED <<buffered, recorded, owed>>
    BY <1>1
  <2> QED BY <2>7, <2>18, <2>19, <2>20, Zenon DEF TeleInv
<1> QED BY <1>1, <1>10, <1>11, Zenon

(* A timer empties a buffer while nothing runs.                             *)
LEMMA TimerFlushesStep == ASSUME TeleInv, NEW c \in ToSet(Given), TimerFlushes(c) PROVE TeleInv'
<1>0. TeleTypes /\ Booked(stack, recorded)
  BY DEF TeleInv
<1>1. PICK j \in 1 .. Len(Given) : c = Given[j]
  BY GivenNumbers
<1>2. Flushes(Given[j], buffered[Given[j]], stack) /\ UNCHANGED <<collectors, recorded, owed>>
  BY <1>1, Zenon DEF TimerFlushes
<1>3. stack \in Seq(Frames) /\ buffered[Given[j]] \in Seq(Nat)
  BY <1>0, GivenNumbers DEF TeleTypes
<1>4. \A i \in 1 .. Len(Given) :
        Tells(i, got[Given[i]], IF i = j THEN buffered[Given[j]] ELSE buffered[Given[i]],
              owed[Given[i]], stack, recorded)
  BY BufferedTell
<1> QED BY <1>0, <1>2, <1>3, <1>4, FlushedIsKept, Zenon

(* Collectors that come and go leave the given ones in front.               *)
LEMMA CollectorsStep ==
  ASSUME TeleInv, NEW c \in Later, AddCollector(c) \/ RemoveCollector(c)
  PROVE  TeleInv'
<1> DEFINE T == ToSet(Given) \cup Later
<1>0. TeleTypes /\ GivenFirst
  BY DEF TeleInv, TeleTypes
<1>1. PICK rest \in Seq(Later) : collectors = Given \o rest
  BY <1>0 DEF GivenFirst
<1>2. Given \in Seq(T) /\ rest \in Seq(T) /\ c \in T /\ Given \in Seq(ToSet(Given))
      /\ ToSet(Given) \cap Later = {}
  <2>1. ToSet(Given) \subseteq T /\ Later \subseteq T /\ c \in T
    OBVIOUS
  <2> HIDE DEF T
  <2> QED BY <2>1, TelemetryAssumption, SeqMonotonic
<1> HIDE DEF T
<1>3. ASSUME AddCollector(c) PROVE GivenFirst'
  <2>1. collectors' = Append(Given \o rest, c)
    BY <1>1, <1>3, Zenon DEF AddCollector
  <2>2. collectors' = Given \o Append(rest, c) /\ Append(rest, c) \in Seq(Later)
    <3>1. Given \o Append(rest, c) = Append(Given \o rest, c)
      BY <1>2, ConcatAppend
    <3>2. Append(rest, c) \in Seq(Later)
      BY AppendProperties
    <3> QED BY <2>1, <3>1, <3>2, Zenon
  <2> QED BY <2>2, Zenon DEF GivenFirst
<1>4. ASSUME RemoveCollector(c) PROVE GivenFirst'
  <2> DEFINE A == ToSet(collectors) \ {c}
  <2>0. Given \o rest \in Seq(T)
    BY <1>2, ConcatProperties
  <2>1. collectors' = Filter(Given \o rest, A)
    <3>1. DOMAIN collectors = 1 .. Len(collectors)
      BY <1>1, <2>0, LenProperties
    <3>2. ToSet(collectors) = {collectors[i] : i \in 1 .. Len(collectors)}
      BY <3>1, Zenon DEF ToSet
    <3> QED BY <1>1, <1>4, <3>2, Zenon DEF RemoveCollector, Without
  <2>2. \A x \in ToSet(Given) : x \in A
    <3>1. ToSet(collectors) = ToSet(Given) \cup ToSet(rest)
      BY <1>1, <1>2, InjectiveConcat
    <3> QED BY <1>2, <3>1
  <2> HIDE DEF A
  <2>3. Filter(Given \o rest, A) = Filter(Given, A) \o Filter(rest, A)
    BY <1>2, FilterConcat
  <2>4. Filter(Given, A) = Given
    BY <1>2, <2>2, FilterAll
  <2>5. Filter(rest, A) \in Seq(Later)
    BY FilterFacts
  <2>6. collectors' = Given \o Filter(rest, A)
    BY <2>1, <2>3, <2>4
  <2> QED BY <2>5, <2>6, Zenon DEF GivenFirst
<1>5. GivenFirst'
  BY <1>3, <1>4
<1>6. UNCHANGED <<buffered, stack, recorded, got, owed>>
  BY Zenon DEF AddCollector, RemoveCollector
<1>7. TeleTypes'
  BY <1>0, <1>5, <1>6 DEF TeleTypes
<1>8. /\ Booked(stack, recorded)
      /\ \A i \in 1 .. Len(Given) :
           Tells(i, got[Given[i]], buffered[Given[i]], owed[Given[i]], stack, recorded)
  BY DEF TeleInv
<1> QED BY <1>6, <1>7, <1>8, Zenon DEF TeleInv

(* Every step keeps the invariant, ...                                      *)
LEMMA TeleInvStep == ASSUME TeleInv, [TelemetryNext]_telemetryVars PROVE TeleInv'
<1>1. CASE Record
  BY <1>1, RecordStep
<1>2. CASE Flush
  BY <1>2, LoopStarts DEF Flush
<1>3. CASE Shutdown
  BY <1>3, LoopStarts DEF Shutdown
<1>4. CASE NextCollector
  BY <1>4, NextCollectorStep
<1>5. CASE CollectorReturns
  BY <1>5, CollectorReturnsStep
<1>6. CASE \E c \in Later : AddCollector(c) \/ RemoveCollector(c)
  BY <1>6, CollectorsStep
<1>7. CASE \E c \in ToSet(Given) : TimerFlushes(c)
  BY <1>7, TimerFlushesStep
<1>8. CASE UNCHANGED telemetryVars
  <2>1. UNCHANGED <<collectors, buffered, stack, recorded, got, owed>>
    BY <1>8, Zenon DEF telemetryVars
  <2> QED BY <2>1, Zenon DEF TeleInv, TeleTypes, GivenFirst
<1> QED BY <1>1, <1>2, <1>3, <1>4, <1>5, <1>6, <1>7, <1>8, Zenon DEF TelemetryNext

(* ... which says what the property says.                                   *)
LEMMA TeleInvSuffices == ASSUME TeleInv PROVE EventsArriveOnce
<1>0. TeleTypes
  BY DEF TeleInv
<1> SUFFICES ASSUME NEW c \in ToSet(Given)
             PROVE  LET all == got[c] \o HeldBack(c)
                    IN /\ IsInjective(all)
                       /\ ToSet(all) = (1 .. recorded) \ OnTheWay(c)
                       /\ stack = <<>> => owed[c] \subseteq ToSet(got[c])
  BY Zenon DEF EventsArriveOnce
<1>1. PICK i \in 1 .. Len(Given) : c = Given[i]
  BY GivenNumbers
<1>2. /\ Once(got[c], buffered[c], Pending(stack, c), (1 .. recorded) \ Coming(stack, i))
      /\ owed[c] \subseteq ToSet(got[c]) \cup ToSet(Pending(stack, c))
  BY <1>1, Zenon DEF TeleInv, Tells
<1>3. HeldBack(c) = buffered[c] \o Pending(stack, c)
  BY Zenon DEF HeldBack, Pending, Rests, Rest
<1>4. OnTheWay(c) = Coming(stack, i)
  BY <1>0, <1>1, OnTheWayIsComing DEF TeleTypes
<1>5. stack = <<>> => owed[c] \subseteq ToSet(got[c])
  <2>1. stack = <<>> => ToSet(Pending(stack, c)) = {}
    BY NothingPending, ToSetOfNothing
  <2> QED BY <1>2, <2>1
<1>6. /\ IsInjective(got[c] \o (buffered[c] \o Pending(stack, c)))
      /\ ToSet(got[c] \o (buffered[c] \o Pending(stack, c))) = (1 .. recorded) \ Coming(stack, i)
  BY <1>2, OnceSpliced
<1> QED BY <1>3, <1>4, <1>5, <1>6, Zenon

(* However the calls of collectors nest, each event reaches each collector  *)
(* that the service was constructed with once, or is on its way to it, and  *)
(* nothing that had come by its shutdown is left behind.                    *)
THEOREM TelemetryArrivesOnce == TelemetrySpec => []EventsArriveOnce
<1>1. TelemetryInit => TeleInv
  BY TeleInvInit
<1>2. TeleInv /\ [TelemetryNext]_telemetryVars => TeleInv'
  BY TeleInvStep
<1>3. TeleInv => EventsArriveOnce
  BY TeleInvSuffices
<1> QED BY <1>1, <1>2, <1>3, PTL DEF TelemetrySpec
=============================================================================
