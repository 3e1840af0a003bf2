-------------------- MODULE ValidateBeforeRelease_proofs --------------------
(***************************************************************************)
(* The promise of ValidateBeforeRelease in one line, for any stream: what  *)
(* is delivered is the beginning of what arrived, all its text judged.     *)
(***************************************************************************)
EXTENDS ValidateBeforeRelease, SequenceTheorems, TLAPS

(* The promise with the types it needs.                                     *)
PromiseInv ==
  /\ arrived \in Seq(Items) /\ delivered \in Seq(Items)
  /\ NothingUnjudged

(* A prefix stays one of a longer sequence.                                 *)
LEMMA PrefixOfLonger ==
  ASSUME NEW s \in Seq(Items), NEW t \in Seq(Items), NEW x \in Items, IsPrefix(s, t)
  PROVE  IsPrefix(s, Append(t, x))
<1>1. /\ Len(s) \in Nat /\ Len(t) \in Nat /\ Len(s) <= Len(t)
      /\ \A i \in 1 .. Len(s) : s[i] = t[i]
  BY DEF IsPrefix
<1> QED  BY <1>1 DEF IsPrefix

(* Every step of the promise keeps it.                                      *)
LEMMA PromiseStep == ASSUME PromiseInv, [ReleaseNext]_releaseVars PROVE PromiseInv'
<1> USE DEF PromiseInv, NothingUnjudged
<1>1. CASE arrived' \in Seq(Items) /\ delivered' = arrived /\ arrived' = arrived
           /\ ToJudge \subseteq judged'
  BY <1>1 DEF IsPrefix, ToJudge
<1>2. CASE /\ UNCHANGED <<judged, delivered>>
           /\ arrived' = arrived \/ \E x \in Items : arrived' = Append(arrived, x)
  <2>1. ASSUME NEW x \in Items, arrived' = Append(arrived, x) PROVE PromiseInv'
    <3>1. IsPrefix(delivered, Append(arrived, x)) /\ Append(arrived, x) \in Seq(Items)
      BY PrefixOfLonger, AppendProperties
    <3> QED  BY <2>1, <3>1, <1>2
  <2> QED  BY <2>1, <1>2
<1>3. CASE Release \/ DeliverRest
  BY <1>1, <1>3 DEF Release, DeliverRest
<1>4. CASE Arrive \/ Stop \/ UNCHANGED releaseVars
  BY <1>2, <1>4 DEF Arrive, Stop, releaseVars
<1> QED  BY <1>3, <1>4 DEF ReleaseNext

(* Nothing is delivered out of order, and no text before it is judged.      *)
THEOREM PromiseKept == ReleaseSpec => []NothingUnjudged
<1>1. ReleaseInit => PromiseInv
  BY DEF ReleaseInit, PromiseInv, NothingUnjudged, IsPrefix, ToSet
<1>2. PromiseInv => NothingUnjudged
  BY DEF PromiseInv
<1> QED  BY <1>1, <1>2, PromiseStep, PTL DEF ReleaseSpec
=============================================================================
