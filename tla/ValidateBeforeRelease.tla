----------------------- MODULE ValidateBeforeRelease -----------------------
(***************************************************************************)
(* What the gated streaming lifecycle promises (docs/user/                 *)
(* known-limitations.md:109-111): items of a stream arrive in order, some  *)
(* bearing text; what is delivered is always the beginning of what has     *)
(* arrived, and none of it bears text that was not judged safe; once the   *)
(* stream is stopped, nothing is delivered any more.                       *)
(***************************************************************************)
EXTENDS Sequences, SequencesExt

CONSTANTS
  Items,        \* the items a stream may consist of
  TextBearing   \* those whose text must be judged

VARIABLES arrived, judged, delivered, stopped

releaseVars == <<arrived, judged, delivered, stopped>>

ToJudge == ToSet(arrived) \cap TextBearing

ReleaseInit ==
  arrived = <<>> /\ judged = {} /\ delivered = <<>> /\ stopped = FALSE

Arrive ==
  /\ ~stopped
  /\ \E x \in Items : arrived' = Append(arrived, x)
  /\ UNCHANGED <<judged, delivered, stopped>>

(* All the text that has arrived is judged safe, and everything goes out.   *)
Release ==
  /\ ~stopped
  /\ judged' = ToJudge
  /\ delivered' = arrived
  /\ UNCHANGED <<arrived, stopped>>

(* Items without text need no verdict.                                      *)
DeliverRest ==
  /\ ~stopped
  /\ ToJudge \subseteq judged
  /\ delivered' = arrived
  /\ UNCHANGED <<arrived, judged, stopped>>

(* A refusal, an error, or an item that could not be taken.                 *)
Stop ==
  /\ ~stopped
  /\ stopped' = TRUE
  /\ arrived' = arrived \/ \E x \in Items : arrived' = Append(arrived, x)
  /\ UNCHANGED <<judged, delivered>>

ReleaseNext == Arrive \/ Release \/ DeliverRest \/ Stop

ReleaseSpec == ReleaseInit /\ [][ReleaseNext]_releaseVars

(* The promise in one line.                                                 *)
NothingUnjudged ==
  IsPrefix(delivered, arrived) /\ ToSet(delivered) \cap TextBearing \subseteq judged
=============================================================================
