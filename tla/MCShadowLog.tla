---------------------------- MODULE MCShadowLog ----------------------------
(* Instances of ShadowLog: appends, rooms and contents are interchangeable. *)
EXTENDS ShadowLog

Interchangeable ==
  Permutations(Appends) \cup Permutations(Rooms) \cup Permutations(Contents)
=============================================================================
