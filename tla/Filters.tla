------------------------------- MODULE Filters -------------------------------
(***************************************************************************)
(* What Array.prototype.filter and removals leave of a sequence, by the    *)
(* set of what stays.  (SelectSeq of the standard module computes the      *)
(* same, but is no definition that a proof could open.)                    *)
(***************************************************************************)
EXTENDS Naturals, Sequences

(* The elements of s that are in S, in their order.                         *)
Filter(s, S) ==
  LET kept[i \in 0 .. Len(s)] ==
        IF i = 0 THEN <<>>
        ELSE IF s[i] \in S THEN Append(kept[i - 1], s[i]) ELSE kept[i - 1]
  IN kept[Len(s)]

(* The elements of s other than x.                                          *)
Without(s, x) == Filter(s, {s[i] : i \in 1 .. Len(s)} \ {x})
=============================================================================
