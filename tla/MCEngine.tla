------------------------------ MODULE MCEngine ------------------------------
(***************************************************************************)
(* Model-checking support for GuardrailEngine: components of one kind, and *)
(* calls, are interchangeable, so runs that check no liveness may take one *)
(* state of each orbit.                                                    *)
(***************************************************************************)
EXTENDS GuardrailEngine

Interchangeable ==
  Permutations(Validators) \cup Permutations(Guards) \cup Permutations(Calls)
=============================================================================
