------------------------- MODULE MCEngineScenarios -------------------------
(***************************************************************************)
(* Model-checking support for GuardrailEngine: two scenarios in one        *)
(* instance, told apart by a guard that is there in the second only.  In   *)
(* the first, one call runs while the other components come and go and one *)
(* of them never settles.  In the second, two calls run over one validator *)
(* and that guard, callbacks are registered and violations recorded.  What *)
(* keeps to a scenario is the callers and who registers; no continuation   *)
(* of a call and no microtask is cut off.                                  *)
(***************************************************************************)
EXTENDS GuardrailEngine

CONSTANT Lasting   \* the guard of the second scenario

OneCall == CHOOSE c \in Calls : TRUE
OneValidator == CHOOSE v \in Validators \ Hung : TRUE
Asked(c) == waiting[c] \cup {r.who : r \in results[c]}

RegistryChanges ==
  /\ Lasting \notin ToSet(guards) /\ callbacks = <<>> /\ violationCount = 0
  /\ \A c \in Calls \ {OneCall} : pc[c] = "idle"
  /\ kind[OneCall] \in {"content", "input"}

CallbacksListen ==
  /\ validators = <<OneValidator>> /\ guards = <<Lasting>>
  /\ \A c \in Calls :
       /\ kind[c] # "input" /\ Asked(c) \subseteq {OneValidator, Lasting}
       /\ pc[c] \in {"validators", "guards"} => Lasting \in expected[c]

InScenario == RegistryChanges \/ CallbacksListen
=============================================================================
