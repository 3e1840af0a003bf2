------------------------------ MODULE MCCalls ------------------------------
(***************************************************************************)
(* Model-checking support for what serves requests that overlap: the       *)
(* calls retried through the circuit breaker, the requests of a web        *)
(* framework, and the runs of a workflow runtime.  Each behaviour          *)
(* exercises one of them, the subject, and leaves the others as they are.  *)
(***************************************************************************)
EXTENDS RetryPolicy, WebMiddleware, DurableRuns

VARIABLE subject

callsVars == <<subject, retryVars, webVars, durableVars>>

(* The runs when they are not the subject: over, so that no fairness asks    *)
(* for a step of theirs.                                                    *)
DurableIdle ==
  /\ under = "plain" /\ backend = "memory"
  /\ worker = 0 /\ memo = {} /\ told = [r \in Runs |-> {}] /\ lost = [r \in Runs |-> FALSE]
  /\ journal = [r \in Runs |-> "none"] /\ failures = [r \in Runs |-> 0]
  /\ attempt = [r \in Runs |-> [state |-> "done", verdict |-> "allow"]]

CallsInit ==
  /\ subject \in {"breaker", "web", "durable"}
  /\ RetryInit /\ WebInit
  /\ IF subject = "durable" THEN DurableInit ELSE DurableIdle
  /\ subject # "web" => /\ using = NextAction
                        /\ \A r, s \in WebRequests : of[r] = of[s]

CallsNext ==
  /\ \/ subject = "breaker" /\ RetryNext /\ UNCHANGED <<webVars, durableVars>>
     \/ subject = "web" /\ WebNext /\ UNCHANGED <<retryVars, durableVars>>
     \/ subject = "durable" /\ DurableNext /\ UNCHANGED <<retryVars, webVars>>
  /\ UNCHANGED subject

FairCallsSpec ==
  /\ CallsInit /\ [][CallsNext]_callsVars
  /\ RetryFairness /\ WebFairness /\ DurableFairness
=============================================================================
