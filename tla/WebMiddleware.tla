--------------------------- MODULE WebMiddleware ---------------------------
(***************************************************************************)
(* The middleware for web frameworks: what each does with a request before *)
(* the application's route handler and with the handler's reply, for       *)
(* requests that are served at the same time and belong to conversations   *)
(* (the session tracker's, whose accumulated weight is all that counts     *)
(* here and does not fade in the span of these requests).                  *)
(*                                                                         *)
(* A record per middleware names what it lets pass and refuses without a   *)
(* judgement; the actions are the order its handler works in.  A text is   *)
(* fine or bad; an engine that fails or takes too long counts as refusing. *)
(***************************************************************************)
EXTENDS Naturals, FiniteSets, FiniteSetsExt

CONSTANTS
  WebRequests,     \* requests in flight
  Conversations,   \* sessions they belong to
  Threshold,       \* the weight at which a session escalates
  Weights,         \* weights of the findings of one judgement, 0 for none
  Deployed         \* names of the middleware that is considered

ASSUME WebAssumption ==
  /\ IsFiniteSet(WebRequests)
  /\ Threshold \in Nat \ {0} /\ Weights \subseteq Nat

-----------------------------------------------------------------------------
(* What becomes of the bodies that are no ordinary text: excluded (path,    *)
(* method, shouldValidate), absent, blank, unreadable (cannot be serialised *)
(* or breaks off), foreign (a charset unknown), large.  Three of the        *)
(* middlewares give up a judgement after a time.                            *)
Bodies == {"excluded", "absent", "blank", "unreadable", "foreign", "large", "text"}

Express ==
  [name |-> "express", passes |-> {"excluded"},
   refuses |-> {"absent", "unreadable", "large"}, body |-> "parsed", timed |-> TRUE]

Fastify ==
  [name |-> "fastify", passes |-> {"excluded"},
   refuses |-> {"unreadable", "large"}, body |-> "parsed", timed |-> TRUE]

Nest ==
  [name |-> "nest", passes |-> {"excluded", "absent"},
   refuses |-> {"large"}, body |-> "parsed", timed |-> TRUE]

Hono ==
  [name |-> "hono", passes |-> {"excluded", "absent", "unreadable"},
   refuses |-> {"foreign"}, body |-> "stream", timed |-> FALSE]

Elysia ==
  [name |-> "elysia", passes |-> {"excluded", "absent", "blank"},
   refuses |-> {}, body |-> "parsed", timed |-> FALSE]

NextEdge ==
  [name |-> "edge", passes |-> {"excluded", "absent", "blank", "unreadable"},
   refuses |-> {}, body |-> "clone", timed |-> FALSE]

NextRoute ==
  [name |-> "route", passes |-> {"excluded", "absent", "blank", "unreadable"},
   refuses |-> {}, body |-> "clone", timed |-> FALSE]

NextAction ==
  [name |-> "action", passes |-> {"excluded", "absent", "blank"},
   refuses |-> {}, body |-> "parsed", timed |-> FALSE]

Middlewares ==
  {Express, Fastify, Nest, Hono, Elysia, NextEdge, NextRoute, NextAction}

VARIABLES
  using,           \* the middleware
  options,         \* validateRequest, validateResponse, enableSessionTracking;
                   \* careless: the application's onError throws
  stage,           \* where each request is
  of,              \* its conversation
  body,            \* its body
  consumed,        \* requests whose body stream has been read
  risk,            \* accumulated_weight of each conversation
  weight,          \* history: weight of the findings in each request
  refused,         \* history: requests that were refused
  written,         \* the parts of a reply so far
  answer           \* what the client got

webVars == <<using, options, stage, of, body, consumed, risk, weight, refused, written, answer>>

Options ==
  {o \in [request : BOOLEAN, response : BOOLEAN, sessions : BOOLEAN, careless : BOOLEAN] :
     /\ using.name \notin {"express", "fastify", "nest"} =>
          o.request /\ ~o.response /\ ~o.careless
     /\ using.name \notin {"express", "fastify"} => ~o.sessions}

WebInit ==
  /\ using \in {w \in Middlewares : w.name \in Deployed}
  /\ options \in Options
  /\ stage = [r \in WebRequests |-> "away"]
  /\ of \in [WebRequests -> Conversations]
  /\ body = [r \in WebRequests |-> "text"]
  /\ consumed = {}
  /\ risk = [c \in Conversations |-> 0]
  /\ weight = [r \in WebRequests |-> 0]
  /\ refused = {}
  /\ written = [r \in WebRequests |-> {}]
  /\ answer = [r \in WebRequests |-> "none"]
-----------------------------------------------------------------------------
Go(r, next) == stage' = [stage EXCEPT ![r] = next]

Over(r, how) == Go(r, "over") /\ answer' = [answer EXCEPT ![r] = how]

Write(r, part) == written' = [written EXCEPT ![r] = @ \cup {part}]

(* next(), next.handle(), handler(req), action(...args).                    *)
HandOn(r) == Go(r, "handling") /\ UNCHANGED <<written, answer, refused>>

(* The request is refused.  Express calls onError, and once more when that  *)
(* throws, which it does again; Fastify answers in its place, and its       *)
(* onSend hook sees the answer.                                             *)
TurnAway(r) ==
  /\ refused' = refused \cup {r}
  /\ \/ /\ using.name = "express" /\ options.careless
        /\ Over(r, "none") /\ UNCHANGED written
     \/ /\ using.name = "fastify" /\ options.response
        /\ Go(r, "replying") /\ Write(r, "refusal") /\ UNCHANGED answer
     \/ /\ ~(using.name = "express" /\ options.careless)
        /\ ~(using.name = "fastify" /\ options.response)
        /\ Over(r, "refusal") /\ UNCHANGED written

Escalated(r) == options.sessions /\ risk[of[r]] >= Threshold

(* A body that was not parsed is read from its stream, or from a clone.     *)
ReadBody(r, b) ==
  consumed' = IF using.body = "stream" /\ b \notin {"excluded", "absent"}
              THEN consumed \cup {r} ELSE consumed

(* A request arrives, up to the await of the judgement.                     *)
Arrives(r, b) ==
  /\ stage[r] = "away"
  /\ body' = [body EXCEPT ![r] = b]
  /\ ReadBody(r, b)
  /\ \/ (b \in using.passes \/ ~options.request) /\ HandOn(r)
     \/ /\ b \notin using.passes /\ options.request
        /\ b \in using.refuses \/ Escalated(r)
        /\ TurnAway(r)
     \/ /\ b \notin using.passes /\ options.request
        /\ b \notin using.refuses /\ ~Escalated(r)
        /\ Go(r, "judging") /\ UNCHANGED <<written, answer, refused>>
  /\ UNCHANGED <<using, options, of, risk, weight>>

(* Mutant: the answer of updateSessionState is not looked at.               *)
RequestJudgedAlone(r, allowed, w) ==
  /\ stage[r] = "judging"
  /\ weight' = [weight EXCEPT ![r] = w]
  /\ risk' = IF options.sessions THEN [risk EXCEPT ![of[r]] = @ + w] ELSE risk
  /\ IF allowed THEN HandOn(r) ELSE TurnAway(r)
  /\ UNCHANGED <<using, options, of, body, consumed>>

(* The verdict is there: the session takes the findings, and the request is *)
(* refused when that escalates it.                                          *)
RequestJudged(r, allowed, w) ==
  /\ stage[r] = "judging"
  /\ weight' = [weight EXCEPT ![r] = w]
  /\ risk' = IF options.sessions THEN [risk EXCEPT ![of[r]] = @ + w] ELSE risk
  /\ IF allowed /\ ~(options.sessions /\ w > 0 /\ risk'[of[r]] >= Threshold)
     THEN HandOn(r) ELSE TurnAway(r)
  /\ UNCHANGED <<using, options, of, body, consumed>>

(* The engine's error is the framework's in some, a refusal in the others.  *)
EngineFails(r) ==
  /\ stage[r] = "judging" /\ using.name \in {"hono", "elysia", "edge", "route", "action"}
  /\ refused' = refused \cup {r}
  /\ Over(r, "error")
  /\ UNCHANGED <<using, options, of, body, consumed, risk, weight, written>>
-----------------------------------------------------------------------------
(* Is this request's reply looked at?  Express wraps send only when it does *)
(* not judge requests; a Nest request without content is not looked at.     *)
RepliesWrapped(r) ==
  /\ options.response /\ body[r] \notin using.passes
  /\ using.name = "express" => ~options.request

(* The handler replies: whole (a text, or what the extractor finds one in), *)
(* with another object, or in pieces (write, a stream).  Express's send     *)
(* takes no object and Nest's extractor sees nothing of it; Express's write *)
(* and end are not held back, and a stream is more than Fastify's extractor *)
(* takes.                                                                   *)
HandlerReplies(r, how, part) ==
  /\ stage[r] = "handling"
  /\ written' = [written EXCEPT ![r] = @ \cup {part} \cup ({how} \cap {"object"})]
  /\ \/ /\ RepliesWrapped(r)
        /\ \/ how = "whole" /\ Go(r, "replying") /\ UNCHANGED answer
           \/ how = "object" /\ using.name = "nest" /\ Go(r, "replying") /\ UNCHANGED answer
           \/ how = "object" /\ using.name = "express" /\ Over(r, "error")
           \/ how = "pieces" /\ using.name = "express" /\ Over(r, "reply")
           \/ how = "pieces" /\ using.name = "fastify" /\ Over(r, "filtered")
     \/ ~RepliesWrapped(r) /\ how = "whole" /\ Over(r, "reply")
  /\ UNCHANGED <<using, options, of, body, consumed, risk, weight, refused>>

(* It throws, and the framework answers.                                    *)
HandlerFails(r) ==
  /\ stage[r] = "handling"
  /\ Over(r, "error")
  /\ UNCHANGED <<using, options, of, body, consumed, risk, weight, refused, written>>

(* Express sends what was refused again, with the notice: res.json calls    *)
(* the send that is wrapped, which judges all that was written.             *)
ExpressReplyJudged(r) ==
  /\ using.name = "express"
  /\ IF "bad" \in written[r]
     THEN Write(r, "notice") /\ UNCHANGED <<stage, answer>>
     ELSE Over(r, "reply") /\ UNCHANGED written

(* What the engine is given of a reply.  Nest serialises an object without  *)
(* a text among its common fields with a replacer that puts "[Circular]"    *)
(* for the object itself; that is judged, and the object is sent.           *)
Seen(r) == IF "object" \in written[r] THEN {} ELSE written[r]

(* Mutant: an error of the judgement lets the payload pass.                 *)
ReplyReplacedUnlessError(r) ==
  /\ using.name \in {"fastify", "nest"}
  /\ Over(r, IF "refusal" \in written[r] THEN "refusal" ELSE "reply")
  /\ UNCHANGED written

(* Mutant: the notice is sent by way of the hook that judges replies.       *)
ReplyReplacedInHook(r) ==
  /\ using.name \in {"fastify", "nest"}
  /\ IF "bad" \in Seen(r)
     THEN Write(r, "notice") /\ UNCHANGED <<stage, answer>>
     ELSE Over(r, IF "refusal" \in written[r] THEN "refusal" ELSE "reply") /\ UNCHANGED written

(* Fastify and Nest put a notice in the place of a refused reply, and of    *)
(* one whose judgement failed.                                              *)
ReplyReplaced(r) ==
  /\ using.name \in {"fastify", "nest"}
  /\ Over(r, IF "bad" \in Seen(r) THEN "filtered"
             ELSE IF "refusal" \in written[r] THEN "refusal" ELSE "reply")
  /\ UNCHANGED written

ReplyJudged(r) ==
  /\ stage[r] = "replying"
  /\ ExpressReplyJudged(r) \/ ReplyReplaced(r)
  /\ UNCHANGED <<using, options, of, body, consumed, risk, weight, refused>>
-----------------------------------------------------------------------------
Served(r) ==
  \/ \E allowed \in BOOLEAN, w \in Weights : RequestJudged(r, allowed, w)
  \/ EngineFails(r)
  \/ \E how \in {"whole", "object", "pieces"}, part \in {"fine", "bad"} :
       HandlerReplies(r, how, part)
  \/ HandlerFails(r)
  \/ ReplyJudged(r)

WebNext == \E r \in WebRequests : Served(r) \/ \E b \in Bodies : Arrives(r, b)

WebSpec == WebInit /\ [][WebNext]_webVars

(* Judgements end with their timeout, where there is one: the engine sets   *)
(* none, and Hono, Elysia and Next await it as long as it takes.  The       *)
(* application's handlers answer.                                           *)
WebFairness ==
  \A r \in WebRequests : WF_webVars(Served(r) /\ (stage[r] = "judging" => using.timed))

FairWebSpec == WebSpec /\ WebFairness
-----------------------------------------------------------------------------
HandedOn == {r \in WebRequests : stage[r] \in {"handling", "replying", "over"} /\ r \notin refused}

(* The findings of one conversation that the application got to see stay    *)
(* below the threshold together, however many of its requests are judged at *)
(* the same time on the strength of an earlier look at the session.         *)
ConversationStaysBelow ==
  options.sessions => \A c \in Conversations :
    MapThenSumSet(LAMBDA r : weight[r], {r \in HandedOn : of[r] = c}) < Threshold

(* A reply the engine refuses is not sent, where replies are looked at and  *)
(* except for what Express does not hold back and for the objects of which  *)
(* Nest's extractor gives the engine nothing.                               *)
RefusedReplyStaysIn(r) ==
  answer[r] = "reply" /\ options.response /\ body[r] \notin using.passes => "bad" \notin written[r]

RepliesAreJudged ==
  using.name # "express" =>
    \A r \in WebRequests : "object" \notin written[r] => RefusedReplyStaysIn(r)

(* express-middleware/README.md:52: validateResponse validates "outgoing    *)
(* response bodies"; nestjs-module/README.md:3: "Request/response           *)
(* validation".                                                             *)
ResponsesAreValidated == \A r \in WebRequests : RefusedReplyStaysIn(r)

(* hono-middleware/src/hono-guardrails.ts:64: the handler behind the        *)
(* middleware does "const body = await c.req.json()".                       *)
EveryBodyIsThere == \A r \in consumed : body[r] = "text" => stage[r] # "handling"

(* Every request is answered, whatever is refused on its way, except by an  *)
(* Express application whose onError throws or which has replies judged, and*)
(* as soon as an engine that no timeout ends has given its verdict.         *)
RequestsAreAnswered ==
  \A r \in WebRequests :
    stage[r] # "away" ~>
      \/ answer[r] # "none"
      \/ using.name = "express" /\ (options.careless \/ RepliesWrapped(r))
      \/ ~using.timed /\ stage[r] = "judging"

(* express-middleware/src/types.ts:61: "Buffer entire response, validate,   *)
(* then send".                                                              *)
BufferedRepliesAreSent ==
  \A r \in WebRequests : stage[r] = "replying" ~> answer[r] # "none"
=============================================================================
