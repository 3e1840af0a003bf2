----------------------------- MODULE MCServices -----------------------------
(***************************************************************************)
(* Model-checking support for the services of the core that keep state of  *)
(* their own and share nothing but the clock.  Each behaviour exercises    *)
(* one of them, the subject, and leaves the others as they are.            *)
(***************************************************************************)
EXTENDS SessionTracker, OverrideToken, RateLimiter, CachedValidator,
        HookManager, AudioStream, ServerAuth, MCStreamValidator, Telemetry, CheckDigits

VARIABLE subject

(* What each of them keeps to itself.                                       *)
ofSessions == <<store, sessionCalls>>
ofTokens   == <<stamp, signed, replayCache, uses, firstUse>>
ofRates    == <<entries, checks, allowedAt>>
ofCache    == <<cache, judging>>
ofHooks    == <<arrays, registered, execution, startedAt>>
ofAudio    == <<pendingText, node, earlyBlock, finals, seen>>
ofAuth     == <<claims, inserted, bears, status, verified, accepted>>
ofStream   == streamVars
ofEvents   == telemetryVars
ofDigits   == digitsVars

servicesVars ==
  <<subject, now, ofSessions, ofTokens, ofRates, ofCache, ofHooks, ofAudio, ofAuth,
    ofStream, ofEvents, ofDigits>>

Services == {"sessions", "tokens", "rates", "cache", "hooks", "audio", "auth", "stream",
             "events", "digits"}

(* Bound: the last instant in the behaviours of each service.               *)
Horizon == [sessions |-> 2, tokens |-> 4, rates |-> 6, cache |-> 3, hooks |-> 1,
            audio |-> 0, auth |-> 6, stream |-> 0, events |-> 0, digits |-> 0]

ServicesInit ==
  /\ subject \in Services
  /\ SessionInit /\ RateInit /\ CacheInit /\ HookInit /\ AudioInit /\ StreamInit
  /\ TelemetryInit /\ now = 0
  /\ IF subject = "tokens" THEN TokenInit
     ELSE /\ stamp = [t \in Tokens |-> 0] /\ signed = Tokens
          /\ replayCache = <<>> /\ uses = Unused /\ firstUse = Unused
  /\ IF subject = "digits" THEN DigitsInit
     ELSE scheme = "ABA" /\ genuine = <<>> /\ typed = <<>>
  /\ ServerInit
  /\ subject # "auth" => \A r \in Requests : bears[r] = [stamp |-> 1, body |-> "a"]

SessionStep == SessionNext
  /\ UNCHANGED <<ofTokens, ofRates, ofCache, ofHooks, ofAudio, ofAuth, ofStream,
                 ofEvents, ofDigits>>

TokenStep == TokenNext
  /\ UNCHANGED <<ofSessions, ofRates, ofCache, ofHooks, ofAudio, ofAuth, ofStream,
                 ofEvents, ofDigits>>

RateStep == RateNext
  /\ UNCHANGED <<ofSessions, ofTokens, ofCache, ofHooks, ofAudio, ofAuth, ofStream,
                 ofEvents, ofDigits>>

CacheStep == CacheNext
  /\ UNCHANGED <<ofSessions, ofTokens, ofRates, ofHooks, ofAudio, ofAuth, ofStream,
                 ofEvents, ofDigits>>

HookStep == HookNext
  /\ UNCHANGED <<ofSessions, ofTokens, ofRates, ofCache, ofAudio, ofAuth, ofStream,
                 ofEvents, ofDigits>>

AudioStep == AudioNext
  /\ UNCHANGED <<now, ofSessions, ofTokens, ofRates, ofCache, ofHooks, ofAuth,
                 ofStream, ofEvents, ofDigits>>

AuthStep == ServerNext
  /\ UNCHANGED <<ofSessions, ofTokens, ofRates, ofCache, ofHooks, ofAudio, ofStream,
                 ofEvents, ofDigits>>

StreamStep == StreamNext
  /\ UNCHANGED <<now, ofSessions, ofTokens, ofRates, ofCache, ofHooks, ofAudio,
                 ofAuth, ofEvents, ofDigits>>

EventsStep == TelemetryNext
  /\ UNCHANGED <<now, ofSessions, ofTokens, ofRates, ofCache, ofHooks, ofAudio,
                 ofAuth, ofStream, ofDigits>>

DigitsStep == DigitsNext
  /\ UNCHANGED <<now, ofSessions, ofTokens, ofRates, ofCache, ofHooks, ofAudio,
                 ofAuth, ofStream, ofEvents>>

ServicesNext ==
  /\ \/ subject = "sessions" /\ SessionStep
     \/ subject = "tokens" /\ TokenStep
     \/ subject = "rates" /\ RateStep
     \/ subject = "cache" /\ CacheStep
     \/ subject = "hooks" /\ HookStep
     \/ subject = "audio" /\ AudioStep
     \/ subject = "auth" /\ AuthStep
     \/ subject = "stream" /\ StreamStep
     \/ subject = "events" /\ EventsStep
     \/ subject = "digits" /\ DigitsStep
  /\ UNCHANGED subject
  /\ now' <= Horizon[subject]

ServicesSpec == ServicesInit /\ [][ServicesNext]_servicesVars

(* The server's clients sign two timestamps and two bodies; one of these    *)
(* combinations is signed with another secret.                              *)
MCGenuine == Signatures \ {[stamp |-> 2, body |-> "b"]}

(* The instance: hooks that come first when they are registered last, and   *)
(* patterns that overlap one another.                                       *)
LatestFirst == [h \in Hooks |-> 0 - h]

OneCollector == <<"g1">>

Transcript == {<<"a">>, <<"b">>, <<"a", "b">>, <<".">>}
CriticalNeedles == {<<"a", "a", "b">>, <<"b", ".", "a">>}
AllNeedles == CriticalNeedles \cup {<<"b">>, <<"a", "b", ".", "b">>}
=============================================================================
