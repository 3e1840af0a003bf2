---------------------------- MODULE ServerAuth ----------------------------
(***************************************************************************)
(* Request authentication of packages/bonklm-server: verifyHmacSignature   *)
(* (hmac/index.ts) with its ReplayCache (hmac/replay-cache.ts), called by  *)
(* the body parser and by the preHandler hook of a request (auth/          *)
(* request.ts).  Requests are served concurrently and any of them may bear *)
(* a signature another one bore: a client's retry, a duplicated delivery.  *)
(* The Portkey route with a bearer credential touches none of this state.  *)
(***************************************************************************)
EXTENDS Integers, FiniteSets, Clock

CONSTANTS
  Requests,  \* the requests one server receives
  Stamps,    \* timestamps clients sign
  Bodies,    \* bodies clients sign
  Genuine,   \* the signatures made with the server's secret
  Window,    \* replayWindowMs, the cache's windowMs as well
  Skew,      \* MAX_FUTURE_SKEW_MS
  MaxSize,   \* the cache's maxSize
  Slack      \* ms that may pass between the two clock reads of a verification

(* What an HMAC digest binds.                                               *)
Signatures == [stamp : Stamps, body : Bodies]

ASSUME ServerAssumption ==
  /\ Stamps \subseteq Nat
  /\ Genuine \subseteq Signatures
  /\ {Window, Skew, MaxSize, Slack, MaxTime} \subseteq Nat
  /\ Window > 0 /\ MaxSize > 0

VARIABLES
  claims,    \* the cache's Map: signature, expiresAt, and rank of insertion
  inserted,  \* ranks given out so far
  bears,     \* the signature in the headers of each request
  status,    \* where each request is, or why it was refused
  verified,  \* request.bonklmAuthVerified
  accepted   \* history: how often each signature was accepted

claimVars == <<claims, inserted>>
serverVars == <<now, claimVars, bears, status, verified, accepted>>

Refusal == {"replay_window_exceeded", "signature_mismatch", "replay_detected",
            "replay_cache_exhausted"}

ServerTypeOK ==
  /\ now \in 0..MaxTime
  /\ claims \subseteq [sig : Signatures, expiresAt : Nat, rank : 0..(inserted - 1)]
  /\ inserted \in Nat
  /\ bears \in [Requests -> Signatures]
  /\ status \in [Requests -> {"new", "parsed", "unparsable", "routed"} \cup Refusal]
  /\ verified \in [Requests -> BOOLEAN]
  /\ accepted \in [Signatures -> Nat]

ServerInit ==
  /\ now = 0
  /\ claims = {} /\ inserted = 0
  /\ bears \in [Requests -> Signatures]
  /\ status = [r \in Requests |-> "new"]
  /\ verified = [r \in Requests |-> FALSE]
  /\ accepted = [s \in Signatures |-> 0]
-----------------------------------------------------------------------------
(* ReplayCache                                                              *)

Claimed(sig, t) == \E e \in claims : e.sig = sig /\ e.expiresAt > t

Forgotten(sig) == {e \in claims : e.sig # sig}

(* pruneExpired walks the map in insertion order and stops at the first     *)
(* entry that has not expired.                                              *)
Unpruned(E, t) == {e \in E : \E q \in E : q.rank <= e.rank /\ q.expiresAt > t}

(* Mutant: retention without the future skew.                               *)
EntryOfWindow(sig, t) ==
  [sig |-> sig, expiresAt |-> t + Window + 1, rank |-> inserted]

Entry(sig, t) ==
  [sig |-> sig, expiresAt |-> t + Window + Skew + 1, rank |-> inserted]

(* Mutant: a replayed entry is refreshed to the tail of the map.            *)
ClaimRefreshing(sig, t, outcome) ==
  \/ /\ outcome = "replay" /\ Claimed(sig, t)
     /\ claims' = {IF e.sig = sig THEN [e EXCEPT !.rank = inserted] ELSE e : e \in claims}
     /\ inserted' = inserted + 1
  \/ /\ ~Claimed(sig, t)
     /\ LET kept == Unpruned(Forgotten(sig), t) IN
        \/ /\ outcome = "full" /\ Cardinality(kept) >= MaxSize
           /\ claims' = kept /\ UNCHANGED inserted
        \/ /\ outcome = "first" /\ Cardinality(kept) < MaxSize
           /\ claims' = kept \cup {Entry(sig, t)} /\ inserted' = inserted + 1

(* claim(signature) at time t                                               *)
Claim(sig, t, outcome) ==
  \/ outcome = "replay" /\ Claimed(sig, t) /\ UNCHANGED claimVars
  \/ /\ ~Claimed(sig, t)
     /\ LET kept == Unpruned(Forgotten(sig), t) IN
        \/ /\ outcome = "full" /\ Cardinality(kept) >= MaxSize
           /\ claims' = kept /\ UNCHANGED inserted
        \/ /\ outcome = "first" /\ Cardinality(kept) < MaxSize
           /\ claims' = kept \cup {Entry(sig, t)} /\ inserted' = inserted + 1
-----------------------------------------------------------------------------
InWindow(sig) == now - sig.stamp <= Window /\ sig.stamp - now <= Skew

(* verifyHmacSignature refuses before the cache is asked.                   *)
Mismatch(sig, reason) ==
  /\ \/ reason = "replay_window_exceeded" /\ ~InWindow(sig)
     \/ reason = "signature_mismatch" /\ InWindow(sig) /\ sig \notin Genuine
  /\ UNCHANGED <<now, claimVars>>

(* It has read the clock for the window; claim reads it again.              *)
Verify(sig, outcome) ==
  \E t \in now .. now + Slack :
    /\ InWindow(sig) /\ sig \in Genuine
    /\ t <= MaxTime /\ now' = t
    /\ Claim(sig, t, outcome)

(* One authentication of request r; as: its status when it is accepted.     *)
Authenticate(r, as) ==
  LET sig == bears[r] IN
  /\ \/ /\ Verify(sig, "first")
        /\ status' = [status EXCEPT ![r] = as]
        /\ verified' = [verified EXCEPT ![r] = TRUE]
        /\ accepted' = [accepted EXCEPT ![sig] = @ + 1]
     \/ /\ \E reason \in Refusal :
             /\ \/ Mismatch(sig, reason)
                \/ reason = "replay_detected" /\ Verify(sig, "replay")
                \/ reason = "replay_cache_exhausted" /\ Verify(sig, "full")
             /\ status' = [status EXCEPT ![r] = reason]
        /\ UNCHANGED <<verified, accepted>>
  /\ UNCHANGED bears

(* The body parser authenticates the raw bytes, then may find that they are *)
(* no JSON; the signature stays claimed.                                    *)
Parse(r) ==
  /\ status[r] = "new"
  /\ \E as \in {"parsed", "unparsable"} : Authenticate(r, as)

(* The preHandler hook, of a request without a body before any parser.      *)
PreHandler(r) ==
  \/ /\ status[r] \in {"new", "parsed"} /\ verified[r]
     /\ status' = [status EXCEPT ![r] = "routed"]
     /\ UNCHANGED <<now, claimVars, bears, verified, accepted>>
  \/ /\ status[r] \in {"new", "parsed"} /\ ~verified[r]
     /\ Authenticate(r, "routed")

Tick ==
  /\ \E t \in (now + 1) .. MaxTime : now' = t
  /\ UNCHANGED <<claimVars, bears, status, verified, accepted>>

ServerNext == (\E r \in Requests : Parse(r) \/ PreHandler(r)) \/ Tick

ServerSpec == ServerInit /\ [][ServerNext]_serverVars
-----------------------------------------------------------------------------
(* A correctly signed request is accepted once, however often, when and     *)
(* through whichever of the two entrances it is submitted again: pruning    *)
(* never forgets a signature whose timestamp is still acceptable            *)
(* (replay-cache.ts:5-8, 92-94; hmac-replay.test.ts:4-6).  This needs the   *)
(* two clock reads of a verification to agree: Slack = 0.                   *)
AcceptedOnce == \A s \in Signatures : accepted[s] <= 1

(* replay-cache.ts:92-94 "a timestamp stamped slightly in the future cannot *)
(* outlive its cache entry": an accepted signature is remembered for as     *)
(* long as its timestamp stays acceptable.                                  *)
OutlivesTimestamp ==
  \A s \in Signatures :
    accepted[s] > 0 /\ now - s.stamp <= Window => Claimed(s, now)

(* replay-cache.ts:102-105: the walk of pruneExpired relies on insertion    *)
(* order being expiry order; so after a claim that stored an entry or       *)
(* found no room no expired entry is left, and a cache is never full of     *)
(* expired entries.                                                         *)
PruneIsComplete ==
  [][claims' # claims \/ (\E r \in Requests : status'[r] # status[r]
                                              /\ status'[r] = "replay_cache_exhausted")
       => \A e \in claims' : e.expiresAt > now']_serverVars

=============================================================================
