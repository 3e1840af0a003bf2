-------------------------- MODULE ClientSafeStream --------------------------
(***************************************************************************)
(* A ClientSafeStreamGate (packages/core/src/connector-utils/              *)
(* client-safe-stream.ts) over its StreamValidator: it holds the native    *)
(* chunks of a stream and forwards the originals once the validator has    *)
(* handed out their text.  It calls only processForClient and              *)
(* finalizeForClient, so the actions below are those of StreamValidator    *)
(* joined with what push and finish do around them.                        *)
(***************************************************************************)
EXTENDS StreamValidator

VARIABLES
  held,       \* the native chunks not forwarded yet
  finished,
  errored,
  arrived,    \* history: every chunk push was called with
  delivered   \* history: every chunk push or finish returned as released

gateVars == <<held, finished, errored, arrived, delivered>>
clientVars == <<streamVars, gateVars>>

(* get blocked()                                                            *)
GateBlocked == blocked \/ errored

ClientTypeOK ==
  /\ StreamTypeOK
  /\ {held, arrived, delivered} \subseteq Seq(Numbered)
  /\ Len(arrived) = fed
  /\ {finished, errored} \subseteq BOOLEAN
  /\ op \in {"idle", "processForClient", "finalizeForClient"}
  /\ op = "finalizeForClient" => finished

ClientInit ==
  /\ StreamInit
  /\ held = <<>> /\ arrived = <<>> /\ delivered = <<>>
  /\ finished = FALSE /\ errored = FALSE

Hold(c) == held' = Append(held, [n |-> fed', is |-> c])

Forward == delivered' = delivered \o held /\ held' = <<>>

Drop == held' = <<>> /\ UNCHANGED delivered

(* Mutant: a chunk without text is forwarded at once.                       *)
PassTextFree(c) ==
  /\ Units(c) = 0
  /\ op = "idle" /\ Feed
  /\ delivered' = Append(delivered, [n |-> fed', is |-> c])
  /\ UNCHANGED <<held, errored>>
  /\ UNCHANGED <<state, lifecycle, pending, released, covered, refused>>

(* push of a chunk without text: it rides out with the next release.        *)
PushTextFree(c) ==
  /\ Units(c) = 0
  /\ op = "idle" /\ Feed
  /\ Hold(c)
  /\ UNCHANGED <<delivered, errored>>
  /\ UNCHANGED <<state, lifecycle, pending, released, covered, refused>>

(* Mutant: an overflow is passed on to the caller without closing the gate. *)
PushTextUnguarded(c) ==
  /\ Units(c) # 0
  /\ ProcessForClient(c)
  /\ Hold(c)
  /\ UNCHANGED <<delivered, errored>>

(* push of a chunk with text, up to the await: an overflow throws out of    *)
(* processForClient and closes the gate.                                    *)
PushText(c) ==
  /\ Units(c) # 0
  /\ ProcessForClient(c)
  /\ \/ Overflows(c) /\ errored' = TRUE /\ held' = <<>>
     \/ ~Overflows(c) /\ UNCHANGED errored /\ Hold(c)
  /\ UNCHANGED delivered

(* On a closed gate push does nothing.                                      *)
Push(c) ==
  /\ ~GateBlocked
  /\ PushTextFree(c) \/ PushText(c)
  /\ arrived' = Append(arrived, [n |-> fed', is |-> c])
  /\ UNCHANGED finished

(* finish() up to its await; without pending text there is none.            *)
Finish ==
  /\ op = "idle" /\ ~finished
  /\ finished' = TRUE
  /\ \/ GateBlocked /\ Drop /\ UNCHANGED streamVars
     \/ /\ ~GateBlocked
        /\ FinalizeForClient
        /\ IF op' = "idle" THEN Forward ELSE UNCHANGED <<held, delivered>>
  /\ UNCHANGED <<errored, arrived>>

(* Mutant: whatever the verdict, the chunks go out.                         *)
ResumeForwarding(verdict) ==
  /\ EngineAnswers(verdict)
  /\ Forward
  /\ UNCHANGED <<finished, errored, arrived>>

(* push or finish resumes with the validator's answer.                      *)
Resume(verdict) ==
  /\ EngineAnswers(verdict)
  /\ IF verdict = "allow" THEN Forward ELSE Drop
  /\ UNCHANGED <<finished, errored, arrived>>

ClientNext ==
  \/ \E c \in Chunks : Push(c)
  \/ Finish
  \/ \E verdict \in Verdict : Resume(verdict)

ClientSpec == ClientInit /\ [][ClientNext]_clientVars
-----------------------------------------------------------------------------
Bearing == {x \in Numbered : Units(x.is) # 0}

Promise == INSTANCE ValidateBeforeRelease
  WITH Items <- Numbered, TextBearing <- Bearing,
       judged <- ToSet(covered), stopped <- GateBlocked

(* The gate implements ValidateBeforeRelease: no chunk reaches the client   *)
(* before its text is judged, none out of order, none after the stream is   *)
(* stopped (known-limitations.md:109-111, client-safe-stream.ts:17-22).     *)
ValidatesBeforeRelease == Promise!ReleaseSpec

(* While the gate is open no chunk is lost, doubled or out of order: what   *)
(* was forwarded and what is held is the stream as it arrived.              *)
NoChunkLost == ~GateBlocked => delivered \o held = arrived

(* client-safe-stream.ts:17-22: a release clears every held chunk, because  *)
(* the held text is exactly what the validator's gate holds.                *)
HeldMirrorsPending ==
  ~GateBlocked => ToSet(held) \cap Bearing = ToSet(pending)
=============================================================================
