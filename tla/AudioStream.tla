---------------------------- MODULE AudioStream ----------------------------
(***************************************************************************)
(* packages/core/src/validators/audio-stream.ts: the transcript of one     *)
(* voice session.  Partial transcripts go through a release gate and what  *)
(* it releases through an Aho-Corasick automaton whose state survives from *)
(* one partial to the next; the final pass runs the heavy validators and    *)
(* clears the session when they are done, while further partials may come.  *)
(*                                                                         *)
(* Letters are abstract; "." ends a sentence.  The folding of ASCII case is *)
(* left out.                                                                *)
(***************************************************************************)
EXTENDS Naturals, Sequences, SequencesExt

CONSTANTS
  Letters,        \* what texts are written in
  Pieces,         \* the partial transcripts, sequences of letters
  Needles,        \* the patterns, sequences of letters
  Critical,       \* those of severity critical
  GateChars,      \* minCharsBeforeRelease
  GateSentence,   \* detectSentenceBoundary
  GateMinSentence,\* minSentenceLength
  MaxLetters,     \* bound: letters of a session
  MaxFinals       \* bound: final passes waiting at once

ASSUME AudioAssumption ==
  /\ Pieces \subseteq Seq(Letters)
  /\ Needles \subseteq Seq(Letters) \ {<<>>}
  /\ Critical \subseteq Needles
  /\ {GateChars, GateMinSentence} \subseteq Nat /\ GateSentence \in BOOLEAN

VARIABLES
  pendingText,    \* the buffer of the release gate
  node,           \* the automaton's state, named by the letters that lead there
  earlyBlock,
  finals,         \* final passes that wait for their validators
  seen            \* history: what was released since the session was cleared

audioVars == <<pendingText, node, earlyBlock, finals, seen>>

AudioInit ==
  pendingText = <<>> /\ node = <<>> /\ earlyBlock = FALSE /\ finals = 0 /\ seen = <<>>
-----------------------------------------------------------------------------
(* class AhoCorasick.  The trie: its nodes are the prefixes of the needles. *)
Nodes == UNION {{SubSeq(n, 1, k) : k \in 0..Len(n)} : n \in Needles}

Child(n, letter) == Append(n, letter)

(* Up the failure links from a node to the first that has the letter, and   *)
(* down it; or to the root.                                                 *)
Climb(fail, n, letter) ==
  LET climb[m \in Nodes] ==
        IF Child(m, letter) \in Nodes THEN Child(m, letter)
        ELSE IF m = <<>> THEN <<>> ELSE climb[fail[m]]
  IN climb[n]

(* computeFailureLinks, by breadth, so that a parent's links come first.    *)
Fail ==
  LET links[depth \in Nat] ==
        [n \in Nodes |->
           IF depth <= 1 THEN <<>>
           ELSE IF Len(n) # depth THEN links[depth - 1][n]
           ELSE Climb(links[depth - 1], links[depth - 1][Front(n)], Last(n))]
  IN [n \in Nodes |-> links[Len(n)][n]]

(* The needles that end at a node: its own and those of its failure link.   *)
Outputs ==
  LET outputs[n \in Nodes] ==
        ({n} \cap Needles) \cup (IF n = <<>> THEN {} ELSE outputs[Fail[n]])
  IN outputs

(* Mutant: a mismatch sends the automaton back to the root.                 *)
StepToRoot(n, letter) ==
  IF Child(n, letter) \in Nodes THEN Child(n, letter)
  ELSE IF Child(<<>>, letter) \in Nodes THEN <<letter>> ELSE <<>>

Step(n, letter) == Climb(Fail, n, letter)

(* The nodes a span leads through, starting from the current one.           *)
Path(span) ==
  LET at[k \in 0..Len(span)] == IF k = 0 THEN node ELSE Step(at[k - 1], span[k])
  IN at
-----------------------------------------------------------------------------
(* BufferedReleaseGate.shouldRelease.                                       *)
ReleasesText(text) ==
  \/ Len(text) >= GateChars
  \/ GateSentence /\ Len(text) >= GateMinSentence /\ text # <<>> /\ Last(text) = "."

(* runAutomatonOver: a critical match sets earlyBlock, which stays.         *)
Released(span) ==
  LET path == Path(span)
  IN /\ node' = path[Len(span)]
     /\ earlyBlock' = (earlyBlock \/ \E k \in 1..Len(span) : Outputs[path[k]] \cap Critical # {})
     /\ seen' = seen \o span
     /\ pendingText' = <<>>

(* validatePartial: what the gate does not release waits in it.             *)
ValidatePartial(piece) ==
  /\ Len(seen) + Len(pendingText) + Len(piece) <= MaxLetters
  /\ LET text == pendingText \o piece
     IN IF ReleasesText(text) THEN Released(text)
        ELSE pendingText' = text /\ UNCHANGED <<node, earlyBlock, seen>>
  /\ UNCHANGED finals

(* clearSessionState                                                        *)
ClearSessionState ==
  pendingText' = <<>> /\ earlyBlock' = FALSE /\ node' = <<>> /\ seen' = <<>>

(* validateFinal up to its first wait takes what the gate holds; the        *)
(* automaton does not see it.                                               *)
ValidateFinal ==
  /\ finals < MaxFinals /\ finals' = finals + 1
  /\ pendingText' = <<>>
  /\ UNCHANGED <<node, earlyBlock, seen>>

(* The final validators are done: the session is cleared, the partials that *)
(* have come meanwhile included.                                            *)
FinalEnds == finals > 0 /\ finals' = finals - 1 /\ ClearSessionState

(* consumeEarlyBlock, resetSession and the disposal clear it too.           *)
ResetSession == ClearSessionState /\ UNCHANGED finals

AudioNext ==
  \/ \E piece \in Pieces : ValidatePartial(piece)
  \/ ValidateFinal \/ FinalEnds
  \/ ResetSession

AudioSpec == AudioInit /\ [][AudioNext]_audioVars
-----------------------------------------------------------------------------
OccursIn(n, text) == \E k \in 0..(Len(text) - Len(n)) : SubSeq(text, k + 1, k + Len(n)) = n

(* audio-stream.ts:22-27, 584-617: earlyBlock is up exactly if a critical   *)
(* needle lies in what was released since the session was last cleared,     *)
(* however the partials cut it up, whatever was half matched before, and    *)
(* whichever final pass was waiting.                                        *)
EarlyBlockExact == earlyBlock <=> \E n \in Critical : OccursIn(n, seen)
=============================================================================
