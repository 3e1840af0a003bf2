------------------------------ MODULE Verdicts ------------------------------
(***************************************************************************)
(* How the pattern validators and guards come from what they find in a     *)
(* text to their verdict.  A hit is a pattern found in one of the views of *)
(* the text: as it was normalised, with its white space taken out, or by   *)
(* the detectors that come after the patterns.  What the patterns are, and *)
(* what of a text excuses a hit (a defensive purpose, an example, an       *)
(* allowed host), is left out.  A text grows, and never loses a hit.       *)
(***************************************************************************)
EXTENDS Naturals, FiniteSets, Sequences, SequencesExt, FiniteSetsExt, Filters

CONSTANTS
  Patterns,      \* their names
  LevelOf,       \* pattern -> 0 (info), 1 (warning) or 3 (critical)
  Tame,          \* patterns whose blockEligible is false
  OriginalOf,    \* synonym -> the pattern it is a synonym of
  Listed,        \* the patterns in the order of the tables
  MaxHits,       \* bound: hits in a text
  MaxFound,      \* MAX_FINDINGS_PER_RUN of the secret guard
  EscalateAt,    \* ACCUMULATION_THRESHOLD of a session
  RaiseAbove,    \* the risk above which an escalated session raises warnings
  RefuseAt,      \* the risk at which an escalated session is refused
  RiskThreshold  \* getRiskThreshold, by sensitivity

Views == {"plain", "joined", "other"}

Sensitivities == {"strict", "standard", "permissive"}

(* The synonym tables: no synonym weighs more than its original, which is   *)
(* none itself.                                                             *)
ASSUME VerdictsAssumption ==
  /\ IsFiniteSet(Patterns) /\ LevelOf \in [Patterns -> {0, 1, 3}]
  /\ {MaxHits, EscalateAt, RaiseAbove, RefuseAt} \subseteq Nat /\ MaxFound \in Nat \ {0}
  /\ RiskThreshold \in [Sensitivities -> Nat]
  /\ DOMAIN OriginalOf \subseteq Patterns
  /\ \A s \in DOMAIN OriginalOf :
       /\ OriginalOf[s] \in Patterns \ (Tame \cup DOMAIN OriginalOf)
       /\ LevelOf[s] <= LevelOf[OriginalOf[s]]
  /\ Listed \in Seq(Patterns)
  /\ \A i, j \in DOMAIN Listed : i < j => LevelOf[Listed[i]] >= LevelOf[Listed[j]]

VARIABLES
  judge,         \* the validator; never changes
  action,        \* its configuration; never changes
  sensitivity,   \* never changes
  tracked,       \* it keeps a session; never changes
  past,          \* the risk the session had accumulated; never changes
  hits           \* pattern and view

verdictsVars == <<judge, action, sensitivity, tracked, past, hits>>

Found(view) == {p \in Patterns : <<p, view>> \in hits}
Everything == UNION {Found(view) : view \in Views}
Above(found, level) == {p \in found : LevelOf[p] >= level}
Highest(found) == Max({0} \cup {LevelOf[p] : p \in found})

Ruling(refuses, severity) == [refused |-> refuses, severity |-> severity]

(* A mutant of Detected: the synonym hides its original.                    *)
DetectedSynonyms(view) ==
  Found(view) \ {OriginalOf[s] : s \in DOMAIN OriginalOf \cap Found(view)}

(* detectPatterns: a synonym is left out beside its original.               *)
Detected(view) ==
  {p \in Found(view) : p \in DOMAIN OriginalOf => OriginalOf[p] \notin Found(view)}

(* The joined text is not searched for synonyms, and adds what is new.      *)
Merged == Detected("plain") \cup (Found("joined") \ DOMAIN OriginalOf)

(* The configured action is not asked.                                      *)
PromptInjection ==
  Ruling((Above(Merged, 1) \ Tame) \cup Above(Found("other"), 1) # {},
         Highest(Merged \cup Found("other")))

(* The session counts only when a pattern was found, not for fuzzy and      *)
(* heuristic hits alone; its escalation raises the patterns' warnings.      *)
Jailbreak ==
  LET found     == Found("plain") \cup Found("joined")
      counts    == tracked /\ found # {}
      risk      == Cardinality(Everything) + IF counts THEN past ELSE 0
      escalates == counts /\ risk >= EscalateAt
      severity  == IF escalates /\ risk > RaiseAbove /\ Above(found, 1) # {} THEN 3
                   ELSE Highest(Everything)
  IN Ruling(severity \in {1, 3} \/ (risk >= RefuseAt /\ escalates), severity)

Reformulation ==
  LET risk      == Cardinality(Everything)
      escalates == tracked /\ past + risk >= EscalateAt
      severity  == IF Highest(Everything) = 3 \/ escalates THEN 3
                   ELSE IF Highest(Everything) = 1 \/ risk >= RiskThreshold[sensitivity] THEN 1
                   ELSE 0
  IN Ruling(severity > 0 /\ action = "block", severity)

(* Harm intent and social engineering: each intent is critical.             *)
Intents == Ruling(Everything # {} /\ action = "block", IF Everything = {} THEN 0 ELSE 3)

(* Each view is what one decoder made of the text: a structural one counts  *)
(* from warnings on.                                                        *)
EncodedRescan ==
  LET found == Above(Detected("plain"), 1) \cup Above(Detected("joined"), 3)
  IN Ruling(found \ Tame # {} /\ action = "block", IF found \ Tame # {} THEN 3 ELSE 0)

Indirect ==
  Ruling(action # "warn" /\ Above(Everything, 1) \ Tame # {}, Highest(Everything))

(* A finding of whatever level is a warning at least.                       *)
AtLeastWarning == IF Everything = {} THEN 0 ELSE IF Highest(Everything) = 3 THEN 3 ELSE 1

(* Multilingual patterns and shell commands.                                *)
OnCritical == Ruling(Highest(Everything) = 3 /\ action = "block", AtLeastWarning)

Boundary ==
  Ruling(action = "block" /\ (Highest(Everything) = 3
                              \/ (Highest(Everything) = 1 /\ sensitivity = "strict")),
         AtLeastWarning)

(* Here sensitivity stands for the mode.                                    *)
Scripts ==
  Ruling(action = "block" /\ Everything # {}
                          /\ (sensitivity = "strict" \/ Highest(Everything) = 3),
         AtLeastWarning)

(* The configured action is not asked.                                      *)
CodeInjection == Ruling(Highest(Everything) = 3, Highest(Everything))
PathTraversal == Ruling(Everything # {}, IF Everything = {} THEN 0 ELSE 3)

(* A critical command is refused whatever the action.                       *)
Production ==
  Ruling(Highest(Everything) = 3 \/ (Everything # {} /\ action = "block"), AtLeastWarning)

PersonalData ==
  LET counts == Above(Everything, CASE sensitivity = "permissive" -> 3
                                    [] sensitivity = "standard" -> 1 [] OTHER -> 0)
  IN IF Highest(Everything) = 0 THEN Ruling(FALSE, 0)
     ELSE Ruling(action = "block" /\ counts # {}, AtLeastWarning)

(* The detections in the order of the tables, up to the limit: the first    *)
(* one's severity is the verdict's.                                         *)
Secrets ==
  LET all   == Filter(Listed, Everything)
      found == SubSeq(all, 1, Min({Len(all), MaxFound}))
  IN IF found = <<>> THEN Ruling(FALSE, 0)
     ELSE Ruling(~(action = "allow" \/ (action = "log" /\ Highest(ToSet(found)) < 3)),
                 LevelOf[found[1]])

Ruled ==
  CASE judge = "prompt injection" -> PromptInjection
    [] judge = "jailbreak" -> Jailbreak
    [] judge = "reformulation" -> Reformulation
    [] judge = "harm intent, social engineering" -> Intents
    [] judge = "encoded rescan" -> EncodedRescan
    [] judge = "indirect injection" -> Indirect
    [] judge = "multilingual, bash" -> OnCritical
    [] judge = "boundary" -> Boundary
    [] judge = "xss" -> Scripts
    [] judge = "code injection" -> CodeInjection
    [] judge = "path traversal" -> PathTraversal
    [] judge = "production" -> Production
    [] judge = "pii" -> PersonalData
    [] judge = "secret" -> Secrets

PatternJudges ==
  {"prompt injection", "jailbreak", "reformulation", "harm intent, social engineering",
   "encoded rescan", "indirect injection", "multilingual, bash", "boundary", "xss",
   "code injection", "path traversal", "production", "pii", "secret"}
-----------------------------------------------------------------------------
VerdictsInit ==
  /\ judge \in PatternJudges
  /\ action \in IF judge = "indirect injection" THEN {"block", "warn"}
                 ELSE {"block", "sanitize", "log", "allow"}
  /\ sensitivity \in Sensitivities
  /\ tracked \in (IF judge \in {"jailbreak", "reformulation"} THEN BOOLEAN ELSE {FALSE})
  /\ past \in (IF tracked THEN 0..EscalateAt ELSE {0})
  /\ hits = {}

(* The text goes on, with another hit.                                      *)
HitAppears(p, view) ==
  /\ Cardinality(hits) < MaxHits /\ <<p, view>> \notin hits
  /\ hits' = hits \cup {<<p, view>>}
  /\ UNCHANGED <<judge, action, sensitivity, tracked, past>>

VerdictsNext == \E p \in Patterns, view \in Views : HitAppears(p, view)

VerdictsSpec == VerdictsInit /\ [][VerdictsNext]_verdictsVars
-----------------------------------------------------------------------------
(* More of what a validator looks for is never judged milder, although hits *)
(* hide one another, synonyms behind originals and one view's behind the    *)
(* other's, and only so many are kept: a refusal is not withdrawn and the   *)
(* severity does not fall.                                                  *)
NeverMilder ==
  [][(Ruled.refused => Ruled'.refused) /\ Ruled.severity <= Ruled'.severity]_verdictsVars
=============================================================================
