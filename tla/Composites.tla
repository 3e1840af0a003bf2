----------------------------- MODULE Composites -----------------------------
(***************************************************************************)
(* The composite validators, each of which puts the parts of something     *)
(* structured to a chain of validators: the documents of a retrieval, a    *)
(* memory that is written, the arguments of a tool call, the entries of a  *)
(* composed context.  A text is a sequence of letters and a validator      *)
(* refuses a text in which its needle occurs; it shows what matched, masks *)
(* it, or throws.                                                          *)
(***************************************************************************)
EXTENDS Filters, FiniteSets, SequencesExt

CONSTANTS
  Texts,         \* bound: the parts
  Judges,        \* validators: [needle, shows: "match" | "mask" | "throw", redacts]
  MaxShown,      \* how much of a match a finding shows
  Refs,          \* bound: what a memory may be derived from
  MaxParts,      \* bound: how many parts
  HardCap,       \* hardCapBytes, a letter being a byte
  MaxRaw,        \* MAX_RAW_UPSTREAM_ENTRIES
  MaxRescans     \* MAX_RESCAN_REFS

(* A text is a sequence of letters; a needle has some, and the replacement  *)
(* is not among them: were it, what a redaction puts in could match again.  *)
ASSUME CompositesAssumption ==
  /\ MaxParts \in Nat /\ HardCap \in Nat \ {0} /\ MaxRaw \in Nat /\ MaxRescans \in Nat
  /\ MaxShown \in Nat \ {0}
  /\ \A t \in Texts : t \in Seq(STRING)
  /\ \A v \in Judges : v.needle \in Seq(STRING \ {"R"}) \ {<<>>}

VARIABLES
  form,          \* what is judged and how; never changes
  chain,         \* the validators, in order; never changes
  parts,         \* the texts; never changes
  deep,          \* the arguments below the depth limit; never changes
  derived,       \* the references of the memory's provenance; never changes
  raw,           \* the cache of upstream bodies: ref -> its body, or "none"
  judged,        \* how many parts have been judged
  survivors,     \* the parts that are let through
  decision        \* "open", then "allow" or "block"

compositesVars == <<form, chain, parts, deep, derived, raw, judged, survivors, decision>>

Retrievals == {"drop", "redact", "block-all"}
Writes == {"block-write", "redact-write"}

StartsAt(t, m, i) == i + Len(m) - 1 <= Len(t) /\ SubSeq(t, i, i + Len(m) - 1) = m
Occurs(m, t) == \E i \in DOMAIN t : StartsAt(t, m, i)

(* A mutant of Replaced: only the first occurrence goes.                    *)
ReplacedOnce(t, m) ==
  IF ~Occurs(m, t) THEN t
  ELSE LET i == CHOOSE k \in DOMAIN t :
                  StartsAt(t, m, k) /\ ~Occurs(m, SubSeq(t, 1, k + Len(m) - 2))
       IN SubSeq(t, 1, i - 1) \o <<"R">> \o SubSeq(t, i + Len(m), Len(t))

(* Every occurrence, from the left, by the replacement.                     *)
Replaced(t, m) ==
  LET from[i \in 1..(Len(t) + 1)] ==
        IF i > Len(t) THEN <<>>
        ELSE IF StartsAt(t, m, i) THEN <<"R">> \o from[i + Len(m)] ELSE <<t[i]>> \o from[i + 1]
  IN from[1]

(* runValidatorChain: the first validator that refuses, or throws, ends it. *)
Refusers(t) == {v \in DOMAIN chain : Occurs(chain[v].needle, t)}
Accepted(t) == Refusers(t) = {}
FirstRefuser(t) == chain[CHOOSE v \in Refusers(t) : \A w \in Refusers(t) : v <= w]

(* What a redaction is meant to remove: what the validators that redact     *)
(* know, and what the refusal shows, the beginning of a long match only.    *)
Redactors == Filter(chain, {v \in ToSet(chain) : v.redacts})
Cut(m) == IF Len(m) <= MaxShown THEN m ELSE SubSeq(m, 1, MaxShown)
Shown(t) == IF FirstRefuser(t).shows = "match" THEN <<Cut(FirstRefuser(t).needle)>> ELSE <<>>

Redaction(t) ==
  LET needles == [k \in DOMAIN Redactors |-> Redactors[k].needle] \o Shown(t)
      redacted[k \in 0..Len(needles)] ==
        IF k = 0 THEN t ELSE Replaced(redacted[k - 1], needles[k])
  IN redacted[Len(needles)]

(* A blank line: what a context puts between two of its entries.            *)
Separator == <<"n", "n">>
Joined(entries) ==
  FlattenSeq([i \in DOMAIN entries |->
                IF i = Len(entries) THEN entries[i] ELSE entries[i] \o Separator])

(* selectEntriesNewestFirst: the longest end that fits with its separators, *)
(* the newest entry in any case.                                            *)
SizeFrom(entries, from) ==
  FoldLeft(LAMBDA size, t : size + Len(t), 0, SubSeq(entries, from, Len(entries)))
    + Len(Separator) * (Len(entries) - from)
OldestKept(entries) ==
  CHOOSE from \in DOMAIN entries :
    /\ from = Len(entries) \/ SizeFrom(entries, from) <= HardCap
    /\ from > 1 => ~(SizeFrom(entries, from - 1) <= HardCap)
KeptEntries == SubSeq(parts, OldestKept(parts), Len(parts))

(* rescanLaunderedProvenance: each cached body once, up to the limit.       *)
Rescannable ==
  {i \in DOMAIN derived :
     /\ derived[i] \in DOMAIN raw /\ raw[derived[i]] # "none"
     /\ derived[i] \notin ToSet(SubSeq(derived, 1, i - 1))}
Laundered ==
  \E i \in Rescannable :
    raw[derived[i]] = "dirty" /\ Cardinality({j \in Rescannable : j < i}) < MaxRescans
-----------------------------------------------------------------------------
CompositesInit ==
  /\ form \in Retrievals \cup Writes \cup {"call", "context"}
  /\ chain \in [1..2 -> Judges]
  /\ parts \in UNION {[1..n -> Texts] : n \in 1..(IF form \in Writes THEN 1 ELSE MaxParts)}
  /\ deep \in SUBSET (IF form = "call" THEN DOMAIN parts ELSE {})
  /\ derived \in IF form \in Writes THEN SeqOf(Refs \cup {"user"}, 3) ELSE {<<>>}
  /\ raw = [r \in Refs |-> "none"]
  /\ judged = 0 /\ survivors = <<>> /\ decision = "open"

(* An upstream body comes in before the memory that is derived from it is   *)
(* written; what counts of it is its beginning.                             *)
PutRaw(r, body) ==
  /\ form \in Writes /\ decision = "open"
  /\ raw[r] = "none" => Cardinality({s \in Refs : raw[s] # "none"}) < MaxRaw
  /\ raw' = [raw EXCEPT ![r] = body]
  /\ UNCHANGED <<form, chain, parts, deep, derived, judged, survivors, decision>>

JudgeDocument ==
  /\ form \in Retrievals /\ decision = "open" /\ judged < Len(parts)
  /\ LET t == parts[judged + 1]
     IN \/ /\ Accepted(t)
           /\ judged' = judged + 1 /\ survivors' = Append(survivors, t) /\ UNCHANGED decision
        \/ /\ ~Accepted(t) /\ form = "drop"
           /\ judged' = judged + 1 /\ UNCHANGED <<survivors, decision>>
        \/ /\ ~Accepted(t) /\ form = "redact"
           /\ judged' = judged + 1 /\ survivors' = Append(survivors, Redaction(t))
           /\ UNCHANGED decision
        \/ /\ ~Accepted(t) /\ form = "block-all"
           /\ judged' = Len(parts) /\ survivors' = <<>> /\ decision' = "block"
  /\ UNCHANGED <<form, chain, parts, deep, derived, raw>>

(* All arguments are judged, whatever the first verdicts are; those below   *)
(* the depth limit are reported and not judged.                             *)
JudgeArgument ==
  /\ form = "call" /\ judged < Len(parts)
  /\ judged' = judged + 1
  /\ decision' = IF judged + 1 \in deep \/ Accepted(parts[judged + 1]) THEN decision ELSE "block"
  /\ UNCHANGED <<form, chain, parts, deep, derived, raw, survivors>>

EndOfParts ==
  /\ form \in Retrievals \cup {"call"} /\ decision = "open" /\ judged = Len(parts)
  /\ decision' = "allow"
  /\ UNCHANGED <<form, chain, parts, deep, derived, raw, judged, survivors>>

(* A laundered memory is not redacted but refused.                          *)
JudgeMemory ==
  /\ form \in Writes /\ decision = "open"
  /\ LET t == parts[1]
     IN \/ /\ Accepted(t) /\ ~Laundered
           /\ survivors' = <<t>> /\ decision' = "allow"
        \/ /\ ~Accepted(t) /\ ~Laundered /\ form = "redact-write"
           /\ survivors' = <<Redaction(t)>> /\ decision' = "allow"
        \/ /\ Laundered \/ (~Accepted(t) /\ form = "block-write")
           /\ decision' = "block" /\ UNCHANGED survivors
  /\ UNCHANGED <<form, chain, parts, deep, derived, raw, judged>>

(* The entries as one text, in their order and in the opposite one; a       *)
(* validator finds what lies across two of them if its needle has the       *)
(* separator in it, as a pattern has that allows white space.               *)
JudgeContext ==
  /\ form = "context" /\ decision = "open"
  /\ decision' = IF Accepted(Joined(KeptEntries)) /\ Accepted(Joined(Reverse(KeptEntries)))
                THEN "allow" ELSE "block"
  /\ survivors' = KeptEntries
  /\ UNCHANGED <<form, chain, parts, deep, derived, raw, judged>>

CompositesNext ==
  \/ JudgeDocument \/ JudgeArgument \/ EndOfParts \/ JudgeMemory \/ JudgeContext
  \/ \E r \in Refs, body \in {"clean", "dirty"} : PutRaw(r, body)

CompositesSpec == CompositesInit /\ [][CompositesNext]_compositesVars
-----------------------------------------------------------------------------
Bears(t, needles) == \E m \in needles : Occurs(m, t)

(* What the chain refuses gets through in no disguise: a part that survives *)
(* was accepted as it came or, redacted, bears neither what its refusal     *)
(* shows nor what a redacting validator knows, however these overlap; no    *)
(* memory of a dirty body is stored; an allowed call has no judged argument *)
(* that is refused; and an allowed context has nothing that is refused in   *)
(* two neighbours of what was kept with the blank line between them,        *)
(* whichever of the two comes first.                                        *)
NothingRefusedSurvives ==
  decision = "allow" =>
    /\ form \in {"drop", "block-all", "block-write"} =>
         survivors = Filter(parts, {t \in ToSet(parts) : Accepted(t)})
    /\ form \in {"redact", "redact-write"} =>
         /\ Len(survivors) = Len(parts)
         /\ \A i \in DOMAIN parts :
              survivors[i] # parts[i] \/ ~Accepted(parts[i])
              => ~Bears(survivors[i],
                        {v.needle : v \in ToSet(Redactors)} \cup ToSet(Shown(parts[i])))
    /\ form \in Writes => \A i \in 1..Len(derived) :
         i <= MaxRescans /\ derived[i] \in Refs => raw[derived[i]] # "dirty"
    /\ form = "call" => \A i \in DOMAIN parts \ deep : Accepted(parts[i])
    /\ form = "context" => \A i \in OldestKept(parts)..(Len(parts) - 1) :
         /\ Accepted(parts[i] \o Separator \o parts[i + 1])
         /\ Accepted(parts[i + 1] \o Separator \o parts[i])
=============================================================================
