---------------------------- MODULE VectorStores ----------------------------
(***************************************************************************)
(* The connectors to vector stores: a query is judged and sent, the rows   *)
(* that come back are judged one after the other, by the engine or by a    *)
(* RetrievedDocValidator (validators/retrieved-doc.ts), and what is left   *)
(* is handed on; rows to be written are judged before any is written.      *)
(*                                                                         *)
(* A record per connector; a row is known by its place in the answer of    *)
(* the store, so that a column of the result is the sequence of the places *)
(* its entries came from.                                                  *)
(***************************************************************************)
EXTENDS Naturals, Sequences, SequencesExt

CONSTANT MaxRows      \* bound: rows of one answer or one write

ASSUME RowsAssumption == MaxRows \in Nat

(* query    what of a query is judged: its text if it has one, its          *)
(*          parameters, or nothing                                          *)
(* engine   the rows are judged by the engine when there is no              *)
(*          RetrievedDocValidator                                           *)
(* blank    a row with nothing to judge passes unjudged                     *)
(* over     what more rows than the limit are: asked for no more, or an     *)
(*          error                                                           *)
(* columns  the answer is a column per attribute, not a record per row      *)
(* writes   rows can be written through the connector, and are judged       *)
Pinecone ==
  [query |-> "parameters", engine |-> TRUE, blank |-> TRUE, over |-> "clamped",
   columns |-> FALSE, writes |-> FALSE]

Qdrant ==
  [query |-> "nothing", engine |-> TRUE, blank |-> FALSE, over |-> "clamped",
   columns |-> FALSE, writes |-> TRUE]

Weaviate ==
  [query |-> "text", engine |-> TRUE, blank |-> FALSE, over |-> "clamped",
   columns |-> FALSE, writes |-> FALSE]

Chroma ==
  [query |-> "text", engine |-> TRUE, blank |-> FALSE, over |-> "clamped",
   columns |-> TRUE, writes |-> TRUE]

Lance ==
  [query |-> "nothing", engine |-> FALSE, blank |-> FALSE, over |-> "error",
   columns |-> FALSE, writes |-> TRUE]

Turbopuffer ==
  [query |-> "nothing", engine |-> FALSE, blank |-> FALSE, over |-> "error",
   columns |-> FALSE, writes |-> TRUE]

Connectors == {Pinecone, Qdrant, Weaviate, Chroma, Lance, Turbopuffer}

(* Who judges the rows, and what becomes of a refused one.                  *)
Ways == {"nobody", "filter", "abort", "drop", "block-all", "redact"}

(* A row may have nothing to judge, and may have no metadata.               *)
Rows == [blank : BOOLEAN, described : BOOLEAN]

VARIABLES
  connector, way,
  phase,           \* where the call is
  rows,            \* the rows of the answer, or of the write
  place,           \* the rows judged so far
  verdicts,        \* history: what became of each of them
  kept,            \* the documents that stay, by their places
  described,       \* the column of their metadata
  redacted,        \* the places whose text is replaced
  blockedCount          \* the count that is reported

storeVars == <<connector, way, phase, rows, place, verdicts, kept, described, redacted, blockedCount>>

StoreInit ==
  /\ connector \in Connectors
  /\ way \in {w \in Ways : w \in {"filter", "abort"} => connector.engine}
  /\ phase = "asking"
  /\ rows = <<>> /\ place = 0 /\ verdicts = <<>>
  /\ kept = <<>> /\ described = <<>> /\ redacted = {} /\ blockedCount = 0
-----------------------------------------------------------------------------
(* The query is refused by its form, its filter or its judgement, or sent;  *)
(* the store answers, or fails.                                             *)
Query(answer) ==
  /\ phase = "asking"
  /\ rows' = answer
  /\ phase' \in {"rows", "thrown"}
  /\ UNCHANGED <<connector, way, place, verdicts, kept, described, redacted, blockedCount>>

(* More rows than maxResultCount, from a store that is not told a limit.    *)
TooManyRows ==
  /\ phase = "rows" /\ place = 0 /\ connector.over = "error"
  /\ phase' = "thrown"
  /\ UNCHANGED <<connector, way, rows, place, verdicts, kept, described, redacted, blockedCount>>

Stays(i) ==
  /\ kept' = Append(kept, i)
  /\ described' = IF rows[i].described \/ way \notin {"filter", "abort"}
                  THEN Append(described, i) ELSE described

Goes == UNCHANGED <<kept, described>>

(* What became of row i: allowed, or refused, which drops it or has its     *)
(* text replaced.                                                           *)
AllowRow(i) ==
  /\ verdicts' = Append(verdicts, "allowed")
  /\ Stays(i) /\ UNCHANGED <<redacted, blockedCount, phase>>

RefuseRow(i) ==
  /\ verdicts' = Append(verdicts, "refused")
  /\ blockedCount' = blockedCount + 1
  /\ CASE way \in {"filter", "drop"} -> Goes /\ UNCHANGED <<redacted, phase>>
       [] way \in {"abort", "block-all"} -> Goes /\ phase' = "thrown" /\ UNCHANGED redacted
       [] way = "redact" -> /\ Stays(i) /\ UNCHANGED phase
                            /\ redacted' = IF connector.columns THEN redacted \cup {i}
                                           ELSE redacted

(* The loop over the rows: one await each.                                  *)
JudgeRow ==
  /\ phase = "rows" /\ way # "nobody" /\ place < Len(rows)
  /\ place' = place + 1
  /\ \/ AllowRow(place')
     \/ ~(rows[place'].blank /\ connector.blank /\ way \in {"filter", "abort"}) /\ RefuseRow(place')
  /\ UNCHANGED <<connector, way, rows>>

PassAll ==
  /\ phase = "rows" /\ way = "nobody" /\ place = 0
  /\ place' = Len(rows)
  /\ verdicts' = [i \in 1 .. Len(rows) |-> "allowed"]
  /\ kept' = [i \in 1 .. Len(rows) |-> i]
  /\ described' = kept'
  /\ phase' = "done"
  /\ UNCHANGED <<connector, way, rows, redacted, blockedCount>>

HandOver ==
  /\ phase = "rows" /\ place = Len(rows) /\ way # "nobody"
  /\ phase' = "done"
  /\ UNCHANGED <<connector, way, rows, place, verdicts, kept, described, redacted, blockedCount>>

(* Mutant: as many distances as documents are left.                         *)
FirstDistances == [k \in 1 .. Len(kept) |-> k]

(* Chroma's column of distances, by the indices of the documents that are   *)
(* left.                                                                    *)
Distances ==
  IF Len(kept) < Len(rows) THEN [k \in 1 .. Len(kept) |-> kept[k]]
  ELSE [k \in 1 .. Len(rows) |-> k]

(* The column of embeddings is handed on as the store gave it.              *)
Embeddings == [k \in 1 .. Len(rows) |-> k]
-----------------------------------------------------------------------------
(* A write: each row is judged before the store is called, and the first    *)
(* that is refused ends it.                                                 *)
StartWrite(input) ==
  /\ phase = "asking" /\ connector.writes
  /\ rows' = input /\ phase' = "writing"
  /\ UNCHANGED <<connector, way, place, verdicts, kept, described, redacted, blockedCount>>

JudgeWrite ==
  /\ phase = "writing" /\ place < Len(rows)
  /\ place' = place + 1
  /\ \/ verdicts' = Append(verdicts, "allowed") /\ kept' = Append(kept, place') /\ UNCHANGED phase
     \/ verdicts' = Append(verdicts, "refused") /\ phase' = "thrown" /\ UNCHANGED kept
  /\ UNCHANGED <<connector, way, rows, described, redacted, blockedCount>>

Write ==
  /\ phase = "writing" /\ place = Len(rows)
  /\ phase' = "written"
  /\ UNCHANGED <<connector, way, rows, place, verdicts, kept, described, redacted, blockedCount>>

StoreNext ==
  \/ \E n \in 0 .. MaxRows : \E s \in [1 .. n -> Rows] : Query(s) \/ StartWrite(s)
  \/ TooManyRows \/ JudgeRow \/ PassAll \/ HandOver \/ JudgeWrite \/ Write

StoreSpec == StoreInit /\ [][StoreNext]_storeVars
-----------------------------------------------------------------------------
AllowedRows == {i \in 1 .. Len(rows) : verdicts[i] = "allowed"}

RefusedRows == {i \in 1 .. Len(rows) : verdicts[i] = "refused"}

(* What the application gets from a query is the allowed rows in their      *)
(* order, or all of them when refused ones are redacted, and the count is   *)
(* right.  Of Chroma's columns the distances speak of the documents, the    *)
(* metadata do if each of those has some, and the embeddings only if no row *)
(* was dropped (guarded-chroma.ts:524, 606-620; see ColumnsAgree).  A write *)
(* is all or nothing.                                                       *)
AnswerAgrees ==
  /\ ToSet(kept) = IF way = "redact" THEN 1 .. Len(rows) ELSE AllowedRows
  /\ \A j, k \in DOMAIN kept : j < k => kept[j] < kept[k]
  /\ blockedCount = Cardinality(RefusedRows)
  /\ Distances = kept
  /\ (\A k \in DOMAIN kept : rows[kept[k]].described) => described = kept
  /\ Embeddings = kept <=> way = "redact" \/ RefusedRows = {}
  /\ connector.columns => redacted = IF way = "redact" THEN RefusedRows ELSE {}

ResultsAgree ==
  /\ phase = "done" => AnswerAgrees
  /\ phase = "written" => RefusedRows = {}

(* guarded-chroma.ts:610: distances are filtered "for accurate mapping";    *)
(* the columns of metadata and of embeddings are the mapping's other sides. *)
ColumnsAgree ==
  phase = "done" /\ connector.columns => described = kept /\ Embeddings = kept

(* pinecone-connector/src/types.ts:96: the batch validator "Supports the    *)
(* drop / block-all / redact failure modes".                                *)
RefusedTextIsRedacted == phase = "done" /\ way = "redact" => redacted = RefusedRows
=============================================================================
