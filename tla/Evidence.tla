----------------------------- MODULE Evidence -----------------------------
(***************************************************************************)
(* The evidence of a decision: the rows of EvidenceEditor, serializeEvidence*)
(* of frontend/src/lib/evidence.ts, and ValidateEvidence of                *)
(* internal/domain/investigation, which decides about what was sent.       *)
(*                                                                         *)
(* A row holds what was typed, trimmed: "" is a blank field; the data is   *)
(* "object", or JSON of another kind ("scalar"), or no JSON ("broken").    *)
(***************************************************************************)
EXTENDS Naturals, Sequences

NoField == ""

NewEvidenceDraft == [type |-> NoField, summary |-> NoField, data |-> NoField]

BlankRow(row) == row = NewEvidenceDraft

(* Mutant: the summary may be missing.                                     *)
RowErrorsButSummary(row) ==
  {f \in {"type"} : row[f] = NoField} \cup {f \in {"data"} : row[f] \notin {NoField, "object"}}

(* The fields of a row that is not blank that an error is reported for.    *)
RowErrors(row) ==
  {f \in {"type", "summary"} : row[f] = NoField}
  \cup {f \in {"data"} : row[f] \notin {NoField, "object"}}

(* An error anywhere keeps everything.                                     *)
SerializationErrors(rows) ==
  {e \in (DOMAIN rows) \X {"type", "summary", "data"} :
     ~BlankRow(rows[e[1]]) /\ e[2] \in RowErrors(rows[e[1]])}

Serializes(rows) == SerializationErrors(rows) = {}

(* Data left blank is left out.                                            *)
Item(row) ==
  IF row.data = NoField
  THEN [type |-> row.type, summary |-> row.summary]
  ELSE row

(* The items pushed for the first n rows: blank rows are dropped.          *)
Pushed(rows) ==
  LET items[n \in 0..Len(rows)] ==
        IF n = 0 THEN <<>>
        ELSE IF BlankRow(rows[n]) THEN items[n - 1]
        ELSE Append(items[n - 1], Item(rows[n]))
  IN  items

Serialized(rows) == Pushed(rows)[Len(rows)]

(* EvidenceItem.Validate, and marshalObject's demand of an object.         *)
ValidItem(item) ==
  /\ item.type # NoField /\ item.summary # NoField
  /\ "data" \in DOMAIN item => item.data = "object"

ValidEvidence(items) == \A i \in DOMAIN items : ValidItem(items[i])

=============================================================================
