------------------------------- MODULE Labels -------------------------------
(***************************************************************************)
(* Sensitivity labels and the annotated schema they live in.               *)
(*                                                                         *)
(* The four levels are boundary/policy.py's Label.  The source is the      *)
(* catalogue of the database: its tables and columns carry comments, and a *)
(* comment of the form "label:<level> ..." is an annotation.  The Postgres *)
(* adapter turns the catalogue into an AnnotatedSchema                     *)
(* (executor/adapters/postgres.py), which contract.py reshapes into the    *)
(* dictionary that the policy reads.                                       *)
(*                                                                         *)
(* A comment is represented by what the label parser can tell of it: the   *)
(* level name after its "label:" prefix, or any other string when there is *)
(* no such prefix.                                                         *)
(***************************************************************************)
EXTENDS Integers, FiniteSetsExt

(* The level names and their order, label-model's total order. *)
Levels == [public |-> 0, internal |-> 1, confidential |-> 2, restricted |-> 3]

LevelNames == DOMAIN Levels

Label == 0 .. 3

Restricted == 3

NameOf(l) == CHOOSE n \in LevelNames : Levels[n] = l

(* A missing or unknown raw label degrades upward. *)
ParseOrRestricted(raw) == IF raw \in LevelNames THEN Levels[raw] ELSE Restricted

-----------------------------------------------------------------------------
(* The adapter's side: catalogue -> annotated schema -> dictionary.        *)

(* Mutant of ParseLabel: what is not annotated is internal. *)
ParseLabelOpen(comment) == IF comment \in LevelNames THEN comment ELSE "internal"

(* The label a source comment stands for. *)
ParseLabel(comment) == IF comment \in LevelNames THEN comment ELSE "restricted"

(* The catalogue's query joins tables with their columns: a table without any has no row. *)
Catalogued(source) == { t \in DOMAIN source : DOMAIN source[t].columns # {} }

(***************************************************************************)
(* source is a function from table names to [comment, columns], columns a  *)
(* function from column names to comments.  The annotated schema keeps the *)
(* names (they are unique in both) and gives each table and each column    *)
(* its label, beside the comment that the planner gets to see.             *)
(***************************************************************************)
ReadSchema(source) ==
  [ t \in Catalogued(source) |->
      [ label   |-> ParseLabel(source[t].comment),
        comment |-> source[t].comment,
        columns |-> [ c \in DOMAIN source[t].columns |->
                        [ label   |-> ParseLabel(source[t].columns[c]),
                          comment |-> source[t].columns[c] ] ] ] ]

(* The plain shape boundary/policy.py consumes: labels and nothing else. *)
SchemaLabels(schema) ==
  [ t \in DOMAIN schema |->
      [ label   |-> schema[t].label,
        columns |-> [ c \in DOMAIN schema[t].columns |-> schema[t].columns[c].label ] ] ]

=============================================================================
