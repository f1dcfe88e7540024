------------------------------- MODULE Policy -------------------------------
(***************************************************************************)
(* The egress policy, boundary/policy.py: labels of a plan's steps and the *)
(* decision to let its result out.                                         *)
(*                                                                         *)
(* A step is a record with an id and a type; an aggregate or present step  *)
(* names the step it reads in "input"; a query step has a template.  Of a  *)
(* template's text the policy sees what its two expressions match:         *)
(*   refs   the sequence of what follows each FROM or JOIN: a table name,  *)
(*          or Opaque where no identifier follows (a subquery, a quoted    *)
(*          name);                                                         *)
(*   comma  whether a FROM-list goes on after a comma.                     *)
(* The matching of SQL text is not modelled: what is checked is what is    *)
(* decided from the matches.                                               *)
(***************************************************************************)
EXTENDS Labels, Sequences

(* What a FROM or JOIN without a plain identifier refers to. *)
Opaque == "(opaque)"

(* The label of a step that reads a step the plan does not have: a KeyError. *)
Dangling == -1

(* Mutant of TableLabel: a column's annotation says nothing of its table. *)
TableLabelOwn(table) == ParseOrRestricted(table.label)

(***************************************************************************)
(* A table's label: the running maximum over its own and its columns'      *)
(* labels, so a column may raise the table's label and never lowers it.    *)
(***************************************************************************)
TableLabel(table) ==
  Max({ParseOrRestricted(table.label)}
        \cup { ParseOrRestricted(table.columns[c]) : c \in DOMAIN table.columns })

(* The scan gives up on a comma-join and on any reference it cannot resolve. *)
Resolvable(template) ==
  /\ ~template.comma
  /\ \A i \in DOMAIN template.refs : template.refs[i] # Opaque

(* Mutant of ReferencedTables: the scan ends at the first reference. *)
FirstTable(template) == { template.refs[i] : i \in DOMAIN template.refs \cap {1} }

ReferencedTables(template) == { template.refs[i] : i \in DOMAIN template.refs }

(* The label of a query's result: unresolvable, empty or unknown is restricted. *)
QueryLabel(template, schema) ==
  IF \/ ~Resolvable(template)
     \/ template.refs = << >>
     \/ ~(ReferencedTables(template) \subseteq DOMAIN schema)
  THEN Restricted
  ELSE Max({ TableLabel(schema[t]) : t \in ReferencedTables(template) })

(***************************************************************************)
(* The position of the step whose result step i finds under its input's    *)
(* id: results are kept in a dictionary by id, so the last step before i   *)
(* with that id, or 0 when there is none.                                  *)
(***************************************************************************)
InputOf(steps, i) ==
  Max({0} \cup { j \in 1 .. i - 1 : steps[j].id = steps[i].input })

(* Queries are labelled by the scan, every other step inherits its input's label. *)
StepLabels(steps, schema) ==
  LET label[i \in 0 .. Len(steps)] ==
        CASE i = 0 -> Dangling
          [] i > 0 /\ steps[i].type = "query" -> QueryLabel(steps[i].template, schema)
          [] i > 0 /\ steps[i].type # "query" -> label[InputOf(steps, i)]
  IN  [i \in DOMAIN steps |-> label[i]]

Decision(allow, label, reason) ==
  [allow |-> allow, plan_label |-> label, reason_code |-> reason]

Deny(reason) == Decision(FALSE, "none", reason)

(* Mutant of Evaluate: the label may be one above the clearance. *)
EvaluateOffByOne(steps, schema, clearance) ==
  LET last == StepLabels(steps, schema)[Len(steps)]
  IN  IF last <= Levels[clearance] + 1
      THEN Decision(TRUE, NameOf(last), "allow")
      ELSE Decision(FALSE, NameOf(last), "label_exceeds_clearance")

(***************************************************************************)
(* The decision on a validated plan.  The label that counts is the last    *)
(* step's; a plan without steps is an internal fault, and a fault denies.  *)
(***************************************************************************)
Evaluate(steps, schema, clearance) ==
  LET labels == StepLabels(steps, schema)
      last   == labels[Len(steps)]
  IN  CASE clearance \notin LevelNames -> Deny("unknown_clearance")
        [] clearance \in LevelNames /\ (\E i \in DOMAIN steps : labels[i] = Dangling)
             -> Deny("missing_step")
        [] clearance \in LevelNames /\ steps = << >> -> Deny("policy_error")
        [] OTHER ->
             IF last <= Levels[clearance]
             THEN Decision(TRUE, NameOf(last), "allow")
             ELSE Decision(FALSE, NameOf(last), "label_exceeds_clearance")

=============================================================================
