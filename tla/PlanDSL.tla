------------------------------- MODULE PlanDSL -------------------------------
(***************************************************************************)
(* Plan DSL v0 and its validator (boundary/validator.py, plan_schema.json).*)
(*                                                                         *)
(* A step has an id and a type, and by type:                               *)
(*   query      a template and params;                                     *)
(*   aggregate  an input, group_by (a sequence of columns) and ops (a      *)
(*              sequence of [op, column, as]);                             *)
(*   present    an input.                                                  *)
(* The id "s<n>" is the number n; any other id is 0.  To what the policy   *)
(* sees of a template (Policy) the validator's own expressions add:        *)
(*   select        whether it begins with SELECT;                          *)
(*   lexical       what it has of semicolons, comments, braces and         *)
(*                 forbidden keywords, by the code reported for it;        *)
(*   placeholders  the names in %(name)s placeholders;                     *)
(*   stray         whether there is a % anywhere else.                     *)
(* A parameter is a declared type and a value, of which its kind is kept.  *)
(***************************************************************************)
EXTENDS Policy

StepTypes == {"query", "aggregate", "present"}

LexicalCodes ==
  {"multi_statement", "comment_forbidden", "interpolation_forbidden", "forbidden_keyword"}

ParamTypes == {"string", "int", "float", "bool", "date", "timestamp"}

(* "day" and "instant" are strings that spell a date and a date with a time. *)
ValueKinds == {"text", "day", "instant", "int", "float", "bool"}

MaxSteps == 10
MaxParams == 20
MaxColumns == 10

(* The kinds of value a declared type admits; a bool is no number. *)
KindsOf ==
  [ string    |-> {"text", "day", "instant"},
    int       |-> {"int"},
    float     |-> {"int", "float"},
    bool      |-> {"bool"},
    date      |-> {"day"},
    timestamp |-> {"day", "instant"} ]

(* Mutant of ParamValueMatches: a date may come with a time. *)
ParamValueIsText(spec) ==
  \/ spec.kind \in KindsOf[spec.type]
  \/ spec.type = "date" /\ spec.kind = "instant"

ParamValueMatches(spec) == spec.kind \in KindsOf[spec.type]

(* Whether the adapter's _convert_param gets a date, or a date and time, out of the value. *)
Converts(spec) ==
  /\ spec.type = "date" => spec.kind = "day"
  /\ spec.type = "timestamp" => spec.kind \in {"day", "instant"}

(***************************************************************************)
(* What the JSON schema says of the steps' sizes; that each is a step of   *)
(* one of the three shapes is left to the shapes of the records here.      *)
(***************************************************************************)
SchemaAdmits(steps) ==
  /\ Len(steps) \in 1 .. MaxSteps
  /\ \A i \in DOMAIN steps :
       /\ steps[i].type = "query" => Cardinality(DOMAIN steps[i].params) <= MaxParams
       /\ steps[i].type = "aggregate" =>
            Len(steps[i].ops) \in 1 .. MaxColumns /\ Len(steps[i].group_by) <= MaxColumns

(* The codes reported for a query step's template and parameters. *)
TemplateErrors(step) ==
  LET template == step.template
      declared == DOMAIN step.params
  IN  template.lexical
      \cup { c \in {"template_not_select"} : ~template.select }
      \cup { c \in {"invalid_placeholder"} : template.stray }
      \cup { c \in {"undeclared_param"} : ~(template.placeholders \subseteq declared) }
      \cup { c \in {"unused_param"} : ~(declared \subseteq template.placeholders) }
      \cup { c \in {"param_type_mismatch"} :
               \E name \in declared : ~ParamValueMatches(step.params[name]) }

(* Mutant of SeenBefore: any step of the plan will do. *)
SeenAnywhere(steps, i) == { steps[j].id : j \in DOMAIN steps }

(* The ids of the steps before step i. *)
SeenBefore(steps, i) == { steps[j].id : j \in 1 .. i - 1 }

StepErrors(steps, i) ==
  LET step == steps[i]
  IN  { c \in {"bad_reference"} :
          step.type # "query" /\ step.input \notin SeenBefore(steps, i) }
      \cup { c \in {"invalid_aggregate_column"} :
               /\ step.type = "aggregate"
               /\ \E j \in DOMAIN step.ops : step.ops[j].column = "*" /\ step.ops[j].op # "count" }
      \cup (IF step.type = "query" THEN TemplateErrors(step) ELSE {})

(* Mutant of PresentPlaced: a present step comes last, others may come before. *)
PresentLast(steps) == steps[Len(steps)].type = "present"

(* Exactly one present step, in final position. *)
PresentPlaced(steps) == { i \in DOMAIN steps : steps[i].type = "present" } = {Len(steps)}

StructuralErrors(steps) ==
  { c \in {"step_id_sequence"} : \E i \in DOMAIN steps : steps[i].id # i }
  \cup { c \in {"present_misplaced"} : ~PresentPlaced(steps) }
  \cup UNION { StepErrors(steps, i) : i \in DOMAIN steps }

(* validate_plan: the structure is looked at only when the schema is satisfied. *)
ValidationCodes(steps) ==
  IF SchemaAdmits(steps) THEN StructuralErrors(steps) ELSE {"schema_violation"}

ValidPlan(steps) == ValidationCodes(steps) = {}

(* The positions a step's result is computed from, itself included. *)
Uses(steps, i) ==
  LET reached[n \in 0 .. Len(steps)] ==
        IF n = 0 THEN {i}
        ELSE reached[n - 1]
             \cup { j \in DOMAIN steps : \E k \in reached[n - 1] :
                      steps[k].type # "query" /\ steps[j].id = steps[k].input }
  IN  reached[Len(steps)]

=============================================================================
