----------------------------- MODULE Aggregation -----------------------------
(***************************************************************************)
(* The in-boundary aggregation of executor/runner.py.                      *)
(*                                                                         *)
(* A result has columns (a sequence of names), rows and a label; a row has *)
(* cells, one for each column.  A cell is a value: a kind and a number     *)
(* that tells values of the kind apart.  "text" stands for every kind that *)
(* can be ordered and not added up, "object" for a kind that can be        *)
(* neither ordered nor hashed (a json object).                             *)
(*                                                                         *)
(* A row's weight is observation only: the number of rows of the query's   *)
(* result that it was computed from.                                       *)
(***************************************************************************)
EXTENDS Guards, FiniteSetsExt

Value(kind, n) == [kind |-> kind, n |-> n]

Null == Value("null", 0)

Result(columns, rows, label) == [columns |-> columns, rows |-> rows, label |-> label]

(* Of columns with one name, the last counts. *)
IndexOf(columns, name) == Max({ i \in DOMAIN columns : columns[i] = name })

Cell(result, row, name) == row.cells[IndexOf(result.columns, name)]

(* The key of a row's group. *)
KeyOf(step, source, row) ==
  [ i \in DOMAIN step.group_by |-> Cell(source, row, step.group_by[i]) ]

(* Mutant of GroupKeys: rows with a null in their key belong to no group. *)
GroupKeysNotNull(step, source) ==
  { key \in { KeyOf(step, source, source.rows[n]) : n \in DOMAIN source.rows } :
      \A i \in DOMAIN key : key[i] # Null }

(* A global aggregate over an empty result still has its one group. *)
GroupKeys(step, source) ==
  { KeyOf(step, source, source.rows[n]) : n \in DOMAIN source.rows }
  \cup (IF step.group_by = << >> THEN {<< >>} ELSE {})

(* The rows of a group, as positions in the source. *)
Members(step, source, key) ==
  { n \in DOMAIN source.rows : KeyOf(step, source, source.rows[n]) = key }

(* The cells an operation other than count("*") looks at: nulls are left out. *)
CellsOf(op, source, members) ==
  { n \in members : Cell(source, source.rows[n], op.column) # Null }

Kinds(op, source, members) ==
  { Cell(source, source.rows[n], op.column).kind : n \in CellsOf(op, source, members) }

Total(op, source, members) ==
  MapThenSumSet(LAMBDA n : Cell(source, source.rows[n], op.column).n,
                CellsOf(op, source, members))

Extreme(op, source, members) ==
  LET numbers == { Cell(source, source.rows[n], op.column).n : n \in CellsOf(op, source, members) }
      kind    == CHOOSE k \in Kinds(op, source, members) : TRUE
  IN  Value(kind, IF op.op = "min" THEN Min(numbers) ELSE Max(numbers))

(* One operation over one group; an average is rounded down here. *)
Compute(op, source, members) ==
  LET cells == CellsOf(op, source, members)
  IN  CASE op.op = "count" ->
             Value("number", Cardinality(IF op.column = "*" THEN members ELSE cells))
        [] op.op = "sum" -> Value("number", Total(op, source, members))
        [] op.op = "avg" ->
             IF cells = {} THEN Null
             ELSE Value("number", Total(op, source, members) \div Cardinality(cells))
        [] OTHER -> IF cells = {} THEN Null ELSE Extreme(op, source, members)

(***************************************************************************)
(* Why the aggregation raises, if it does.  The first two are its own      *)
(* errors over a group's cells; "TypeError" is Python's, for a key that    *)
(* cannot be hashed, which the executor reports as its own fault.          *)
(***************************************************************************)
OpErrors(op, source, members) ==
  { c \in {"non_numeric_aggregate"} :
      op.op \in {"sum", "avg"} /\ ~(Kinds(op, source, members) \subseteq {"number"}) }
  \cup
  { c \in {"incomparable_values"} :
      /\ op.op \in {"min", "max"}
      /\ Cardinality(CellsOf(op, source, members)) > 1
      /\ \/ Cardinality(Kinds(op, source, members)) > 1
         \/ "object" \in Kinds(op, source, members) }

ColumnsNamed(step) ==
  { step.group_by[i] : i \in DOMAIN step.group_by }
  \cup { step.ops[i].column : i \in { j \in DOMAIN step.ops : step.ops[j].column # "*" } }

AggregateErrors(step, source) ==
  LET keys == GroupKeys(step, source) IN
  IF ~(ColumnsNamed(step) \subseteq { source.columns[i] : i \in DOMAIN source.columns })
  THEN {"unknown_column"}
  ELSE IF \E key \in keys : \E i \in DOMAIN key : key[i].kind = "object"
  THEN {"TypeError"}
  ELSE UNION { OpErrors(step.ops[i], source, Members(step, source, key))
                 : i \in DOMAIN step.ops, key \in keys }

WeightOf(source, members) == MapThenSumSet(LAMBDA n : source.rows[n].weight, members)

(* Mutant of Aggregate: what was aggregated is public. *)
AggregateDeclassifying(step, source, k) ==
  LET keys  == SetToSeq(GroupKeys(step, source))
      group == [ i \in DOMAIN keys |-> Members(step, source, keys[i]) ]
      rows  == [ i \in DOMAIN keys |->
                   [ cells  |-> keys[i] \o [ j \in DOMAIN step.ops |->
                                               Compute(step.ops[j], source, group[i]) ],
                     weight |-> WeightOf(source, group[i]) ] ]
      kept  == SuppressSmallGroups(rows, [ i \in DOMAIN keys |-> Cardinality(group[i]) ], k)
  IN  [ result |-> Result(step.group_by \o [ j \in DOMAIN step.ops |-> step.ops[j].as ],
                          kept.rows, "public"),
        suppressed |-> kept.suppressed ]

(***************************************************************************)
(* The result of an aggregate step that raises nothing, and the number of  *)
(* groups that were too small.  The label is the source's.  (The code      *)
(* sorts the groups; their order is left open here.)                       *)
(***************************************************************************)
Aggregate(step, source, k) ==
  LET keys  == SetToSeq(GroupKeys(step, source))
      group == [ i \in DOMAIN keys |-> Members(step, source, keys[i]) ]
      rows  == [ i \in DOMAIN keys |->
                   [ cells  |-> keys[i] \o [ j \in DOMAIN step.ops |->
                                               Compute(step.ops[j], source, group[i]) ],
                     weight |-> WeightOf(source, group[i]) ] ]
      kept  == SuppressSmallGroups(rows, [ i \in DOMAIN keys |-> Cardinality(group[i]) ], k)
  IN  [ result |-> Result(step.group_by \o [ j \in DOMAIN step.ops |-> step.ops[j].as ],
                          kept.rows, source.label),
        suppressed |-> kept.suppressed ]

=============================================================================
