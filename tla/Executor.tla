------------------------------ MODULE Executor ------------------------------
(***************************************************************************)
(* The executor: run_plan of executor/runner.py with the Postgres adapter  *)
(* (executor/adapters/postgres.py), step by step of a plan.                *)
(*                                                                         *)
(* The database is external.  Each query step opens a connection of its    *)
(* own and sends two statements, the first for the labels and the second   *)
(* the plan's; under Postgres's default isolation each statement sees what *)
(* is committed when it starts.  Meanwhile people relabel the source.      *)
(***************************************************************************)
EXTENDS PlanDSL, Aggregation

CONSTANTS
  Plans,        \* what approve may hand over, validated or not
  Sources,      \* the annotated catalogues the source can have
  RowsOf(_),    \* the results the source can give to a query's template
  Columns,      \* their columns
  Adapters,     \* the capabilities an adapter can report
  RawK,         \* FONDACO_GUARD_K: Blank, Garbage or a Number (Guards)
  DefaultK,     \* the threshold when that is no use
  MaxRows,      \* the adapter's max_rows
  MaxRelabels   \* bound: changes of the source's annotations

Version == "v0"

(* A list of steps, whose templates refer to tables by name and whose aggregates name columns. *)
ASSUME PlansAreLists ==
  \A steps \in Plans :
    /\ Len(steps) \in Nat /\ DOMAIN steps = 1 .. Len(steps)
    /\ \A i \in DOMAIN steps :
         /\ steps[i].type = "query" => steps[i].template.refs \in Seq(STRING)
         /\ steps[i].type = "aggregate" =>
              /\ steps[i].group_by \in Seq(STRING)
              /\ Len(steps[i].ops) \in Nat /\ DOMAIN steps[i].ops = 1 .. Len(steps[i].ops)

(* A result has a cell for each of the columns; each of its rows is one row of the source. *)
ASSUME RowsAreRows ==
  \A steps \in Plans : \A i \in DOMAIN steps :
    steps[i].type = "query" =>
      \A rows \in RowsOf(steps[i].template) :
        /\ Len(rows) \in Nat /\ DOMAIN rows = 1 .. Len(rows)
        /\ \A n \in DOMAIN rows : Len(rows[n].cells) = Len(Columns) /\ rows[n].weight = 1

ASSUME RawIsNumber == RawK.value \in Int

ASSUME DefaultIsPositive == DefaultK \in Nat \ {0}

(* config_from_env: the threshold cannot be configured away. *)
K == PositiveInt(RawK, DefaultK)

VARIABLES
  plan,        \* the plan's steps
  adapter,     \* what the adapter reports of itself
  pc,          \* "start", "step", "rows" or "done"
  pos,         \* the step being run
  label,       \* the label read for it, or NoLabel
  results,     \* the results so far, by step id
  suppressed,  \* groups dropped so far
  outcome,     \* how the run ended: a code, and a result for "ok"
  source,      \* the annotations of the data source
  (* Observation only. *)
  started,     \* the annotations when the run started
  tagged,      \* by step id: the annotations its rows were read under
  relabels

vars == << plan, adapter, pc, pos, label, results, suppressed, outcome, source,
           started, tagged, relabels >>

(* The kinds of an AdapterError here; the first is one of execution, of which it is the cause. *)
AdapterErrors == {"invalid_params", "connection", "timeout", "execution", "limit_exceeded"}

(* What the adapter says of itself. *)
Capabilities == [read_only |-> TRUE, dsl_versions |-> {Version}]

NoLabel == "no_label"

NoResult == Result(<< >>, << >>, NoLabel)

Step == plan[pos]

Outcome(code, result) == [code |-> code, result |-> result]

Init ==
  /\ plan \in Plans
  /\ adapter \in Adapters
  /\ pc = "start"
  /\ pos = 1
  /\ label = NoLabel
  /\ results = << >>
  /\ suppressed = 0
  /\ outcome = Outcome("none", NoResult)
  /\ source \in Sources
  /\ started = source
  /\ tagged = << >>
  /\ relabels = 0

(* Mutant of Raise: what the step before computed is handed out. *)
RaisePartial(code) ==
  /\ pc' = "done"
  /\ outcome' = Outcome(code, IF pos - 1 \in DOMAIN results THEN results[pos - 1] ELSE NoResult)

(* An ExecutorError leaves run_plan: whatever was computed is dropped. *)
Raise(code) ==
  /\ pc' = "done"
  /\ outcome' = Outcome(code, NoResult)

-----------------------------------------------------------------------------
(* Mutant of Start: a plan that was validated once is trusted. *)
StartTrusting ==
  /\ pc = "start"
  /\ IF ~adapter.read_only THEN Raise("adapter_not_read_only")
     ELSE pc' = "step" /\ UNCHANGED outcome
  /\ started' = source
  /\ UNCHANGED << plan, adapter, pos, label, results, suppressed, source, tagged, relabels >>

(* The plan is validated again, and the adapter asked what it is. *)
Start ==
  /\ pc = "start"
  /\ IF ~ValidPlan(plan) THEN Raise("invalid_plan")
     ELSE IF ~adapter.read_only THEN Raise("adapter_not_read_only")
     ELSE IF Version \notin adapter.dsl_versions THEN Raise("dsl_version_unsupported")
     ELSE pc' = "step" /\ UNCHANGED outcome
  /\ started' = source
  /\ UNCHANGED << plan, adapter, pos, label, results, suppressed, source, tagged, relabels >>

(* A dictionary with one more item, or another one under a key that it has. *)
With(items, key, item) ==
  [ k \in DOMAIN items \cup {key} |-> IF k = key THEN item ELSE items[k] ]

(* The step's result is kept under its id, and the loop goes to the next step. *)
Keep(result) ==
  /\ results' = With(results, Step.id, result)
  /\ pos' = pos + 1
  /\ pc' = "step"

(***************************************************************************)
(* Why the loop raises at pos, if it does: it has ended without a present  *)
(* step, a parameter is not what its type says (the adapter connects only  *)
(* after that), a step reads a result that is not there, or an aggregation *)
(* fails.                                                                  *)
(***************************************************************************)
StepFaults ==
  IF pos \notin DOMAIN plan THEN {"no_present_step"}
  ELSE IF Step.type = "query" THEN
    { code \in {"invalid_params"} : \E name \in DOMAIN Step.params : ~Converts(Step.params[name]) }
  ELSE IF Step.input \notin DOMAIN results THEN {"KeyError"}
  ELSE IF Step.type = "aggregate" THEN AggregateErrors(Step, results[Step.input])
  ELSE {}

(* The connection is open; the first statement has read the labels. *)
ReadLabels ==
  /\ pc = "step"
  /\ pos \in DOMAIN plan
  /\ Step.type = "query"
  /\ StepFaults = {}
  /\ label' = NameOf(QueryLabel(Step.template, SchemaLabels(ReadSchema(source))))
  /\ pc' = "rows"
  /\ UNCHANGED << plan, adapter, pos, results, suppressed, outcome, source, started,
                  tagged, relabels >>

(* Mutant of AdapterFails: the step is tried again. *)
AdapterRetries ==
  /\ pc = "rows"
  /\ pc' = "step"
  /\ UNCHANGED << plan, adapter, pos, label, results, suppressed, outcome, source,
                  started, tagged, relabels >>

(* No connection, a statement that is cancelled or fails, or one without a result set. *)
AdapterFails ==
  /\ \/ /\ pc = "step"
        /\ pos \in DOMAIN plan
        /\ Step.type = "query"
        /\ StepFaults = {}
        /\ Raise("connection") \/ Raise("timeout") \/ Raise("execution")
     \/ /\ pc = "rows"
        /\ Raise("timeout") \/ Raise("execution")
  /\ UNCHANGED << plan, adapter, pos, label, results, suppressed, source, started,
                  tagged, relabels >>

(* The plan's own statement; one row more than max_rows is asked for. *)
ReadRows ==
  /\ pc = "rows"
  /\ \E rows \in RowsOf(Step.template) :
       IF Len(rows) > MaxRows
       THEN Raise("limit_exceeded") /\ UNCHANGED << results, pos, tagged >>
       ELSE /\ Keep(Result(Columns, rows, label))
            /\ tagged' = With(tagged, Step.id, source)
            /\ UNCHANGED outcome
  /\ label' = NoLabel
  /\ UNCHANGED << plan, adapter, suppressed, source, started, relabels >>

StepRaises ==
  /\ pc = "step"
  /\ \E code \in StepFaults : Raise(code)
  /\ UNCHANGED << plan, adapter, pos, label, results, suppressed, source, started,
                  tagged, relabels >>

AggregateStep ==
  /\ pc = "step"
  /\ pos \in DOMAIN plan
  /\ Step.type = "aggregate"
  /\ StepFaults = {}
  /\ LET aggregate == Aggregate(Step, results[Step.input], K) IN
       /\ Keep(aggregate.result)
       /\ suppressed' = suppressed + aggregate.suppressed
  /\ UNCHANGED << plan, adapter, label, outcome, source, started, tagged, relabels >>

PresentStep ==
  /\ pc = "step"
  /\ pos \in DOMAIN plan
  /\ Step.type = "present"
  /\ StepFaults = {}
  /\ pc' = "done"
  /\ outcome' = Outcome("ok", results[Step.input])
  /\ UNCHANGED << plan, adapter, pos, label, results, suppressed, source, started,
                  tagged, relabels >>

Relabel ==
  /\ relabels < MaxRelabels
  /\ pc # "done"
  /\ relabels' = relabels + 1
  /\ source' \in Sources \ {source}
  /\ UNCHANGED << plan, adapter, pc, pos, label, results, suppressed, outcome,
                  started, tagged >>

Done == pc = "done" /\ UNCHANGED vars

Run ==
  Start \/ ReadLabels \/ AdapterFails \/ ReadRows
  \/ StepRaises \/ AggregateStep \/ PresentStep

Next == Run \/ Relabel \/ Done

(* Connecting and each statement are bounded by timeouts; the rest is computation. *)
Spec == Init /\ [][Next]_vars /\ WF_vars(Run)

-----------------------------------------------------------------------------
(***************************************************************************)
(*                               Properties                                *)
(***************************************************************************)
OwnErrors ==
  {"invalid_plan", "adapter_not_read_only", "dsl_version_unsupported",
   "unknown_column", "non_numeric_aggregate", "incomparable_values"}

(* An exception of Python's (reported as executor_fault), or no present step. *)
Faults == {"KeyError", "TypeError", "no_present_step"}

RowsOK(result) ==
  \A n \in DOMAIN result.rows :
    /\ Len(result.rows[n].cells) = Len(result.columns)
    /\ result.rows[n].weight \in Nat

(* Every variable has its type, and each row a cell for each of its columns. *)
TypeOK ==
  /\ pc \in {"start", "step", "rows", "done"}
  /\ pos \in 1 .. Len(plan) + 1
  /\ label \in LevelNames \cup {NoLabel}
  /\ \A id \in DOMAIN results : RowsOK(results[id]) /\ results[id].label \in LevelNames
  /\ suppressed \in Nat
  /\ outcome.code \in OwnErrors \cup AdapterErrors \cup Faults \cup {"none", "ok"}
  /\ outcome.code # "ok" => outcome.result = NoResult
  /\ pc = "done" <=> outcome.code # "none"

Final == plan[Len(plan)]

Presented == outcome.result

(* The query step whose rows are presented, and whether they were aggregated. *)
QueryBehind(steps) ==
  LET query[i \in 0 .. Len(steps)] ==
        IF i = 0 \/ steps[i].type = "query" THEN i ELSE query[InputOf(steps, i)]
  IN  query[Len(steps)]

Aggregated == outcome.code = "ok" /\ plan[InputOf(plan, Len(plan))].type = "aggregate"

(***************************************************************************)
(* "Groups backed by fewer than k input rows never leave the boundary"     *)
(* (runner.py): every row that an aggregate presents was computed from at  *)
(* least k rows of the query's result, also when it aggregates another     *)
(* aggregate's rows, and when it aggregates nothing at all.  Here k is     *)
(* what the operator asks for: a number from 1 on, and the default when it *)
(* is "k=0, a negative budget, or garbage" (guards.py), whatever the       *)
(* executor is then given as K.                                            *)
(***************************************************************************)
BackedByK ==
  Aggregated =>
    \A n \in DOMAIN Presented.rows :
      IF RawK.kind = "number" /\ RawK.value >= 1
      THEN Presented.rows[n].weight >= RawK.value
      ELSE Presented.rows[n].weight >= DefaultK

(***************************************************************************)
(* When the guard reports that no group was suppressed, none of the rows   *)
(* of the source is missing from the groups presented: nulls, empty        *)
(* results and second aggregations included.                               *)
(***************************************************************************)
NothingDroppedSilently ==
  Aggregated /\ suppressed = 0 =>
    MapThenSumSet(LAMBDA n : Presented.rows[n].weight, DOMAIN Presented.rows)
      = Len(results[plan[QueryBehind(plan)].id].rows)

(***************************************************************************)
(* "So the two cannot disagree" (label-model.md), as far as it goes: the   *)
(* label of a result is the one the policy gives its plan, unless the      *)
(* source is relabelled while the plan runs.                               *)
(***************************************************************************)
LabelIsThePolicys ==
  outcome.code = "ok" /\ relabels = 0 =>
    \A clearance \in LevelNames :
      Evaluate(plan, SchemaLabels(ReadSchema(started)), clearance).plan_label = Presented.label

(***************************************************************************)
(* A plan that gets past validation never reads a result that is not       *)
(* there, never has a parameter that the adapter cannot convert and never  *)
(* ends without presenting a result: the code's "unreachable if valid" is  *)
(* unreachable, whatever plan is handed over.                              *)
(***************************************************************************)
UnreachableIsUnreachable == outcome.code \notin {"KeyError", "invalid_params", "no_present_step"}

(* The steps that are left at most: a query of the plan is two statements. *)
StepsLeft ==
  CASE pc = "start" -> 2 * Len(plan) + 2
    [] pc = "step"  -> 2 * (Len(plan) + 1 - pos) + 1
    [] pc = "rows"  -> 2 * (Len(plan) + 1 - pos)
    [] OTHER        -> 0

(***************************************************************************)
(* There are fewer steps left after each but an edit of the source: no     *)
(* statement is sent twice, and no step of the plan is run again.          *)
(***************************************************************************)
GetsOn == [][ source' = source => StepsLeft' < StepsLeft ]_vars

(* A run ends, one way or another. *)
Terminates == <>(pc = "done")

(***************************************************************************)
(* "A result can never be tagged with labels from a different snapshot of  *)
(* the schema" (postgres.py, _read_schema).                                *)
(***************************************************************************)
TaggedWithItsSnapshot ==
  outcome.code = "ok" =>
    LET query == plan[QueryBehind(plan)] IN
    Presented.label =
      NameOf(QueryLabel(query.template, SchemaLabels(ReadSchema(tagged[query.id]))))

=============================================================================
