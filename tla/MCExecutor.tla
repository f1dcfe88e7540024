----------------------------- MODULE MCExecutor -----------------------------
(***************************************************************************)
(* Small instances of Executor: plans with no, one and two aggregations,   *)
(* plans that should not have got this far, and results of up to four rows *)
(* over two regions, with nulls, amounts and objects.                      *)
(***************************************************************************)
EXTENDS Executor

QueryWith(id, table, params) ==
  [ id |-> id, type |-> "query", params |-> params,
    template |-> [ refs |-> << table >>, comma |-> FALSE, select |-> TRUE,
                   lexical |-> {}, placeholders |-> DOMAIN params, stray |-> FALSE ] ]

Query(id, table) == QueryWith(id, table, << >>)

Present(id, input) == [id |-> id, type |-> "present", input |-> input]

Since(type, kind) == << QueryWith(1, "orders", [since |-> [type |-> type, kind |-> kind]]), Present(2, 1) >>

Op(op, column, as) == [op |-> op, column |-> column, as |-> as]

Aggregation(id, input, by, ops) ==
  [id |-> id, type |-> "aggregate", input |-> input, group_by |-> by, ops |-> ops]

Count == << Op("count", "*", "n") >>

RawPlan == << Query(1, "orders"), Present(2, 1) >>

(* The second query is read, and the first one's rows are presented. *)
PerRegion ==
  << Query(1, "orders"), Query(2, "customers"), Aggregation(3, 1, << "region" >>, Count),
     Present(4, 3) >>

Totals ==
  << Query(1, "orders"),
     Aggregation(2, 1, << "region" >>, << Op("sum", "amount", "total"), Op("avg", "amount", "mean") >>),
     Present(3, 2) >>

Extremes ==
  << Query(1, "orders"),
     Aggregation(2, 1, << >>, << Op("min", "amount", "low"), Op("max", "region", "high"),
                                 Op("count", "amount", "n") >>),
     Present(3, 2) >>

(* How many regions have each count: an aggregate of an aggregate. *)
CountOfCounts ==
  << Query(1, "orders"), Aggregation(2, 1, << "region" >>, Count),
     Aggregation(3, 2, << "n" >>, Count), Present(4, 3) >>

WrongColumn ==
  << Query(1, "orders"), Aggregation(2, 1, << "area" >>, Count), Present(3, 2) >>

(* Plans that the validator refuses. *)
Invalid ==
  { << Query(1, "orders"), Aggregation(2, 3, << >>, Count), Present(3, 2) >>,
    << Query(1, "orders"), Aggregation(2, 1, << >>, Count) >>,
    << Present(1, 1) >>, Since("date", "instant"), Since("timestamp", "text") }

AllPlans == {RawPlan, Since("timestamp", "day"), PerRegion, Totals, Extremes, CountOfCounts, WrongColumn} \cup Invalid

OrdersPlans == {RawPlan}

Names == << "region", "amount" >>

Region(n) == Value("text", n)

Row(region, amount) == [cells |-> << region, amount >>, weight |-> 1]

SomeRows ==
  << Row(Region(1), Value("number", 5)), Row(Region(2), Value("number", 5)),
     Row(Null, Value("number", 7)), Row(Region(1), Null) >>

OddRows ==
  << Row(Region(1), Value("number", 5)), Row(Value("object", 1), Value("number", 5)),
     Row(Region(1), Value("object", 1)) >>

(* The tables of up to n of these rows: their order is of no interest. *)
TablesOf(rows, n) ==
  { [ i \in DOMAIN pick |-> rows[pick[i]] ] :
      pick \in { p \in UNION { [1 .. m -> DOMAIN rows] : m \in 0 .. n } :
                  \A i \in 1 .. Len(p) - 1 : p[i] <= p[i + 1] } }

(* Two rows of each of two kinds, so that two groups of two survive. *)
Pairs(rows) == { << rows[i], rows[i], rows[j], rows[j] >> : i, j \in DOMAIN rows }

OrdersTables ==
  TablesOf(SomeRows, 3) \cup Pairs(SomeRows) \cup TablesOf(OddRows, 2)
    \cup TablesOf(<< SomeRows[1] >>, 5)

(* The orders vary; the customers have one row, of no interest. *)
Tables(template) ==
  IF template.refs = << "orders" >> THEN OrdersTables ELSE { << SomeRows[1] >> }

SmallTables(template) == TablesOf(<< SomeRows[4] >>, 2)

(* A threshold that would disable the guard. *)
Zero == Number(0)

Catalogue(comment, column) ==
  [ orders    |-> [comment |-> comment, columns |-> [region |-> column]],
    customers |-> [comment |-> "internal", columns |-> [email |-> "unannotated"]] ]

Catalogues == {Catalogue("public", "internal"), Catalogue("unannotated", "public")}

Postgres == {Capabilities}

AllAdapters ==
  {Capabilities, [Capabilities EXCEPT !.read_only = FALSE], [Capabilities EXCEPT !.dsl_versions = {"v1"}]}

=============================================================================
