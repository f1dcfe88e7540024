-------------------------------- MODULE Demo --------------------------------
(***************************************************************************)
(* The demo: the fixture plans of planner/demo.py and the annotations of   *)
(* the demo dataset (demo/dataset/init/01_schema.sql), put together as     *)
(* docker compose does, at clearance internal.                             *)
(*                                                                         *)
(* Of a fixture's SQL its table and its placeholders are kept, of a        *)
(* present step neither the format nor the title.                          *)
(***************************************************************************)
EXTENDS Planner

Param(type, kind) == [type |-> type, kind |-> kind]

Text == Param("string", "text")

Date == Param("date", "day")

Timestamp == Param("timestamp", "instant")

Query(table, placeholders, params) ==
  [ id |-> 1, type |-> "query", params |-> params,
    template |-> [ refs |-> << table >>, comma |-> FALSE, select |-> TRUE,
                   lexical |-> {}, placeholders |-> placeholders, stray |-> FALSE ] ]

Agg(op, column, as, group_by) ==
  [ id |-> 2, type |-> "aggregate", input |-> 1, group_by |-> group_by,
    ops |-> << [op |-> op, column |-> column, as |-> as] >> ]

Present(input, id) == [id |-> id, type |-> "present", input |-> input]

Range2026 == [start |-> Date, end |-> Date]

In2026(table) == Query(table, {"start", "end"}, Range2026)

(* One plan for each scripted question, in the order of demo/scenarios.md. *)
Scripted ==
  << << Query("orders", {"since"}, [since |-> Date]),
        Agg("count", "*", "n_orders", << "region" >>), Present(2, 3) >>,
     << In2026("orders"), Agg("sum", "total_amount", "revenue", << "region" >>), Present(2, 3) >>,
     << In2026("orders"), Agg("avg", "total_amount", "avg_value", << "status" >>), Present(2, 3) >>,
     << In2026("deliveries"), Agg("count", "*", "n_deliveries", << "carrier" >>), Present(2, 3) >>,
     << Query("products", {}, << >>),
        Agg("count", "*", "n_products", << "category" >>), Present(2, 3) >>,
     << In2026("orders"), Agg("max", "total_amount", "max_amount", << >>), Present(2, 3) >>,
     << Query("stock_movements", {"start", "end", "kind"},
              [start |-> Timestamp, end |-> Timestamp, kind |-> Text]),
        Agg("sum", "quantity", "total_qty", << "warehouse" >>), Present(2, 3) >>,
     << Query("orders", {"start", "end", "status"}, [start |-> Date, end |-> Date, status |-> Text]),
        Agg("count", "*", "n_cancelled", << "region" >>), Present(2, 3) >>,
     << In2026("orders"), Agg("count", "*", "n_orders", << "month" >>), Present(2, 3) >>,
     << Query("customers", {"city"}, [city |-> Text]), Present(1, 2) >> >>

Annotated(comment, columns) ==
  [comment |-> comment, columns |-> [c \in columns |-> comment]]

(* Most columns have the label of their table; one has none at all. *)
DemoSource ==
  [ products |-> Annotated("public", {"id", "sku", "name", "category", "unit_price"}),
    customers |->
      [ comment |-> "restricted",
        columns |-> [ id |-> "internal", name |-> "restricted", email |-> "restricted",
                      phone |-> "unannotated", city |-> "confidential" ] ],
    orders |-> Annotated("internal", {"id", "customer_id", "region", "status", "order_date",
                                      "total_amount"}),
    deliveries |-> Annotated("internal", {"id", "order_id", "carrier", "shipped_date",
                                          "delivered_date", "status"}),
    stock_movements |-> Annotated("internal", {"id", "product_id", "warehouse",
                                               "movement_type", "quantity", "moved_at"}),
    employees |->
      [ comment |-> "internal",
        columns |-> [ id |-> "internal", name |-> "internal", department |-> "internal",
                      hire_date |-> "internal", salary |-> "restricted" ] ] ]

-----------------------------------------------------------------------------
(***************************************************************************)
(* The scenarios come out as demo/scenarios.md says, also when a model     *)
(* writes the plans: what reads customers, or employees with its           *)
(* restricted salaries, through however many steps, is denied, and so is   *)
(* a query whose tables cannot be told, or are not the dataset's;          *)
(* everything else passes, and a scripted plan with the label that is      *)
(* promised.                                                               *)
(***************************************************************************)
ScenariosHold ==
  outcome = "plan" =>
    LET decision == Evaluate(Returned, SchemaLabels(ReadSchema(DemoSource)), "internal")
        queries  == { i \in Uses(Returned, Len(Returned)) : Returned[i].type = "query" }
    IN  /\ decision.allow <=>
             \A i \in queries :
               LET template == Returned[i].template
               IN  /\ ~template.comma
                   /\ template.refs # << >>
                   /\ \A n \in DOMAIN template.refs :
                        template.refs[n] \in DOMAIN DemoSource \ {"customers", "employees"}
        /\ \A q \in DOMAIN Scripted :
             Returned = Scripted[q] =>
               decision.plan_label = CASE q = 5  -> "public"
                                       [] q = 10 -> "restricted"
                                       [] OTHER  -> "internal"

=============================================================================
