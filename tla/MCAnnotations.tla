--------------------------- MODULE MCAnnotations ---------------------------
(***************************************************************************)
(* Small instances of Annotations: two tables of up to two columns, and    *)
(* templates that join them, name one that is not there, hide one after a  *)
(* comma or in a subquery, or name none.                                   *)
(***************************************************************************)
EXTENDS Annotations

Text(refs, comma) ==
  [ refs |-> refs, comma |-> comma, select |-> TRUE, lexical |-> {},
    placeholders |-> {}, stray |-> FALSE ]

Query(id, refs, comma) ==
  [id |-> id, type |-> "query", template |-> Text(refs, comma), params |-> << >>]

Aggregate(id, input) ==
  [ id |-> id, type |-> "aggregate", input |-> input, group_by |-> << >>,
    ops |-> << [op |-> "count", column |-> "*", as |-> "n"] >> ]

Present(id, input) == [id |-> id, type |-> "present", input |-> input]

OneQuery(refs, comma) == << Query(1, refs, comma), Present(2, 1) >>

(* The other table is read too, and the first one presented. *)
FirstOfTwo ==
  << Query(1, << "orders" >>, FALSE), Query(2, << "staff" >>, FALSE), Aggregate(3, 1),
     Present(4, 3) >>

AllPlans ==
  { FirstOfTwo, OneQuery(<< "orders", "staff" >>, FALSE),
    OneQuery(<< "orders" >>, TRUE), OneQuery(<< "orders", Opaque >>, FALSE),
    OneQuery(<< >>, FALSE),
    << Query(1, << "orders" >>, FALSE), Present(2, 3) >> }

SomeComments == {"internal", "confidential", "sales figures"}

AllClearances == {"internal", "secret"}

(* A table may have no column at all: the catalogue's query does not show it. *)
Internal(columns) == [comment |-> "internal", columns |-> columns]

OneOrTwoTables ==
  { [orders |-> Internal([region |-> "internal"]), staff |-> Internal(columns)] :
      columns \in {[region |-> "internal"], << >>} }

=============================================================================
