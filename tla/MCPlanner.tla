----------------------------- MODULE MCPlanner -----------------------------
(***************************************************************************)
(* Small instances of Planner: the fixtures of the demo, and lists of up   *)
(* to three steps that a model can answer, made of a few steps, good and   *)
(* bad, at their own or at another position.                               *)
(***************************************************************************)
EXTENDS Demo

Plain == Query("orders", {}, << >>)

At(id, step) == [step EXCEPT !.id = id]

Count(id, input) == [Agg("count", "*", "n", << "region" >>) EXCEPT !.id = id, !.input = input]

BadSteps ==
  { Query("orders", {"since"}, [since |-> Param("date", "instant")]),
    Query("orders", {"since"}, << >>),
    Query("orders", {}, [since |-> Timestamp]),
    [Plain EXCEPT !.template = [@ EXCEPT !.select = FALSE, !.stray = TRUE,
                                         !.lexical = {"forbidden_keyword", "multi_statement"}]],
    Count(1, 2), Agg("sum", "*", "n", << >>), Present(1, 0), Present(1, 1) }

(* Queries whose tables the policy cannot tell, does not know, or keeps back. *)
Reads(refs, comma) ==
  [Plain EXCEPT !.template = [@ EXCEPT !.refs = refs, !.comma = comma]]

OtherQueries ==
  { Reads(<< Opaque >>, FALSE), Reads(<< "orders", Opaque >>, FALSE), Reads(<< >>, FALSE),
    Reads(<< "orders" >>, TRUE), Reads(<< "invoices" >>, FALSE),
    Reads(<< "orders", "customers" >>, FALSE), Reads(<< "products", "orders" >>, FALSE),
    Query("employees", {"since"}, [since |-> Date]) }

UpTo(n, steps) == UNION { [1 .. m -> steps] : m \in 0 .. n }

(* Good and bad steps where a first or a second one goes, and any three of these. *)
SomeOutputs ==
  UpTo(3, {Plain, Count(2, 1), Present(1, 2)})
    \cup { << step, Present(1, 2) >> :
             step \in BadSteps \cup OtherQueries }
    \cup { << Plain, step, Present(2, 3) >> :
             step \in BadSteps \cup { At(2, Query("employees", {}, << >>)), Present(1, 2) } }

AllFixtures == Range(Scripted)

=============================================================================
