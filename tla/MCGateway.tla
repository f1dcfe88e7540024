----------------------------- MODULE MCGateway -----------------------------
(***************************************************************************)
(* Small instances of Gateway.  One public table that can be relabelled,   *)
(* one restricted table that stays so; a plan over the first (allowed or   *)
(* denied by its label of the day), one with two queries, and one over the *)
(* restricted table (denied).                                              *)
(***************************************************************************)
EXTENDS Gateway, TLC

Query(id, table) ==
  [id |-> id, type |-> "query", template |-> [refs |-> << table >>, comma |-> FALSE]]

Aggregate(id, input) == [id |-> id, type |-> "aggregate", input |-> input]

Present(id, input) == [id |-> id, type |-> "present", input |-> input]

OrdersPlan == << Query(1, "orders"), Aggregate(2, 1), Present(3, 2) >>

TwoQueriesPlan == << Query(1, "customers"), Query(2, "orders"), Present(3, 2) >>

CustomersPlan == << Query(1, "customers"), Present(2, 1) >>

AllPrograms == {OrdersPlan, TwoQueriesPlan, CustomersPlan}

OrdersOnly == {OrdersPlan}

CostlyOrDenied == {TwoQueriesPlan, CustomersPlan}

(* A catalogue in which the orders table has this annotation. *)
Catalogue(comment) ==
  [ orders    |-> [comment |-> comment, columns |-> [region |-> "public"]],
    customers |-> [comment |-> "internal", columns |-> [email |-> "unannotated"]] ]

OneCatalogue == {Catalogue("public")}

TwoCatalogues == {Catalogue("public"), Catalogue("confidential")}

Symmetry == Permutations(Plans) \cup Permutations(Requests) \cup Permutations(Sessions)

=============================================================================
