----------------------------- MODULE MCService -----------------------------
(***************************************************************************)
(* Small instances of Service: one plan that is allowed and one that is    *)
(* denied, over one catalogue.                                             *)
(***************************************************************************)
EXTENDS Service, MCGateway

=============================================================================
