----------------------------- MODULE MCAuditLog -----------------------------
(***************************************************************************)
(* Small instances of AuditLog: two payloads that can be told apart, so    *)
(* that two entries can have one number and different contents.            *)
(***************************************************************************)
EXTENDS AuditLog, TLC

Symmetry == Permutations(Payloads)

=============================================================================
