------------------------------ MODULE Boundary ------------------------------
(***************************************************************************)
(* What the approval loop of api/main.py promises to the owner of the      *)
(* data, in terms of the audit trail alone: each plan is decided once,     *)
(* only an allowed plan is ever approved, and each run uses up an approval *)
(* of its own, given by whoever runs it.  Gateway shows that the handlers  *)
(* keep this promise; nothing is said here of when they do what.           *)
(***************************************************************************)
EXTENDS Integers, TLAPS

CONSTANTS Plans, Requests

VARIABLES
  verdict,   \* the policy's decision on each plan, as recorded
  given,     \* how often each plan was approved by each request, as recorded
  standing,  \* the approvals that may still be acted on
  ran        \* how often each plan was run by each request

vars == << verdict, given, standing, ran >>

Init ==
  /\ verdict = [p \in Plans |-> "none"]
  /\ given = [x \in Plans \X Requests |-> 0]
  /\ standing = {}
  /\ ran = [x \in Plans \X Requests |-> 0]

(* The policy decides on a plan, once. *)
Decide(p) ==
  /\ verdict[p] = "none"
  /\ \E v \in {"allow", "deny"} : verdict' = [verdict EXCEPT ![p] = v]
  /\ UNCHANGED << given, standing, ran >>

(* An allowed plan is approved; the approval may be void from the start. *)
Approve(p, r) ==
  /\ verdict[p] = "allow"
  /\ << p, r >> \notin standing
  /\ given' = [given EXCEPT ![<< p, r >>] = @ + 1]
  /\ standing' \in {standing, standing \cup {<< p, r >>}}
  /\ UNCHANGED << verdict, ran >>

Run(p, r) ==
  /\ << p, r >> \in standing
  /\ standing' = standing \ {<< p, r >>}
  /\ ran' = [ran EXCEPT ![<< p, r >>] = @ + 1]
  /\ UNCHANGED << verdict, given >>

(* Approvals that come to nothing: over budget, or the process died. *)
Lapse ==
  /\ standing' \in SUBSET standing
  /\ UNCHANGED << verdict, given, ran >>

Next ==
  \/ Lapse
  \/ \E p \in Plans : Decide(p) \/ \E r \in Requests : Approve(p, r) \/ Run(p, r)

Spec == Init /\ [][Next]_vars

-----------------------------------------------------------------------------
TypeOK ==
  /\ verdict \in [Plans -> {"none", "allow", "deny"}]
  /\ given \in [Plans \X Requests -> Nat]
  /\ standing \subseteq Plans \X Requests
  /\ ran \in [Plans \X Requests -> Nat]

(***************************************************************************)
(* Runs and approvals that may still run are no more than the approvals    *)
(* given, and only what was allowed has any of them.                       *)
(***************************************************************************)
Bought ==
  \A p \in Plans, r \in Requests :
    /\ ran[<< p, r >>] + (IF << p, r >> \in standing THEN 1 ELSE 0) <= given[<< p, r >>]
    /\ given[<< p, r >>] > 0 => verdict[p] = "allow"

(***************************************************************************)
(* Whatever keeps the promise runs no plan more often than it was approved *)
(* (approve in api/main.py: "approver", then budget, then run_plan).       *)
(***************************************************************************)
THEOREM RunsAreBought == Spec => [](TypeOK /\ Bought)
<1>1. Init => TypeOK /\ Bought
  <2> SUFFICES ASSUME Init
               PROVE  TypeOK /\ Bought
    OBVIOUS
  <2>1. TypeOK
    BY DEF Init, TypeOK
  <2>2. ASSUME NEW p \in Plans, NEW r \in Requests
        PROVE  ran[<< p, r >>] = 0 /\ given[<< p, r >>] = 0 /\ << p, r >> \notin standing
    BY DEF Init
  <2> QED BY <2>1, <2>2 DEF Bought
<1>2. TypeOK /\ Bought /\ [Next]_vars => (TypeOK /\ Bought)'
  <2> SUFFICES ASSUME TypeOK, Bought, [Next]_vars
               PROVE  TypeOK' /\ Bought'
    OBVIOUS
  <2> USE DEF TypeOK, Bought
  <2>1. ASSUME NEW p \in Plans, Decide(p)
        PROVE  TypeOK' /\ Bought'
    BY <2>1 DEF Decide
  <2>2. ASSUME NEW p \in Plans, NEW r \in Requests, Approve(p, r)
        PROVE  TypeOK' /\ Bought'
    <3>1. TypeOK'
      BY <2>2 DEF Approve
    <3> QED BY <2>2, <3>1 DEF Approve
  <2>3. ASSUME NEW p \in Plans, NEW r \in Requests, Run(p, r)
        PROVE  TypeOK' /\ Bought'
    BY <2>3 DEF Run
  <2>4. CASE Lapse
    BY <2>4 DEF Lapse
  <2>5. CASE UNCHANGED vars
    BY <2>5 DEF vars
  <2> QED BY <2>1, <2>2, <2>3, <2>4, <2>5 DEF Next
<1> QED BY <1>1, <1>2, PTL DEF Spec

=============================================================================
