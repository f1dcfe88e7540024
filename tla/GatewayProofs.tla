--------------------------- MODULE GatewayProofs ---------------------------
(***************************************************************************)
(* Proofs about Gateway, for every set of plans, requests, sessions,       *)
(* programs and catalogues and for every value of the bounds:              *)
(*                                                                         *)
(*   typing, denials and authorised runs (from SafetyInv);                 *)
(*   the refinement: Gateway keeps the promise of Boundary, and with it    *)
(*   no plan runs more often than it was approved (from IndInv);           *)
(*   the ledger: what the audit log adds up to, records and decisions,     *)
(*   runs and digests, approvals and outcomes, the trail before each       *)
(*   decision, budgets, the status as the log's last word, and the states  *)
(*   of a plan whose decisions do not overlap (from LedgerInv, WordsInv    *)
(*   and SerialInv).                                                       *)
(***************************************************************************)
EXTENDS Gateway, PolicyProofs

-----------------------------------------------------------------------------
(* The number of queries of a planned program is a natural number. *)
LEMMA NQueriesNat ==
  ASSUME NEW steps \in Programs
  PROVE  IsFiniteSet(QuerySteps(steps)) /\ NQueries(steps) \in Nat
<1>0. 1 \in Int /\ Len(steps) \in Int
  BY ProgramsAreSequences
<1>1. IsFiniteSet(1 .. Len(steps))
  BY <1>0, FS_Interval
<1>2. QuerySteps(steps) \subseteq 1 .. Len(steps)
  BY ProgramsAreSequences DEF QuerySteps
<1>3. IsFiniteSet(QuerySteps(steps))
  BY <1>1, <1>2, FS_Subset
<1> QED BY <1>3, FS_CardinalityType DEF NQueries

(* The limit is a positive number, whatever the configuration says. *)
LEMMA LimitPositive == Limit \in Nat \ {0}
BY NumbersAreNatural DEF Limit, BudgetLimitOf

(* However an append ends, the log stays a sequence of lines. *)
LEMMA AppendTyped ==
  ASSUME log \in Seq(EntryType), faults \in Nat, NEW e \in EntryType,
         Logged(e) \/ AppendRaised(e)
  PROVE  log' \in Seq(EntryType) /\ faults' \in Nat
BY DEF Logged, AppendRaised

-----------------------------------------------------------------------------
(***************************************************************************)
(* The building blocks of a step keep the types of the handlers.           *)
(***************************************************************************)
(* A handler that ends leaves the loop free and its slot idle. *)
LEMMA ReturnKeepsHandlers ==
  ASSUME HandlersOK, NEW r \in Requests, busy \in {r, NoOne}, Return(r)
  PROVE  HandlersOK'
<1>1. /\ pc' = [pc EXCEPT ![r] = "idle"]
      /\ plan' = [plan EXCEPT ![r] = NoPlan]
      /\ todo' = [todo EXCEPT ![r] = 0]
      /\ sid' = [sid EXCEPT ![r] = NoSession]
      /\ busy' = NoOne
  BY DEF Return
<1>2. busy' \in Requests \cup {NoOne}
  BY <1>1
<1>3. pc' \in [Requests -> Waiting \cup Running]
  BY <1>1 DEF HandlersOK, Waiting
<1>4. plan' \in [Requests -> Plans \cup {NoPlan}]
  BY <1>1 DEF HandlersOK
<1>5. todo' \in [Requests -> 0 .. MaxAttempts]
  BY <1>1, NumbersAreNatural DEF HandlersOK
<1>6. sid' \in [Requests -> Sessions \cup {NoSession}]
  BY <1>1 DEF HandlersOK
<1>7. ASSUME NEW q \in Requests
      PROVE  /\ pc'[q] # "idle" => plan'[q] \in Plans
             /\ pc'[q] \in Approving => sid'[q] \in Sessions
             /\ pc'[q] \in {"planned", "validation"} => todo'[q] > 0
             /\ pc'[q] \in Running <=> busy' = q
  <2>1. CASE q = r
    BY <1>1, <2>1, NamesAreReal DEF HandlersOK, Running, Asking, Approving, Rejecting
  <2>2. CASE q # r
    BY <1>1, <2>2, NamesAreReal DEF HandlersOK
  <2> QED BY <2>1, <2>2
<1> QED BY <1>2, <1>3, <1>4, <1>5, <1>6, <1>7 DEF HandlersOK

(* A handler that goes on keeps the loop; it counts only its own attempts. *)
LEMMA GotoKeepsHandlers ==
  ASSUME HandlersOK, NEW r \in Requests, NEW from \in Running, NEW to \in Running,
         At(r, from), Goto(r, to),
         to \in Approving => from \in Approving,
         NEW n \in 0 .. MaxAttempts, todo' = [todo EXCEPT ![r] = n],
         to \in {"planned", "validation"} => n > 0
  PROVE  HandlersOK'
<1>1. /\ pc' = [pc EXCEPT ![r] = to]
      /\ plan' = plan /\ sid' = sid
      /\ busy' = busy /\ busy = r /\ pc[r] = from
  BY DEF At, Goto
<1>2. pc' \in [Requests -> Waiting \cup Running]
  BY <1>1 DEF HandlersOK
<1>3. todo' \in [Requests -> 0 .. MaxAttempts]
  BY DEF HandlersOK
<1>4. ASSUME NEW q \in Requests
      PROVE  /\ pc'[q] # "idle" => plan'[q] \in Plans
             /\ pc'[q] \in Approving => sid'[q] \in Sessions
             /\ pc'[q] \in {"planned", "validation"} => todo'[q] > 0
             /\ pc'[q] \in Running <=> busy' = q
  <2>1. from # "idle"
    BY DEF Running, Asking, Approving, Rejecting
  <2>2. CASE q = r
    BY <1>1, <2>1, <2>2 DEF HandlersOK
  <2>3. CASE q # r
    BY <1>1, <2>3 DEF HandlersOK
  <2> QED BY <2>2, <2>3
<1> QED BY <1>1, <1>2, <1>3, <1>4 DEF HandlersOK

(* A request that starts, or resumes with its form, while the loop is free. *)
LEMMA EnterKeepsHandlers ==
  ASSUME HandlersOK, NEW r \in Requests, busy = NoOne,
         NEW to \in {"question", "approve form", "reject form", "approved", "rejected"},
         pc' = [pc EXCEPT ![r] = to],
         busy' = IF to \in Running THEN r ELSE NoOne,
         NEW p \in Plans, plan' = [plan EXCEPT ![r] = p], todo' = todo,
         \/ sid' = sid /\ to # "approved"
         \/ \E s \in Sessions : sid' = [sid EXCEPT ![r] = s]
  PROVE  HandlersOK'
<1> USE DEF HandlersOK
<1>1. to \in Waiting \cup Running
  BY DEF Waiting, Running, Asking, Approving, Rejecting
<1>2. pc' \in [Requests -> Waiting \cup Running]
  BY <1>1
<1>3. plan' \in [Requests -> Plans \cup {NoPlan}]
  OBVIOUS
<1>4. sid' \in [Requests -> Sessions \cup {NoSession}]
  OBVIOUS
<1>5. busy' \in Requests \cup {NoOne}
  OBVIOUS
<1>6. ASSUME NEW q \in Requests
      PROVE  /\ pc'[q] # "idle" => plan'[q] \in Plans
             /\ pc'[q] \in Approving => sid'[q] \in Sessions
             /\ pc'[q] \in {"planned", "validation"} => todo'[q] > 0
             /\ pc'[q] \in Running <=> busy' = q
  <2>1. CASE q = r
    <3>1. to \in Approving => to = "approved"
      BY DEF Approving
    <3> QED BY <2>1, <3>1, NamesAreReal
  <2>2. CASE q # r
    BY <2>2, NamesAreReal
  <2> QED BY <2>1, <2>2
<1> QED BY <1>2, <1>3, <1>4, <1>5, <1>6

(* The line that a handler appends is a line. *)
LEMMA LineTyped ==
  ASSUME TypeOK, NEW r \in Requests, NEW from \in Logging, At(r, from)
  PROVE  Line(r) \in EntryType
<1>1. /\ pc[r] = from /\ plan[r] \in Plans /\ todo[r] \in Nat
      /\ from \in Approving => used[sid[r]] \in Nat
  <2>1. pc[r] = from /\ from # "idle"
    BY DEF At, Logging
  <2>2. plan[r] \in Plans /\ todo[r] \in Nat
    BY <2>1, NumbersAreNatural DEF TypeOK, HandlersOK
  <2>3. from \in Approving => sid[r] \in Sessions
    BY <2>1 DEF TypeOK, HandlersOK
  <2>4. \A s \in Sessions : used[s] \in Nat
    BY LimitPositive DEF TypeOK, WorldOK
  <2> QED BY <2>1, <2>2, <2>3, <2>4
<1>2. CASE from \in {"question", "no plan", "planned"}
  BY <1>1, <1>2 DEF Line, Entry, EntryType
<1>3. CASE from \in {"validation", "policy"}
  BY <1>1, <1>3 DEF Line, Entry, EntryType
<1>4. CASE from \in {"approved", "rejected", "run failed", "digest"}
  BY <1>1, <1>4 DEF Line, Entry, EntryType
<1>5. CASE from \in {"over budget", "guard"}
  <2>1. used[sid[r]] \in Nat
    BY <1>1, <1>5 DEF Approving
  <2> QED BY <1>1, <1>5, <2>1 DEF Line, Entry, EntryType
<1> QED BY <1>2, <1>3, <1>4, <1>5 DEF Logging

(* A step that only logs keeps the types of the rest. *)
LEMMA LogKeepsWorld ==
  ASSUME WorldOK, NEW e \in EntryType, Logged(e) \/ AppendRaised(e),
         UNCHANGED << used, source, runs, known, asked, relabels, life >>
  PROVE  WorldOK'
BY AppendTyped DEF WorldOK

(* Logging between two places keeps the types, whether the append raises or not. *)
LEMMA LogsBetweenTypes ==
  ASSUME TypeOK, NEW r \in Requests, NEW from \in Logging, NEW to \in Running,
         from \in Running, LogsBetween(r, from, to),
         to \in Approving => from \in Approving,
         to \in {"planned", "validation"} => from \in {"planned", "validation"}
  PROVE  TypeOK'
<1>1. RecordsOK'
  BY DEF LogsBetween, TypeOK, RecordsOK, records
<1>2. HandlersOK'
  <2>1. CASE Goto(r, to) /\ UNCHANGED todo
    <3>1. /\ todo' = [todo EXCEPT ![r] = todo[r]] /\ todo[r] \in 0 .. MaxAttempts
          /\ to \in {"planned", "validation"} => todo[r] > 0
      BY <2>1 DEF LogsBetween, At, TypeOK, HandlersOK
    <3> QED BY <2>1, <3>1, GotoKeepsHandlers DEF LogsBetween, TypeOK
  <2>2. CASE Return(r)
    BY <2>2, ReturnKeepsHandlers DEF LogsBetween, At, TypeOK
  <2> QED BY <2>1, <2>2 DEF LogsBetween
<1>3. WorldOK'
  <2>1. Line(r) \in EntryType
    BY LineTyped DEF LogsBetween
  <2> QED BY <2>1, LogKeepsWorld DEF LogsBetween, TypeOK
<1> QED BY <1>1, <1>2, <1>3 DEF TypeOK

(* Logging as the last thing keeps the types. *)
LEMMA LogsLastTypes ==
  ASSUME TypeOK, NEW r \in Requests, NEW from \in Logging, LogsLast(r, from)
  PROVE  TypeOK'
<1>1. RecordsOK'
  BY DEF LogsLast, TypeOK, RecordsOK, records
<1>2. HandlersOK'
  BY ReturnKeepsHandlers DEF LogsLast, At, TypeOK
<1>3. WorldOK'
  <2>1. Line(r) \in EntryType
    BY LineTyped DEF LogsLast
  <2> QED BY <2>1, LogKeepsWorld DEF LogsLast, TypeOK
<1> QED BY <1>1, <1>2, <1>3 DEF TypeOK

-----------------------------------------------------------------------------
(* What each kind of step does to the types. *)
LEMMA AskTypes ==
  ASSUME TypeOK, Planned, NEW r \in Requests, Ask(r)
  PROVE  TypeOK'
<1> USE DEF TypeOK
<1>a. ASSUME At(r, "schema") \/ At(r, "validation") \/ At(r, "policy")
      PROVE  busy \in {r, NoOne} /\ plan[r] \in Plans
  BY <1>a DEF At, HandlersOK
<1>b. /\ {"question", "no plan", "planned", "validation", "policy"} \subseteq Logging
      /\ {"question", "schema", "no plan", "planned", "validation", "policy"} \subseteq Running
      /\ {"schema", "no plan", "planned", "validation", "policy"} \cap Approving = {}
  BY DEF Logging, Running, Asking, Approving
<1>0. CASE LogQuestion(r)
  BY <1>0, <1>b, LogsBetweenTypes DEF LogQuestion
<1>1. CASE AskNoSchema(r)
  <2>1. HandlersOK'
    BY <1>1, <1>a, ReturnKeepsHandlers DEF AskNoSchema
  <2> QED BY <1>1, <2>1 DEF AskNoSchema, RecordsOK, WorldOK, records, ghosts
<1>2. CASE AskNoPlan(r)
  <2>1. HandlersOK'
    <3>1. todo' = [todo EXCEPT ![r] = todo[r]] /\ todo[r] \in 0 .. MaxAttempts
      BY <1>2 DEF AskNoPlan, HandlersOK
    <3> QED BY <1>2, <1>b, <3>1, GotoKeepsHandlers DEF AskNoPlan
  <2> QED BY <1>2, <2>1 DEF AskNoPlan, RecordsOK, WorldOK, records, ghosts
<1>3. CASE LogNoPlan(r)
  BY <1>3, <1>b, LogsLastTypes DEF LogNoPlan
<1>4. CASE AskPlanned(r)
  <2>1. PICK steps \in Programs, n \in 1 .. MaxAttempts :
          /\ todo' = [todo EXCEPT ![r] = n]
          /\ program' = [program EXCEPT ![plan[r]] = steps]
          /\ decision' = [decision EXCEPT ![plan[r]] = Evaluate(steps, Schema, Clearance)]
    BY <1>4 DEF AskPlanned
  <2>2. RecordsOK'
    <3>1. Evaluate(steps, Schema, Clearance) \in Decisions
      BY DEF Decisions, Schema, WorldOK
    <3>2. decision' \in [Plans -> Decisions]
      BY <2>1, <3>1 DEF RecordsOK
    <3>3. program' \in [Plans -> Programs \cup {<< >>}]
      BY <2>1 DEF RecordsOK
    <3> QED BY <1>4, <3>2, <3>3 DEF AskPlanned, RecordsOK
  <2>3. HandlersOK'
    <3>1. n \in 0 .. MaxAttempts /\ n > 0
      BY NumbersAreNatural
    <3> QED BY <1>4, <1>b, <2>1, <3>1, GotoKeepsHandlers DEF AskPlanned
  <2>4. WorldOK'
    BY <1>4 DEF AskPlanned, WorldOK
  <2> QED BY <2>2, <2>3, <2>4
<1>5. CASE LogPlanned(r)
  BY <1>5, <1>b, LogsBetweenTypes DEF LogPlanned
<1>6. CASE LogValidation(r)
  <2> DEFINE to == IF todo[r] = 1 THEN "policy" ELSE "validation"
  <2>1. HandlersOK'
    <3>1. CASE Goto(r, to) /\ todo' = [todo EXCEPT ![r] = @ - 1]
      <4>1. /\ todo' = [todo EXCEPT ![r] = todo[r] - 1]
            /\ todo[r] - 1 \in 0 .. MaxAttempts
            /\ to = "validation" => todo[r] - 1 > 0
        BY <1>6, <3>1, NumbersAreNatural DEF LogValidation, At, HandlersOK
      <4>2. /\ "validation" \in Running /\ to \in Running /\ to # "planned"
            /\ to \notin Approving
        BY <1>b
      <4> HIDE DEF to
      <4> QED BY <1>6, <3>1, <4>1, <4>2, GotoKeepsHandlers DEF LogValidation
    <3>2. CASE Return(r)
      BY <1>6, <1>a, <3>2, ReturnKeepsHandlers DEF LogValidation
    <3> QED BY <1>6, <3>1, <3>2 DEF LogValidation
  <2>2. WorldOK'
    <3>1. Line(r) \in EntryType
      BY <1>6, <1>b, LineTyped DEF LogValidation
    <3> QED BY <1>6, <3>1, LogKeepsWorld DEF LogValidation
  <2> QED BY <1>6, <2>1, <2>2 DEF LogValidation, RecordsOK, records
<1>7. CASE LogPolicy(r)
  <2>1. RecordsOK'
    BY <1>7 DEF LogPolicy, StatusOf, RecordsOK, Statuses
  <2>2. HandlersOK'
    BY <1>7, <1>a, ReturnKeepsHandlers DEF LogPolicy
  <2>3. WorldOK'
    <3>1. Line(r) \in EntryType
      BY <1>7, <1>b, LineTyped DEF LogPolicy
    <3> QED BY <1>7, <3>1, LogKeepsWorld DEF LogPolicy
  <2> QED BY <2>1, <2>2, <2>3
<1> QED BY <1>0, <1>1, <1>2, <1>3, <1>4, <1>5, <1>6, <1>7 DEF Ask

(* What the approval of a plan does to the types. *)
LEMMA ApproveTypes ==
  ASSUME TypeOK, Planned, NEW r \in Requests, Approve(r) \/ LogReject(r)
  PROVE  TypeOK'
<1> USE DEF TypeOK
<1>a. /\ {"approved", "charge", "run", "over budget", "run failed", "guard", "digest"} = Approving
      /\ Approving \subseteq Running
      /\ {"approved", "over budget", "run failed", "guard", "digest", "rejected"} \subseteq Logging
  BY DEF Running, Approving, Logging
<1>b. ASSUME NEW at \in Approving \cup {"rejected"}, At(r, at)
      PROVE  busy \in {r, NoOne} /\ plan[r] \in Plans /\ program[plan[r]] \in Programs
  BY <1>b DEF At, HandlersOK, Approving, Planned
<1>c. ASSUME NEW at \in Approving, At(r, at)
      PROVE  sid[r] \in Sessions /\ used[sid[r]] \in Nat
  BY <1>c, LimitPositive DEF At, HandlersOK, WorldOK
<1>d. todo = [todo EXCEPT ![r] = todo[r]] /\ todo[r] \in 0 .. MaxAttempts
  BY DEF HandlersOK
<1>e. ASSUME NEW from \in Approving, NEW to \in Approving \ {"planned", "validation"},
             At(r, from), Goto(r, to), UNCHANGED todo
      PROVE  HandlersOK'
  BY <1>a, <1>d, <1>e, GotoKeepsHandlers
<1>1. CASE Charge(r)
  <2>1. ChargeOf(r).used \in 0 .. Limit
    <3>1. used[sid[r]] \in 0 .. Limit /\ NQueries(program[plan[r]]) \in Nat
      BY <1>1, <1>a, <1>b, <1>c, NQueriesNat DEF Charge, WorldOK
    <3> QED BY <3>1, LimitPositive DEF ChargeOf, Consume
  <2>2. HandlersOK'
    <3>1. {"charge", "run", "over budget"} \subseteq Approving \ {"planned", "validation"}
      BY DEF Approving
    <3> QED BY <1>1, <1>e, <3>1 DEF Charge
  <2>3. used' \in [Sessions -> 0 .. Limit]
    BY <1>1, <2>1 DEF Charge, WorldOK
  <2>4. RecordsOK'
    BY <1>1 DEF Charge, RecordsOK, Statuses
  <2> QED BY <1>1, <2>2, <2>3, <2>4 DEF Charge, WorldOK, ghosts
<1>2. CASE LogOverBudget(r)
  BY <1>2, <1>a, LogsLastTypes DEF LogOverBudget
<1>3. CASE RunSucceeds(r)
  <2> DEFINE label == ResultLabel(program[plan[r]], Schema)
  <2>0. At(r, "run") /\ "run" \in Approving
    BY <1>3, <1>a DEF RunSucceeds
  <2>1. plan[r] \in Plans /\ sid[r] \in Sessions /\ program[plan[r]] \in Programs
    BY <2>0, <1>b, <1>c
  <2>6. label \in ResultLabels
    BY <2>1 DEF WorldOK, ResultLabels, Schema
  <2>2. RecordsOK'
    BY <1>3, <2>6 DEF RunSucceeds, RecordsOK, Statuses
  <2>3. HandlersOK'
    <3>1. {"run", "guard"} \subseteq Approving \ {"planned", "validation"}
      BY DEF Approving
    <3> QED BY <1>3, <1>e, <3>1 DEF RunSucceeds
  <2>4. RunOf(r, label) \in RunType
    <3> HIDE DEF label
    <3> QED BY <2>1, <2>6 DEF RunOf, RunType, WorldOK
  <2>5. runs' \in Seq(RunType)
    <3>1. runs' = Append(runs, RunOf(r, label)) /\ runs \in Seq(RunType)
      BY <1>3 DEF RunSucceeds, WorldOK
    <3> QED BY <2>4, <3>1
  <2> QED BY <1>3, <2>2, <2>3, <2>5 DEF RunSucceeds, WorldOK, ghosts
<1>4. CASE RunFails(r)
  <2>0. At(r, "run") /\ "run" \in Approving
    BY <1>4, <1>a DEF RunFails
  <2>1. plan[r] \in Plans /\ sid[r] \in Sessions /\ program[plan[r]] \in Programs
    BY <2>0, <1>b, <1>c
  <2>2. RecordsOK'
    BY <1>4, <2>1 DEF RunFails, RecordsOK, Statuses
  <2>3. HandlersOK'
    <3>1. {"run", "run failed"} \subseteq Approving \ {"planned", "validation"}
      BY DEF Approving
    <3> QED BY <1>4, <1>e, <3>1 DEF RunFails
  <2>4. RunOf(r, NoLabel) \in RunType
    BY <2>1 DEF RunOf, RunType, WorldOK
  <2>5. runs' \in Seq(RunType)
    <3>1. runs' = Append(runs, RunOf(r, NoLabel)) /\ runs \in Seq(RunType)
      BY <1>4 DEF RunFails, WorldOK
    <3> QED BY <2>4, <3>1
  <2> QED BY <1>4, <2>2, <2>3, <2>5 DEF RunFails, WorldOK, ghosts
<1>5. CASE LogRunFailed(r)
  BY <1>5, <1>a, LogsLastTypes DEF LogRunFailed
<1>6. CASE LogGuard(r)
  <2>1. {"guard", "digest"} \subseteq Approving \ {"planned", "validation"}
    BY DEF Approving
  <2> QED BY <1>6, <1>a, <2>1, LogsBetweenTypes DEF LogGuard
<1>7. CASE LogDigest(r)
  BY <1>7, <1>a, LogsLastTypes DEF LogDigest
<1>8. CASE LogReject(r)
  BY <1>8, <1>a, LogsLastTypes DEF LogReject
<1>9. CASE LogApproval(r)
  <2>0. plan[r] \in Plans /\ "approved" \in Approving
    BY <1>9, <1>a, <1>b DEF LogApproval
  <2>1. HandlersOK'
    <3>1. CASE Goto(r, "charge") /\ UNCHANGED todo
      <4>1. {"approved", "charge"} \subseteq Approving \ {"planned", "validation"}
        BY DEF Approving
      <4> QED BY <1>9, <1>e, <3>1, <4>1 DEF LogApproval
    <3>2. CASE Return(r)
      BY <1>9, <2>0, <1>b, <3>2, ReturnKeepsHandlers DEF LogApproval
    <3> QED BY <1>9, <3>1, <3>2 DEF LogApproval
  <2>2. WorldOK'
    <3>1. Line(r) \in EntryType
      BY <1>9, <1>a, LineTyped DEF LogApproval
    <3> QED BY <1>9, <3>1, LogKeepsWorld DEF LogApproval
  <2>3. RecordsOK'
    <3>1. approver' = [approver EXCEPT ![plan[r]] = r] \/ approver' = approver
      BY <1>9 DEF LogApproval
    <3>2. approver' \in [Plans -> Requests \cup {NoOne}]
      BY <3>1 DEF RecordsOK
    <3>3. UNCHANGED << program, decision, status, result >>
      BY <1>9 DEF LogApproval
    <3> QED BY <3>2, <3>3 DEF RecordsOK
  <2> QED BY <2>1, <2>2, <2>3
<1> QED BY <1>1, <1>2, <1>3, <1>4, <1>5, <1>6, <1>7, <1>8, <1>9 DEF Approve

(* What a step that depends on a client does to the types. *)
LEMMA ClientTypes ==
  ASSUME TypeOK, NEW r \in Requests, Client(r)
  PROVE  TypeOK'
<1> USE DEF TypeOK
<1>a. plan = [plan EXCEPT ![r] = plan[r]]
  BY DEF HandlersOK
<1>b. {"question", "approved", "rejected"} \subseteq Running
       /\ "approve form" \notin Running /\ "reject form" \notin Running
  BY DEF Running, Asking, Approving, Rejecting
<1>1. ASSUME NEW p \in Plans, AskReceived(r, p)
      PROVE  TypeOK'
  <2>1. HandlersOK'
    BY <1>1, <1>b, EnterKeepsHandlers DEF AskReceived
  <2> QED BY <1>1, <2>1 DEF AskReceived, RecordsOK, WorldOK, records
<1>2. ASSUME NEW p \in Plans, NEW form \in {"approve form", "reject form"}, Arrives(r, p, form)
      PROVE  TypeOK'
  <2>1. HandlersOK'
    BY <1>2, <1>b, EnterKeepsHandlers DEF Arrives
  <2> QED BY <1>2, <2>1 DEF Arrives, RecordsOK, WorldOK, records, ghosts
<1>3. CASE AskEmpty(r) \/ \E p \in Plans : Refuse(r, p)
  BY <1>3 DEF AskEmpty, Refuse, vars, RecordsOK, HandlersOK, WorldOK
<1>4. CASE FormLost(r)
  <2>1. HandlersOK'
    BY <1>4, ReturnKeepsHandlers DEF FormLost
  <2> QED BY <1>4, <2>1 DEF FormLost, RecordsOK, WorldOK, records, ghosts
<1>5. CASE ApproveResumes(r)
  <2>1. plan[r] \in Plans
    BY <1>5 DEF ApproveResumes, HandlersOK
  <2>2. HandlersOK'
    BY <1>5, <1>a, <1>b, <2>1, EnterKeepsHandlers DEF ApproveResumes
  <2> QED BY <1>5, <2>2 DEF ApproveResumes, RecordsOK, WorldOK, records, ghosts
<1>6. CASE RejectResumes(r)
  <2>1. plan[r] \in Plans
    BY <1>6 DEF RejectResumes, HandlersOK
  <2>2. HandlersOK'
    BY <1>6, <1>a, <1>b, <2>1, EnterKeepsHandlers DEF RejectResumes
  <2>3. RecordsOK'
    BY <1>6 DEF RejectResumes, RecordsOK, Statuses
  <2> QED BY <1>6, <2>2, <2>3 DEF RejectResumes, WorldOK, ghosts
<1> QED BY <1>1, <1>2, <1>3, <1>4, <1>5, <1>6
        DEF Client, ApproveArrives, RejectArrives

(* A process that dies leaves the types as they are, and a log of lines, however it ends. *)
LEMMA DieTypes ==
  ASSUME TypeOK, Die, log' \in Seq(EntryType)
  PROVE  TypeOK'
<1> USE DEF TypeOK
<1>1. RecordsOK'
  BY DEF Die, RecordsOK, Decisions, Statuses
<1>2. HandlersOK'
  <2>1. /\ pc' = [q \in Requests |-> "idle"] /\ plan' = [q \in Requests |-> NoPlan]
        /\ todo' = [q \in Requests |-> 0] /\ sid' = [q \in Requests |-> NoSession]
        /\ busy' = NoOne
    BY DEF Die
  <2>2. "idle" \in Waiting \ Running /\ "idle" \notin Approving
    BY DEF Waiting, Running, Asking, Approving, Rejecting
  <2>3. /\ pc' \in [Requests -> Waiting \cup Running]
        /\ todo' \in [Requests -> 0 .. MaxAttempts]
    BY <2>1, <2>2, NumbersAreNatural
  <2> QED BY <2>1, <2>2, <2>3, NamesAreReal DEF HandlersOK
<1>3. WorldOK'
  BY LimitPositive DEF Die, WorldOK
<1> QED BY <1>1, <1>2, <1>3

(* What relabelling and a crash do to the types. *)
LEMMA EnvironmentTypes ==
  ASSUME TypeOK, Relabel \/ CrashAndRestart
  PROVE  TypeOK'
<1>1. CASE Relabel
  BY <1>1 DEF Relabel, TypeOK, RecordsOK, HandlersOK, WorldOK, records, handlers
<1>2. CASE CrashAndRestart
  BY <1>2, DieTypes DEF CrashAndRestart, TypeOK, WorldOK
<1> QED BY <1>1, <1>2

(* Every step keeps the types. *)
LEMMA TypeStep ==
  ASSUME TypeOK, Planned, [Next]_vars
  PROVE  TypeOK'
<1>1. CASE UNCHANGED vars
  BY <1>1 DEF vars, TypeOK, RecordsOK, HandlersOK, WorldOK
<1> QED BY <1>1, AskTypes, ApproveTypes, ClientTypes, EnvironmentTypes DEF Next, Continue

(* The types hold at the start. *)
LEMMA TypeInit ==
  ASSUME Init
  PROVE  TypeOK
<1>1. RecordsOK
  BY DEF Init, RecordsOK, Decisions, Statuses
<1>2. HandlersOK
  <2>1. /\ pc = [q \in Requests |-> "idle"] /\ plan = [q \in Requests |-> NoPlan]
        /\ todo = [q \in Requests |-> 0] /\ sid = [q \in Requests |-> NoSession]
        /\ busy = NoOne
    BY DEF Init
  <2>2. "idle" \in Waiting \ Running /\ "idle" \notin Approving
    BY DEF Waiting, Running, Asking, Approving, Rejecting
  <2>3. /\ pc \in [Requests -> Waiting \cup Running]
        /\ todo \in [Requests -> 0 .. MaxAttempts]
    BY <2>1, <2>2, NumbersAreNatural
  <2> QED BY <2>1, <2>2, <2>3, NamesAreReal DEF HandlersOK
<1>3. WorldOK
  <2>1. log \in Seq(EntryType) /\ runs \in Seq(RunType)
    BY DEF Init
  <2> QED BY <2>1, LimitPositive DEF Init, WorldOK
<1> QED BY <1>1, <1>2, <1>3 DEF TypeOK

-----------------------------------------------------------------------------
(***************************************************************************)
(* The log only grows, so what it authorises stays authorised.             *)
(***************************************************************************)
(* A step adds at most one line, at the end. *)
LEMMA LogGrows ==
  ASSUME TypeOK, Planned, [Next]_vars
  PROVE  /\ DOMAIN log = 1 .. Len(log) /\ DOMAIN log' = 1 .. Len(log')
         /\ Len(log) \in Nat /\ Len(log') \in Nat /\ Len(log) <= Len(log')
         /\ \A i \in DOMAIN log : log'[i] = log[i]
<1>1. \/ log' = log
      \/ \E e : Logged(e) \/ AppendRaised(e)
  <2>1. CASE \E r \in Requests : Ask(r)
    BY <2>1 DEF Ask, LogQuestion, AskNoSchema, AskNoPlan, LogNoPlan, AskPlanned, LogPlanned,
                LogValidation, LogPolicy, LogsBetween, LogsLast
  <2>2. CASE \E r \in Requests : Approve(r) \/ LogReject(r)
    BY <2>2 DEF Approve, LogApproval, Charge, LogOverBudget, RunSucceeds, RunFails,
                LogRunFailed, LogGuard, LogDigest, LogReject, LogsBetween, LogsLast, ghosts
  <2>3. CASE \E r \in Requests : Client(r)
    BY <2>3 DEF Client, AskReceived, AskEmpty, ApproveArrives, RejectArrives, Arrives, Refuse,
                ApproveResumes, RejectResumes, FormLost, vars
  <2>4. CASE Relabel \/ CrashAndRestart \/ UNCHANGED vars
    BY <2>4 DEF Relabel, CrashAndRestart, Die, vars
  <2> QED BY <2>1, <2>2, <2>3, <2>4 DEF Next, Continue
<1>2. log \in Seq(EntryType) /\ log' \in Seq(EntryType)
  <2>1. TypeOK'
    BY TypeStep
  <2> QED BY <2>1 DEF TypeOK, WorldOK
<1>3. CASE log' = log
  BY <1>2, <1>3
<1>4. ASSUME NEW e, log' = Append(log, e)
      PROVE  /\ Len(log) <= Len(log')
             /\ \A i \in DOMAIN log : log'[i] = log[i]
  BY <1>2, <1>4
<1> QED BY <1>1, <1>2, <1>3, <1>4 DEF Logged, AppendRaised

(* Lines stay where they are. *)
LEMMA LinesStay ==
  ASSUME TypeOK, Planned, [Next]_vars, NEW p, NEW event, NEW value
  PROVE  LinesOf(p, event, value) \subseteq LinesOf(p, event, value)'
BY LogGrows DEF LinesOf

(* What was authorised by line n stays so, and is so by any later line m. *)
LEMMA AuthorisedStays ==
  ASSUME TypeOK, Planned, [Next]_vars, NEW p, NEW r, NEW n \in Nat, NEW m \in Nat,
         n <= m, Authorised(p, r, n)
  PROVE  Authorised(p, r, m)'
<1>1. PICK a \in 1 .. n, b \in 1 .. n :
        /\ a < b /\ b <= Len(log)
        /\ a \in LinesOf(p, "policy_decision", "allow")
        /\ b \in LinesOf(p, "approval", "approve")
        /\ log[b].by = r
  BY DEF Authorised
<1>2. /\ a \in LinesOf(p, "policy_decision", "allow")'
      /\ b \in LinesOf(p, "approval", "approve")'
  BY <1>1, LinesStay
<1>3. b <= Len(log') /\ log'[b].by = r
  <2>1. b \in DOMAIN log
    BY <1>1 DEF LinesOf
  <2> QED BY <1>1, <2>1, LogGrows
<1>4. a \in 1 .. m /\ b \in 1 .. m
  OBVIOUS
<1> QED BY <1>1, <1>2, <1>3, <1>4 DEF Authorised

-----------------------------------------------------------------------------
(***************************************************************************)
(* The effects a step can have on the records, on what has run and on      *)
(* where the requests stand.  Six kinds of step matter; the rest only move *)
(* a request along its handler or end it.                                  *)
(***************************************************************************)
Edges ==
  { << "question", "schema" >>, << "approve form", "approved" >>, << "schema", "no plan" >>, << "planned", "validation" >>, << "validation", "policy" >>,
    << "charge", "run" >>, << "charge", "over budget" >>, << "run", "run failed" >>,
    << "run", "guard" >>, << "guard", "digest" >>, << "reject form", "rejected" >> }

Follows(q) ==
  \/ pc'[q] = "idle"
  \/ plan'[q] = plan[q] /\ (pc'[q] = pc[q] \/ << pc[q], pc'[q] >> \in Edges)

OthersFollow(r) == \A q \in Requests \ {r} : Follows(q)

Quiet ==
  /\ UNCHANGED << program, decision, status, result, approver, known, runs >>
  /\ \A q \in Requests : Follows(q)

Asks(r) ==
  /\ pc'[r] = "question" /\ plan'[r] \in Plans \ known /\ known' = known \cup {plan'[r]}
  /\ OthersFollow(r)
  /\ UNCHANGED << program, decision, status, result, approver, runs >>

GetsPlan(r) ==
  /\ pc[r] = "schema" /\ pc'[r] = "planned" /\ plan'[r] = plan[r]
  /\ \E steps \in Programs : program' = [program EXCEPT ![plan[r]] = steps]
  /\ \E d \in Decisions : decision' = [decision EXCEPT ![plan[r]] = d]
  /\ OthersFollow(r)
  /\ UNCHANGED << status, result, approver, known, runs >>

Decides(r) ==
  LET allow == decision[plan[r]].allow IN
  /\ pc[r] = "policy" /\ pc'[r] = "idle"
  /\ status' = [status EXCEPT ![plan[r]] = StatusOf(allow)]
  /\ log' = Append(log, Entry("policy_decision", plan[r],
                              IF allow THEN "allow" ELSE "deny", NoOne, 0))
  /\ OthersFollow(r)
  /\ UNCHANGED << program, decision, result, approver, known, runs >>

Arrived(r) ==
  /\ pc'[r] \in {"approve form", "reject form"}
  /\ plan'[r] \in Plans /\ status[plan'[r]] = "pending"
  /\ OthersFollow(r)
  /\ UNCHANGED << program, decision, status, result, approver, known, runs >>

Approves(r) ==
  /\ pc[r] = "approved" /\ pc'[r] = "charge" /\ plan'[r] = plan[r]
  /\ approver' = [approver EXCEPT ![plan[r]] = r]
  /\ log' = Append(log, Entry("approval", plan[r], "approve", r, 0))
  /\ OthersFollow(r)
  /\ UNCHANGED << program, decision, status, result, known, runs >>

Resolves(r) ==
  /\ pc[r] \in {"charge", "run", "reject form"}
  /\ \E st \in {"executed", "rejected", "failed"} : status' = [status EXCEPT ![plan[r]] = st]
  /\ \E l \in ResultLabels \cup {NoLabel} : result' \in {result, [result EXCEPT ![plan[r]] = l]}
  /\ approver' \in {approver, [approver EXCEPT ![plan[r]] = r]}
  /\ \/ UNCHANGED runs
     \/ pc[r] = "run" /\ \E l : runs' = Append(runs, RunOf(r, l))
  /\ \A q \in Requests : Follows(q)
  /\ UNCHANGED << program, decision, known >>

Effect(r) ==
  Asks(r) \/ GetsPlan(r) \/ Decides(r) \/ Arrived(r) \/ Approves(r) \/ Resolves(r)

(* A handler that ends, or goes on along an edge, moves nobody else. *)
LEMMA ReturnFollows ==
  ASSUME HandlersOK, NEW r \in Requests, Return(r)
  PROVE  /\ pc'[r] = "idle"
         /\ \A q \in Requests : Follows(q)
BY DEF HandlersOK, Return, Follows

(* A handler that goes on along an edge moves nobody else. *)
LEMMA GotoFollows ==
  ASSUME HandlersOK, NEW r \in Requests, NEW to, Goto(r, to)
  PROVE  /\ pc'[r] = to /\ plan'[r] = plan[r]
         /\ OthersFollow(r)
         /\ pc[r] = to \/ << pc[r], to >> \in Edges => \A q \in Requests : Follows(q)
BY DEF HandlersOK, Goto, Follows, OthersFollow

(* A step that only logs, on the way or at the end, is quiet. *)
LEMMA LogsQuiet ==
  ASSUME TypeOK, NEW r \in Requests, NEW from, NEW to,
         \/ LogsLast(r, from)
         \/ LogsBetween(r, from, to) /\ << from, to >> \in Edges
  PROVE  Quiet
BY ReturnFollows, GotoFollows DEF TypeOK, LogsLast, LogsBetween, At, Quiet, records

(* What each step of a question does to the records, the log and the runs. *)
LEMMA AskEffects ==
  ASSUME TypeOK, Planned, NEW r \in Requests, Ask(r)
  PROVE  Quiet \/ Effect(r)
<1> USE ReturnFollows, GotoFollows DEF TypeOK
<1>0. CASE LogQuestion(r)
  BY <1>0, LogsQuiet DEF LogQuestion, Edges
<1>1. CASE AskNoSchema(r)
  BY <1>1 DEF AskNoSchema, Quiet, records, ghosts
<1>2. CASE AskNoPlan(r)
  BY <1>2 DEF AskNoPlan, At, Quiet, records, ghosts, Edges
<1>3. CASE LogNoPlan(r)
  BY <1>3, LogsQuiet DEF LogNoPlan
<1>4. CASE AskPlanned(r)
  <2>1. \A steps \in Programs : Evaluate(steps, Schema, Clearance) \in Decisions
    BY DEF Decisions, Schema, WorldOK
  <2> QED BY <1>4, <2>1 DEF AskPlanned, At, Effect, GetsPlan
<1>5. CASE LogPlanned(r)
  BY <1>5, LogsQuiet DEF LogPlanned, Edges
<1>6. CASE LogValidation(r)
  BY <1>6 DEF LogValidation, At, Quiet, records, Edges
<1>7. CASE LogPolicy(r)
  <2>1. OthersFollow(r)
    BY <1>7 DEF LogPolicy, OthersFollow
  <2>2. At(r, "policy") => Line(r) = Entry("policy_decision", plan[r],
                             IF decision[plan[r]].allow THEN "allow" ELSE "deny", NoOne, 0)
    BY DEF At, Line
  <2> QED BY <1>7, <2>1, <2>2 DEF LogPolicy, At, Quiet, Effect, Decides, Logged
<1> QED BY <1>0, <1>1, <1>2, <1>3, <1>4, <1>5, <1>6, <1>7 DEF Ask

(* What each step of an approval does to the records, the log and the runs. *)
LEMMA ApproveEffects ==
  ASSUME TypeOK, Planned, NEW r \in Requests, Approve(r) \/ LogReject(r)
  PROVE  Quiet \/ Effect(r)
<1> USE ReturnFollows, GotoFollows DEF TypeOK
<1>1. CASE Charge(r)
  <2>1. CASE Goto(r, "run") /\ UNCHANGED status
    BY <1>1, <2>1 DEF Charge, At, Quiet, ghosts, Edges
  <2>2. CASE Goto(r, "over budget") /\ status' = [status EXCEPT ![plan[r]] = "failed"]
    BY <1>1, <2>2 DEF Charge, At, Effect, Resolves, ghosts, Edges
  <2> QED BY <1>1, <2>1, <2>2 DEF Charge
<1>2. CASE LogOverBudget(r)
  BY <1>2, LogsQuiet DEF LogOverBudget
<1>3. CASE RunSucceeds(r)
  <2> DEFINE label == ResultLabel(program[plan[r]], Schema)
  <2>1. label \in ResultLabels
    <3>1. plan[r] \in Plans /\ program[plan[r]] \in Programs
      BY <1>3 DEF RunSucceeds, At, HandlersOK, Planned
    <3> QED BY <3>1 DEF ResultLabels, Schema, WorldOK
  <2>2. /\ result' = [result EXCEPT ![plan[r]] = label]
        /\ runs' = Append(runs, RunOf(r, label))
    BY <1>3 DEF RunSucceeds
  <2> HIDE DEF label
  <2> QED BY <1>3, <2>1, <2>2 DEF RunSucceeds, At, Effect, Resolves, ghosts, Edges
<1>4. CASE RunFails(r)
  BY <1>4 DEF RunFails, At, Effect, Resolves, ghosts, Edges
<1>5. CASE LogRunFailed(r)
  BY <1>5, LogsQuiet DEF LogRunFailed
<1>6. CASE LogGuard(r)
  BY <1>6, LogsQuiet DEF LogGuard, Edges
<1>7. CASE LogDigest(r)
  BY <1>7, LogsQuiet DEF LogDigest
<1>8. CASE LogReject(r)
  BY <1>8, LogsQuiet DEF LogReject
<1>9. CASE LogApproval(r)
  <2>1. At(r, "approved") => Line(r) = Entry("approval", plan[r], "approve", r, 0)
    BY DEF At, Line
  <2>2. CASE Return(r)
    <3>1. OthersFollow(r) /\ \A q \in Requests : Follows(q)
      BY <2>2 DEF OthersFollow
    <3>2. approver' = approver
      BY <1>9, <2>2 DEF LogApproval, Return, Goto, At, HandlersOK
    <3> QED BY <1>9, <3>1, <3>2 DEF LogApproval, Quiet
  <2>3. CASE /\ Logged(Line(r)) /\ Goto(r, "charge")
             /\ approver' = [approver EXCEPT ![plan[r]] = r]
    BY <1>9, <2>1, <2>3 DEF LogApproval, At, Effect, Approves, Logged
  <2> QED BY <1>9, <2>2, <2>3 DEF LogApproval
<1> QED BY <1>1, <1>2, <1>3, <1>4, <1>5, <1>6, <1>7, <1>8, <1>9 DEF Approve

(* What each step that begins with a client does to the records and the log. *)
LEMMA ClientEffects ==
  ASSUME TypeOK, NEW r \in Requests, Client(r)
  PROVE  Quiet \/ Effect(r)
<1> USE DEF TypeOK, HandlersOK
<1>1. ASSUME NEW p \in Plans, AskReceived(r, p)
      PROVE  Quiet \/ Effect(r)
  BY <1>1 DEF AskReceived, Quiet, Effect, Asks, OthersFollow, Follows, records
<1>2. ASSUME NEW p \in Plans, NEW form \in {"approve form", "reject form"}, Arrives(r, p, form)
      PROVE  Effect(r)
  BY <1>2 DEF Arrives, Effect, Arrived, OthersFollow, Follows, records, ghosts
<1>3. CASE AskEmpty(r) \/ \E p \in Plans : Refuse(r, p)
  BY <1>3 DEF AskEmpty, Refuse, vars, Quiet, Follows
<1>4. CASE FormLost(r)
  BY <1>4, ReturnFollows DEF FormLost, Quiet, records, ghosts
<1>5. CASE ApproveResumes(r)
  BY <1>5 DEF ApproveResumes, Quiet, Follows, Edges, records, ghosts
<1>6. CASE RejectResumes(r)
  BY <1>6 DEF RejectResumes, Effect, Resolves, Follows, ghosts, Edges
<1> QED BY <1>1, <1>2, <1>3, <1>4, <1>5, <1>6
        DEF Client, ApproveArrives, RejectArrives

(* Every step is quiet, or one of the six, or a crash. *)
LEMMA Effects ==
  ASSUME TypeOK, Planned, [Next]_vars
  PROVE  Quiet \/ (\E r \in Requests : Effect(r)) \/ CrashAndRestart
<1>1. CASE UNCHANGED vars
  BY <1>1 DEF vars, Quiet, Follows
<1>2. CASE Relabel
  BY <1>2 DEF Relabel, records, handlers, Quiet, Follows
<1> QED BY <1>1, <1>2, AskEffects, ApproveEffects, ClientEffects DEF Next, Continue

-----------------------------------------------------------------------------
(***************************************************************************)
(* Each part of the invariant is kept by each kind of step.                *)
(***************************************************************************)
(* What a request that merely follows its handler can have come from. *)
LEMMA FollowsFrom ==
  ASSUME NEW q \in Requests, Follows(q)
  PROVE  /\ pc'[q] # "idle" => plan'[q] = plan[q]
         /\ pc'[q] \in Asking => pc[q] \in Asking
         /\ pc'[q] \in Deciding => pc[q] \in Deciding
         /\ pc'[q] \in {"charge", "run"} => pc[q] \in {"charge", "run"}
         /\ pc'[q] \notin {"idle", "question", "schema", "no plan"} =>
               pc[q] \notin {"idle", "question", "schema", "no plan"}
BY DEF Follows, Edges, Asking, Deciding, Approving, Rejecting

(* Every step keeps a recorded plan's steps those of the planner. *)
LEMMA PlannedStep ==
  ASSUME TypeOK, Planned, Tracked, [Next]_vars
  PROVE  Planned'
<1> USE FollowsFrom DEF Planned
<1>1. CASE Quiet
  BY <1>1 DEF Quiet
<1>2. ASSUME NEW r \in Requests, Asks(r)
      PROVE  Planned'
  BY <1>2 DEF Asks, OthersFollow
<1>3. ASSUME NEW r \in Requests, GetsPlan(r)
      PROVE  Planned'
  <2>1. \A p \in Plans : program'[p] = program[p] \/ program'[p] \in Programs
    BY <1>3 DEF GetsPlan, TypeOK, RecordsOK
  <2>2. program'[plan'[r]] \in Programs
    <3>1. PICK p : p = plan[r]
      OBVIOUS
    <3>2. p \in Plans /\ plan'[r] = p
      BY <1>3, <3>1 DEF GetsPlan, TypeOK, HandlersOK
    <3>3. PICK steps \in Programs : program' = [program EXCEPT ![p] = steps]
      BY <1>3, <3>1 DEF GetsPlan
    <3>4. program'[p] = steps
      BY <3>2, <3>3 DEF TypeOK, RecordsOK
    <3> QED BY <3>2, <3>4
  <2>3. ASSUME NEW q \in Requests, pc'[q] \notin {"idle", "question", "schema", "no plan"}
        PROVE  program'[plan'[q]] \in Programs
    <3>1. CASE q = r
      BY <2>2, <3>1
    <3>2. CASE q # r
      <4>1. /\ plan'[q] = plan[q] /\ plan[q] \in Plans
            /\ program[plan[q]] \in Programs
        BY <1>3, <2>3, <3>2 DEF GetsPlan, OthersFollow, TypeOK, HandlersOK
      <4> QED BY <2>1, <4>1
    <3> QED BY <3>1, <3>2
  <2> QED BY <1>3, <2>1, <2>3 DEF GetsPlan
<1>4. ASSUME NEW r \in Requests, Decides(r)
      PROVE  Planned'
  BY <1>4 DEF Decides, StatusOf, OthersFollow, TypeOK, RecordsOK, HandlersOK
<1>5. ASSUME NEW r \in Requests, Arrived(r)
      PROVE  Planned'
  BY <1>5 DEF Arrived, OthersFollow
<1>6. ASSUME NEW r \in Requests, Approves(r)
      PROVE  Planned'
  BY <1>6 DEF Approves, OthersFollow
<1>7. ASSUME NEW r \in Requests, Resolves(r)
      PROVE  Planned'
  BY <1>7 DEF Resolves, TypeOK, RecordsOK, HandlersOK
<1>8. CASE CrashAndRestart
  BY <1>8 DEF CrashAndRestart, Die
<1> QED BY <1>1, <1>2, <1>3, <1>4, <1>5, <1>6, <1>7, <1>8, Effects DEF Effect

(* A request that follows stays tracked if its plan's status is not undone. *)
LEMMA FollowerTracked ==
  ASSUME TypeOK, NEW q \in Requests, TrackedAt(q), Follows(q), known \subseteq known',
         pc[q] \in Asking /\ status[plan[q]] = "absent" => status'[plan[q]] = "absent",
         status[plan[q]] \notin {"absent", "denied"} =>
           status'[plan[q]] \notin {"absent", "denied"}
  PROVE  TrackedAt(q)'
<1>1. "idle" \notin Asking /\ "idle" \notin Deciding
  BY DEF Asking, Deciding, Approving, Rejecting
<1>2. CASE pc'[q] = "idle"
  BY <1>1, <1>2 DEF TrackedAt
<1>3. CASE pc'[q] # "idle"
  <2>1. /\ plan'[q] = plan[q]
        /\ pc'[q] \in Asking => pc[q] \in Asking
        /\ pc'[q] \in Deciding => pc[q] \in Deciding
    BY <1>3, FollowsFrom
  <2> QED BY <2>1 DEF TrackedAt
<1> QED BY <1>2, <1>3

(* Every step keeps each request's plan in the status the request relies on. *)
LEMMA TrackedStep ==
  ASSUME TypeOK, Planned, Tracked, [Next]_vars
  PROVE  Tracked'
<1>a. ASSUME NEW r \in Requests, OthersFollow(r), UNCHANGED status, known \subseteq known',
             TrackedAt(r)'
      PROVE  \A q \in Requests : TrackedAt(q)'
  BY <1>a, FollowerTracked DEF Tracked, OthersFollow
<1>b. "idle" \notin Asking /\ "idle" \notin Deciding
  BY DEF Asking, Deciding, Approving, Rejecting
<1>1. CASE Quiet
  BY <1>1, FollowerTracked DEF Quiet, Tracked
<1>2. ASSUME NEW r \in Requests, Asks(r)
      PROVE  Tracked'
  <2>1. "question" \notin Deciding
    BY DEF Deciding, Approving, Rejecting
  <2>2. TrackedAt(r)'
    BY <1>2, <2>1 DEF Asks, TrackedAt, Tracked
  <2> QED BY <1>2, <1>a, <2>2 DEF Asks, Tracked
<1>3. ASSUME NEW r \in Requests, GetsPlan(r)
      PROVE  Tracked'
  <2>1. "planned" \notin Deciding /\ "schema" \in Asking
    BY DEF Asking, Deciding, Approving, Rejecting
  <2>2. TrackedAt(r)'
    BY <1>3, <2>1 DEF GetsPlan, TrackedAt, Tracked
  <2> QED BY <1>3, <1>a, <2>2 DEF GetsPlan, Tracked
<1>4. ASSUME NEW r \in Requests, Decides(r)
      PROVE  Tracked'
  <2>1. /\ plan[r] \in known /\ status[plan[r]] = "absent" /\ plan[r] \in Plans
        /\ busy = r
    BY <1>4 DEF Decides, Asking, Running, Tracked, TrackedAt, TypeOK, HandlersOK
  <2>2. /\ status'[plan[r]] \in {"pending", "denied"}
        /\ \A p \in Plans \ {plan[r]} : status'[p] = status[p]
    BY <1>4, <2>1 DEF Decides, StatusOf, TypeOK, RecordsOK
  <2>3. ASSUME NEW q \in Requests
        PROVE  TrackedAt(q)'
    <3>1. CASE q = r
      BY <1>4, <1>b, <3>1 DEF Decides, TrackedAt
    <3>2. CASE q # r
      <4>1. pc[q] \notin Asking
        BY <2>1, <3>2 DEF TypeOK, HandlersOK, Running
      <4>2. TrackedAt(q) /\ Follows(q) /\ known' = known
        BY <1>4, <3>2 DEF Decides, OthersFollow, Tracked
      <4>3. CASE pc[q] \in Deciding
        <5>1. plan[q] \in Plans \ {plan[r]}
          BY <1>b, <2>1, <4>2, <4>3 DEF TrackedAt, TypeOK, HandlersOK
        <5> QED BY <2>2, <4>1, <4>2, <5>1, FollowerTracked
      <4>4. CASE pc[q] \notin Deciding
        BY <4>1, <4>2, <4>4, FollowsFrom DEF TrackedAt
      <4> QED BY <4>3, <4>4
    <3> QED BY <3>1, <3>2
  <2> QED BY <1>4, <2>1, <2>2, <2>3 DEF Decides, Tracked
<1>5. ASSUME NEW r \in Requests, Arrived(r)
      PROVE  Tracked'
  <2>1. {"approve form", "reject form"} \cap Asking = {}
    BY DEF Asking
  <2>2. TrackedAt(r)'
    BY <1>5, <2>1 DEF Arrived, TrackedAt
  <2> QED BY <1>5, <1>a, <2>2 DEF Arrived, Tracked
<1>6. ASSUME NEW r \in Requests, Approves(r)
      PROVE  Tracked'
  <2>1. "charge" \notin Asking /\ "approved" \in Deciding
    BY DEF Asking, Deciding, Approving
  <2>2. TrackedAt(r)' /\ plan[r] \in Plans /\ status[plan[r]] # "absent"
    BY <1>6, <1>b, <2>1 DEF Approves, Tracked, TrackedAt, TypeOK, HandlersOK
  <2>3. \A p \in Plans : status[p] = "absent" => approver'[p] = approver[p]
    BY <1>6, <2>2 DEF Approves, TypeOK, RecordsOK
  <2> QED BY <1>6, <1>a, <2>2, <2>3 DEF Approves, Tracked
<1>7. ASSUME NEW r \in Requests, Resolves(r)
      PROVE  Tracked'
  <2>1. plan[r] \in Plans /\ status[plan[r]] \notin {"absent", "denied"}
    BY <1>7 DEF Resolves, Deciding, Approving, Tracked, TrackedAt, TypeOK, HandlersOK
  <2>2. /\ status'[plan[r]] \in {"executed", "rejected", "failed"}
        /\ \A p \in Plans \ {plan[r]} :
             status'[p] = status[p] /\ result'[p] = result[p] /\ approver'[p] = approver[p]
    BY <1>7, <2>1 DEF Resolves, TypeOK, RecordsOK
  <2>3. \A p \in Plans : status'[p] \in {"absent", "denied"} \/ status[p] \in {"absent", "denied"}
                           => status'[p] = status[p]
    BY <2>1, <2>2
  <2>4. ASSUME NEW q \in Requests
        PROVE  TrackedAt(q)'
    <3>1. Follows(q) /\ known' = known /\ TrackedAt(q)
      BY <1>7 DEF Resolves, Tracked
    <3>2. CASE plan[q] \in Plans
      BY <2>3, <3>1, <3>2, FollowerTracked
    <3>3. CASE plan[q] \notin Plans
      BY <1>b, <3>1, <3>3, FollowsFrom DEF TrackedAt, TypeOK, HandlersOK
    <3> QED BY <3>2, <3>3
  <2>5. \A p \in Plans : status'[p] = "absent" => result'[p] = NoLabel /\ approver'[p] = NoOne
    BY <2>2 DEF Tracked
  <2>6. \A p \in Plans \ known : status'[p] = "absent"
    BY <2>1, <2>2 DEF Tracked
  <2> QED BY <1>7, <2>4, <2>5, <2>6 DEF Resolves, Tracked
<1>8. CASE CrashAndRestart
  BY <1>8, <1>b DEF CrashAndRestart, Die, Tracked, TrackedAt
<1> QED BY <1>1, <1>2, <1>3, <1>4, <1>5, <1>6, <1>7, <1>8, Effects DEF Effect

(* No step undoes a deny: who gets past the test of the status has no denied plan. *)
LEMMA DenyStep ==
  ASSUME TypeOK, Planned, Tracked, DenyIsFinal, [Next]_vars
  PROVE  DenyIsFinal'
<1> USE DEF DenyIsFinal
<1>1. CASE Quiet
  BY <1>1 DEF Quiet
<1>2. ASSUME NEW r \in Requests, Asks(r) \/ Arrived(r)
      PROVE  DenyIsFinal'
  BY <1>2 DEF Asks, Arrived
<1>3. ASSUME NEW r \in Requests, GetsPlan(r)
      PROVE  DenyIsFinal'
  <2>1. status[plan[r]] = "absent" /\ plan[r] \in Plans
    BY <1>3 DEF GetsPlan, Tracked, TrackedAt, Asking, TypeOK, HandlersOK
  <2>2. \A p \in Plans \ {plan[r]} : decision'[p] = decision[p]
    BY <1>3 DEF GetsPlan, TypeOK, RecordsOK
  <2> QED BY <1>3, <2>1, <2>2 DEF GetsPlan
<1>4. ASSUME NEW r \in Requests, Decides(r)
      PROVE  DenyIsFinal'
  <2>1. status[plan[r]] = "absent" /\ plan[r] \in Plans
    BY <1>4 DEF Decides, Tracked, TrackedAt, Asking, TypeOK, HandlersOK
  <2>2. result[plan[r]] = NoLabel /\ approver[plan[r]] = NoOne
    BY <2>1 DEF Tracked
  <2>3. /\ status'[plan[r]] = StatusOf(decision[plan[r]].allow)
        /\ \A p \in Plans \ {plan[r]} : status'[p] = status[p]
    BY <1>4, <2>1 DEF Decides, TypeOK, RecordsOK
  <2> QED BY <1>4, <2>2, <2>3 DEF Decides, StatusOf
<1>5. ASSUME NEW r \in Requests, Approves(r) \/ Resolves(r)
      PROVE  DenyIsFinal'
  <2>1. plan[r] \in Plans /\ status[plan[r]] \notin {"absent", "denied"}
    BY <1>5 DEF Approves, Resolves, Tracked, TrackedAt, Deciding, Approving, TypeOK, HandlersOK
  <2>2. decision[plan[r]].allow
    BY <2>1
  <2>3. /\ decision' = decision
        /\ status'[plan[r]] # "denied"
        /\ \A p \in Plans \ {plan[r]} :
             status'[p] = status[p] /\ result'[p] = result[p] /\ approver'[p] = approver[p]
    BY <1>5, <2>1 DEF Approves, Resolves, TypeOK, RecordsOK
  <2> QED BY <2>2, <2>3
<1>6. CASE CrashAndRestart
  BY <1>6 DEF CrashAndRestart, Die
<1> QED BY <1>1, <1>2, <1>3, <1>4, <1>5, <1>6, Effects DEF Effect

(* Every step keeps what is about to run authorised by the log. *)
LEMMA AuthorisingStep ==
  ASSUME TypeOK, Planned, Tracked, Authorising, [Next]_vars
  PROVE  Authorising'
<1>a. log \in Seq(EntryType) /\ Len(log) \in Nat /\ DOMAIN log = 1 .. Len(log)
  BY DEF TypeOK, WorldOK
<1>b. \A p \in Plans : LinesOf(p, "policy_decision", "allow") # {}
                       => LinesOf(p, "policy_decision", "allow")' # {}
  BY LinesStay
(* The log of the allowed plans. *)
<1>1. ASSUME NEW p \in Plans, status'[p] \notin {"absent", "denied"}
      PROVE  LinesOf(p, "policy_decision", "allow")' # {}
  <2>1. CASE status[p] \notin {"absent", "denied"}
    BY <1>b, <2>1 DEF Authorising
  <2>2. CASE status[p] \in {"absent", "denied"}
    <3>1. ~CrashAndRestart
      BY <1>1 DEF CrashAndRestart, Die
    <3>2. ASSUME NEW r \in Requests, Approves(r) \/ Resolves(r)
          PROVE  status'[p] = status[p]
      <4>1. plan[r] \in Plans /\ plan[r] # p
        BY <2>2, <3>2 DEF Approves, Resolves, Tracked, TrackedAt, Deciding, Approving,
                          TypeOK, HandlersOK
      <4> QED BY <3>2, <4>1 DEF Approves, Resolves, TypeOK, RecordsOK
    <3>3. PICK r \in Requests : Decides(r)
      BY <1>1, <2>2, <3>1, <3>2, Effects DEF Effect, Quiet, Asks, GetsPlan, Arrived
    <3>4. p = plan[r] /\ decision[p].allow
      BY <1>1, <2>2, <3>3 DEF Decides, StatusOf, TypeOK, RecordsOK, HandlersOK
    <3>5. log' = Append(log, Entry("policy_decision", p, "allow", NoOne, 0))
      BY <3>3, <3>4 DEF Decides
    <3>6. /\ Len(log) + 1 \in DOMAIN log'
          /\ log'[Len(log) + 1] = Entry("policy_decision", p, "allow", NoOne, 0)
      BY <1>a, <3>5
    <3>7. Len(log) + 1 \in LinesOf(p, "policy_decision", "allow")'
      BY <3>6 DEF LinesOf, Entry
    <3> QED BY <3>7
  <2> QED BY <2>1, <2>2
(* The log of the plans about to run. *)
<1>2. ASSUME NEW q \in Requests, pc'[q] \in {"charge", "run"}
      PROVE  Authorised(plan[q], q, Len(log))'
  <2>1. CASE Follows(q)
    <3>1. PICK p, n, m : p = plan[q] /\ p = plan'[q] /\ n = Len(log) /\ m = Len(log')
      BY <1>2, <2>1 DEF Follows
    <3>2. Authorised(p, q, n)
      BY <1>2, <2>1, <3>1, FollowsFrom DEF Authorising
    <3>3. n \in Nat /\ m \in Nat /\ n <= m
      BY <3>1, LogGrows
    <3>4. Authorised(p, q, m)'
      BY <3>2, <3>3, AuthorisedStays
    <3> QED BY <3>1, <3>4 DEF Authorised, LinesOf
  <2>2. CASE ~Follows(q)
    <3>1. Approves(q)
      <4>1. PICK r \in Requests : Effect(r)
        <5>1. ~Quiet
          BY <2>2 DEF Quiet
        <5>2. ~CrashAndRestart
          BY <1>2 DEF CrashAndRestart, Die
        <5> QED BY <5>1, <5>2, Effects
      <4>2. q = r
        BY <2>2, <4>1 DEF Effect, Asks, GetsPlan, Decides, Arrived, Approves, Resolves,
                          OthersFollow
      <4>3. ~Resolves(q)
        BY <2>2 DEF Resolves
      <4>4. ~(Asks(q) \/ GetsPlan(q) \/ Decides(q) \/ Arrived(q))
        BY <1>2 DEF Asks, GetsPlan, Decides, Arrived
      <4> QED BY <4>1, <4>2, <4>3, <4>4 DEF Effect
    <3>2. plan[q] \in Plans /\ plan'[q] = plan[q] /\ status[plan[q]] \notin {"absent", "denied"}
      BY <3>1 DEF Approves, Tracked, TrackedAt, Deciding, Approving, TypeOK, HandlersOK
    <3>3. PICK p : p = plan[q] /\ p = plan'[q] /\ p \in Plans
      BY <3>2
    <3>4. PICK a \in DOMAIN log : a \in LinesOf(p, "policy_decision", "allow")
      BY <3>2, <3>3 DEF Authorising, LinesOf
    <3>5. a \in LinesOf(p, "policy_decision", "allow")'
      BY <3>4, LinesStay
    <3>6. log' = Append(log, Entry("approval", p, "approve", q, 0))
      BY <3>1, <3>3 DEF Approves
    <3>7. PICK b \in Nat : b = Len(log) + 1
      BY <1>a
    <3>8. /\ b \in DOMAIN log' /\ b = Len(log') /\ a \in 1 .. b /\ a < b /\ b \in 1 .. b
          /\ log'[b] = Entry("approval", p, "approve", q, 0)
      BY <1>a, <3>4, <3>6, <3>7
    <3>9. b \in LinesOf(p, "approval", "approve")' /\ log'[b].by = q
      BY <3>8 DEF LinesOf, Entry
    <3>10. Authorised(p, q, b)'
      BY <3>5, <3>8, <3>9 DEF Authorised
    <3> QED BY <3>3, <3>8, <3>10 DEF Authorised, LinesOf
  <2> QED BY <2>1, <2>2
<1> QED BY <1>1, <1>2 DEF Authorising

(* Every step keeps what has run authorised: only an authorised request runs. *)
LEMMA RunsStep ==
  ASSUME TypeOK, Planned, Authorising, RunsAreAuthorised, [Next]_vars
  PROVE  RunsAreAuthorised'
<1>1. \/ runs' = runs
      \/ \E r \in Requests : \E l : pc[r] = "run" /\ runs' = Append(runs, RunOf(r, l))
  BY Effects DEF Effect, Quiet, Asks, GetsPlan, Decides, Arrived, Approves, Resolves,
                 CrashAndRestart, Die
<1>2. runs \in Seq(RunType) /\ log \in Seq(EntryType)
  BY DEF TypeOK, WorldOK
<1>3. ASSUME NEW i \in DOMAIN runs'
      PROVE  Authorised(runs[i].plan, runs[i].by, runs[i].at)'
  <2>1. PICK p, q, n : p = runs'[i].plan /\ q = runs'[i].by /\ n = runs'[i].at
    OBVIOUS
  <2>2. Authorised(p, q, n) /\ n \in Nat
    <3>1. CASE i \in DOMAIN runs /\ runs'[i] = runs[i]
      <4>1. n \in Nat
        <5>1. runs[i] \in RunType
          BY <1>2, <3>1
        <5> QED BY <2>1, <3>1, <5>1 DEF RunType
      <4>2. p = runs[i].plan /\ q = runs[i].by /\ n = runs[i].at
        BY <2>1, <3>1
      <4>3. Authorised(runs[i].plan, runs[i].by, runs[i].at)
        BY <3>1 DEF RunsAreAuthorised
      <4> QED BY <4>1, <4>2, <4>3
    <3>2. ASSUME NEW r \in Requests, NEW l, pc[r] = "run", runs'[i] = RunOf(r, l)
          PROVE  Authorised(p, q, n) /\ n \in Nat
      <4>1. p = plan[r] /\ q = r /\ n = Len(log)
        BY <2>1, <3>2 DEF RunOf
      <4> QED BY <1>2, <3>2, <4>1 DEF Authorising
    <3>3. ASSUME NEW r \in Requests, NEW l, runs' = Append(runs, RunOf(r, l))
          PROVE  (i \in DOMAIN runs /\ runs'[i] = runs[i]) \/ runs'[i] = RunOf(r, l)
      BY <1>2, <3>3
    <3> QED BY <1>1, <3>1, <3>2, <3>3
  <2>3. Authorised(p, q, n)'
    BY <2>2, AuthorisedStays
  <2> QED BY <2>1, <2>3 DEF Authorised, LinesOf
<1> QED BY <1>3 DEF RunsAreAuthorised

-----------------------------------------------------------------------------
(***************************************************************************)
(*                             The theorems                                *)
(***************************************************************************)
(* The inductive invariant holds at the start. *)
LEMMA InvInit ==
  ASSUME Init
  PROVE  SafetyInv
<1>1. TypeOK
  BY TypeInit
<1>2. "idle" \notin Asking /\ "idle" \notin Deciding
  BY DEF Asking, Deciding, Approving, Rejecting
<1>3. Planned /\ Tracked /\ DenyIsFinal
  BY <1>2 DEF Init, Planned, Tracked, TrackedAt, DenyIsFinal
<1>4. Authorising /\ RunsAreAuthorised
  BY DEF Init, Authorising, RunsAreAuthorised
<1> QED BY <1>1, <1>3, <1>4 DEF SafetyInv

(* Every step keeps the inductive invariant. *)
LEMMA InvStep ==
  ASSUME SafetyInv, [Next]_vars
  PROVE  SafetyInv'
BY TypeStep, PlannedStep, TrackedStep, DenyStep, AuthorisingStep, RunsStep DEF SafetyInv

(* The inductive invariant holds in every reachable state of Gateway. *)
THEOREM Invariance == Spec => []SafetyInv
BY InvInit, InvStep, PTL DEF Spec

(***************************************************************************)
(* Every variable keeps its type: among others no session is ever charged  *)
(* beyond the limit (QueryBudget.consume), and a handler that is past its  *)
(* form is the only one to hold the event loop.                            *)
(***************************************************************************)
THEOREM TypeCorrect == Spec => []TypeOK
<1>1. SafetyInv => TypeOK
  BY DEF SafetyInv
<1> QED BY <1>1, Invariance, PTL

(***************************************************************************)
(* A policy deny is never overridden, however requests overlap (main.py's  *)
(* approve and reject look at the status before they await the form).      *)
(***************************************************************************)
THEOREM DenyCorrect == Spec => []DenyIsFinal
<1>1. SafetyInv => DenyIsFinal
  BY DEF SafetyInv
<1> QED BY <1>1, Invariance, PTL

(***************************************************************************)
(* Nothing runs without the policy's allow and then the requester's own    *)
(* approval in the audit log before it, whatever appends raise and         *)
(* whenever the process dies (ask, approve and run_plan).                  *)
(***************************************************************************)
THEOREM RunsCorrect == Spec => []RunsAreAuthorised
<1>1. SafetyInv => RunsAreAuthorised
  BY DEF SafetyInv
<1> QED BY <1>1, Invariance, PTL

-----------------------------------------------------------------------------
(***************************************************************************)
(*                             The refinement                              *)
(***************************************************************************)
-----------------------------------------------------------------------------
(***************************************************************************)
(* What a step can do to the log, to what has run and to who is about to   *)
(* run: append the line of one handler, add one run, or move requests.     *)
(***************************************************************************)
OthersStay(r) == \A q \in Requests \ {r} : pc'[q] = pc[q] /\ plan'[q] = plan[q]

(* The others that ask, or have an approval to act on, do so before and after. *)
OthersStand(r) ==
  \A q \in Requests \ {r} :
    pc[q] \in Asking \cup {"charge", "run"} \/ pc'[q] \in Asking \cup {"charge", "run"} =>
      pc'[q] = pc[q] /\ plan'[q] = plan[q]

(* Handler r appends its line, or raises or dies trying to. *)
Appends(r) ==
  /\ pc[r] \in Logging
  /\ log' \in {log, Append(log, Line(r))}
  /\ pc'[r] # "run"
  /\ pc'[r] = "charge" => /\ pc[r] = "approved" /\ plan'[r] = plan[r]
                          /\ log' = Append(log, Line(r))
  /\ pc'[r] \in Asking => pc[r] \in Asking \ {"policy"} /\ plan'[r] = plan[r]
  /\ OthersStand(r)
  /\ UNCHANGED << runs, known >>

(* Request r runs its plan. *)
Runs(r) ==
  /\ pc[r] = "run"
  /\ \E l : runs' = Append(runs, RunOf(r, l))
  /\ pc'[r] \notin {"charge", "run"} \cup Asking
  /\ OthersStay(r)
  /\ UNCHANGED << log, known >>

(* Neither the log nor the runs change; plans not known before may come up. *)
Moves ==
  /\ \A q \in Requests :
       /\ pc'[q] \in {"charge", "run"} => pc[q] \in {"charge", "run"} /\ plan'[q] = plan[q]
       /\ pc'[q] \in Asking => \/ pc[q] \in Asking /\ plan'[q] = plan[q]
                               \/ plan'[q] \notin known
  /\ known \subseteq known'
  /\ UNCHANGED << log, runs >>

(* No state of a handler is of two kinds. *)
LEMMA KindsDisjoint ==
  /\ {"idle", "approve form", "reject form"} \cap (Asking \cup {"charge", "run"}) = {}
  /\ (Approving \cup Rejecting) \cap Asking = {}
  /\ Asking = {"question", "schema", "no plan", "planned", "validation", "policy"}
BY DEF Asking, Approving, Rejecting

(* A handler that ends or goes on leaves all others where they are. *)
LEMMA OneMoves ==
  ASSUME HandlersOK, NEW r \in Requests, NEW to, Return(r) \/ Goto(r, to)
  PROVE  /\ OthersStay(r) /\ OthersStand(r)
         /\ Return(r) => pc'[r] = "idle"
         /\ Goto(r, to) => pc'[r] = to /\ plan'[r] = plan[r]
<1>1. /\ OthersStay(r)
      /\ Return(r) => pc'[r] = "idle"
      /\ Goto(r, to) => pc'[r] = to /\ plan'[r] = plan[r]
  BY DEF HandlersOK, OthersStay, Return, Goto
<1> QED BY <1>1 DEF OthersStay, OthersStand

(* Logging between two places is an append, if it does not lead to a run. *)
LEMMA LogsBetweenAppends ==
  ASSUME HandlersOK, NEW r \in Requests, NEW from \in Logging \ {"policy"}, NEW to,
         to \notin {"charge", "run"}, to \in Asking => from \in Asking,
         LogsBetween(r, from, to)
  PROVE  Appends(r)
<1>1. CASE Logged(Line(r)) /\ Goto(r, to)
  BY <1>1, OneMoves DEF LogsBetween, At, Logged, Appends
<1>2. CASE AppendRaised(Line(r)) /\ Return(r)
  BY <1>2, OneMoves, KindsDisjoint DEF LogsBetween, At, AppendRaised, Appends
<1> QED BY <1>1, <1>2 DEF LogsBetween

(* Logging as the last thing is an append. *)
LEMMA LogsLastAppends ==
  ASSUME HandlersOK, NEW r \in Requests, NEW from \in Logging, LogsLast(r, from)
  PROVE  Appends(r)
BY OneMoves, KindsDisjoint DEF LogsLast, At, Logged, AppendRaised, Appends

(* What the steps of a question do. *)
LEMMA AskKinds ==
  ASSUME TypeOK, NEW r \in Requests, Ask(r)
  PROVE  Appends(r) \/ Moves
<1> USE DEF TypeOK
<1>a. {"question", "no plan", "planned", "validation", "policy"} \subseteq Logging
  BY DEF Logging
<1>1. CASE LogQuestion(r)
  BY <1>1, <1>a, LogsBetweenAppends, KindsDisjoint DEF LogQuestion
<1>2. CASE AskNoSchema(r)
  BY <1>2, OneMoves, KindsDisjoint DEF AskNoSchema, At, OthersStay, Moves, ghosts
<1>3. CASE AskNoPlan(r)
  BY <1>3, OneMoves, KindsDisjoint DEF AskNoPlan, At, OthersStay, Moves, ghosts
<1>4. CASE LogNoPlan(r)
  BY <1>4, <1>a, LogsLastAppends DEF LogNoPlan
<1>5. CASE AskPlanned(r)
  <2>1. OthersStay(r) /\ pc'[r] = "planned" /\ plan'[r] = plan[r] /\ pc[r] = "schema"
    BY <1>5, OneMoves DEF AskPlanned, At
  <2>2. "planned" \in Asking /\ "schema" \in Asking /\ "planned" \notin {"charge", "run"}
    BY DEF Asking
  <2>3. UNCHANGED << log, runs, known >>
    BY <1>5 DEF AskPlanned
  <2> QED BY <2>1, <2>2, <2>3 DEF OthersStay, Moves
<1>6. CASE LogPlanned(r)
  BY <1>6, <1>a, LogsBetweenAppends, KindsDisjoint DEF LogPlanned
<1>7. CASE LogValidation(r)
  <2>1. CASE /\ Logged(Line(r))
             /\ Goto(r, IF todo[r] = 1 THEN "policy" ELSE "validation")
    BY <1>7, <1>a, <2>1, OneMoves, KindsDisjoint DEF LogValidation, At, Logged, Appends
  <2>2. CASE AppendRaised(Line(r)) /\ Return(r)
    BY <1>7, <1>a, <2>2, OneMoves, KindsDisjoint DEF LogValidation, At, AppendRaised, Appends
  <2> QED BY <1>7, <2>1, <2>2 DEF LogValidation
<1>8. CASE LogPolicy(r)
  BY <1>8, <1>a, OneMoves, KindsDisjoint DEF LogPolicy, At, Logged, AppendRaised, Appends
<1> QED BY <1>1, <1>2, <1>3, <1>4, <1>5, <1>6, <1>7, <1>8 DEF Ask

(* What the steps of an approval do. *)
LEMMA ApproveKinds ==
  ASSUME TypeOK, NEW r \in Requests, Approve(r) \/ LogReject(r)
  PROVE  Appends(r) \/ Runs(r) \/ Moves
<1> USE DEF TypeOK
<1>a. {"approved", "over budget", "run failed", "guard", "digest", "rejected"} \subseteq Logging
  BY DEF Logging
<1>1. CASE LogApproval(r)
  <2>1. CASE Logged(Line(r)) /\ Goto(r, "charge")
    BY <1>1, <1>a, <2>1, OneMoves, KindsDisjoint DEF LogApproval, At, Logged, Appends
  <2>2. CASE AppendRaised(Line(r)) /\ Return(r)
    BY <1>1, <1>a, <2>2, OneMoves, KindsDisjoint DEF LogApproval, At, AppendRaised, Appends
  <2> QED BY <1>1, <2>1, <2>2 DEF LogApproval
<1>2. CASE Charge(r)
  <2>1. pc[r] = "charge" /\ UNCHANGED << log, runs, known >>
    BY <1>2 DEF Charge, At, ghosts
  <2>2. CASE Goto(r, "run")
    BY <2>1, <2>2, OneMoves, KindsDisjoint DEF OthersStay, Moves
  <2>3. CASE Goto(r, "over budget")
    <3>1. "over budget" \notin Asking \cup {"charge", "run"}
      BY KindsDisjoint
    <3> QED BY <2>1, <2>3, <3>1, OneMoves DEF OthersStay, Moves
  <2> QED BY <1>2, <2>2, <2>3 DEF Charge
<1>3. CASE LogOverBudget(r)
  BY <1>3, <1>a, LogsLastAppends DEF LogOverBudget
<1>b. {"guard", "run failed"} \cap ({"charge", "run"} \cup Asking) = {}
  BY KindsDisjoint
<1>4. CASE RunSucceeds(r)
  <2>1. pc[r] = "run" /\ Goto(r, "guard") /\ UNCHANGED << log, known >>
    BY <1>4 DEF RunSucceeds, At, ghosts
  <2>2. \E l : runs' = Append(runs, RunOf(r, l))
    BY <1>4 DEF RunSucceeds
  <2> QED BY <1>b, <2>1, <2>2, OneMoves DEF Runs
<1>5. CASE RunFails(r)
  <2>1. pc[r] = "run" /\ Goto(r, "run failed") /\ UNCHANGED << log, known >>
    BY <1>5 DEF RunFails, At, ghosts
  <2>2. \E l : runs' = Append(runs, RunOf(r, l))
    BY <1>5 DEF RunFails
  <2> QED BY <1>b, <2>1, <2>2, OneMoves DEF Runs
<1>6. CASE LogRunFailed(r)
  BY <1>6, <1>a, LogsLastAppends DEF LogRunFailed
<1>7. CASE LogGuard(r)
  BY <1>7, <1>a, LogsBetweenAppends, KindsDisjoint DEF LogGuard
<1>8. CASE LogDigest(r)
  BY <1>8, <1>a, LogsLastAppends DEF LogDigest
<1>9. CASE LogReject(r)
  BY <1>9, <1>a, LogsLastAppends DEF LogReject
<1> QED BY <1>1, <1>2, <1>3, <1>4, <1>5, <1>6, <1>7, <1>8, <1>9 DEF Approve

(* What clients, relabelling and crashes do: they leave the log and the runs alone. *)
LEMMA OtherKinds ==
  ASSUME TypeOK,
         (\E r \in Requests : Client(r)) \/ Relabel \/ CrashAndRestart \/ UNCHANGED vars
  PROVE  Moves
<1> USE KindsDisjoint DEF Moves
<1>1. ASSUME NEW r \in Requests, NEW p \in Plans, AskReceived(r, p)
      PROVE  Moves
  BY <1>1 DEF AskReceived, TypeOK, HandlersOK
<1>2. ASSUME NEW r \in Requests, NEW p \in Plans, NEW form \in {"approve form", "reject form"},
             Arrives(r, p, form)
      PROVE  Moves
  BY <1>2 DEF Arrives, TypeOK, HandlersOK, ghosts
<1>3. ASSUME NEW r \in Requests, FormLost(r)
      PROVE  Moves
  BY <1>3, OneMoves DEF FormLost, OthersStay, TypeOK, ghosts
<1>4. ASSUME NEW r \in Requests, ApproveResumes(r)
      PROVE  Moves
  <2>1. "approved" \notin Asking \cup {"charge", "run"}
    BY KindsDisjoint
  <2> QED BY <1>4, <2>1 DEF ApproveResumes, TypeOK, HandlersOK, ghosts
<1>5. ASSUME NEW r \in Requests, RejectResumes(r)
      PROVE  Moves
  <2>1. "rejected" \notin Asking \cup {"charge", "run"}
    BY KindsDisjoint
  <2> QED BY <1>5, <2>1 DEF RejectResumes, TypeOK, HandlersOK, ghosts
<1>6. CASE UNCHANGED vars
  BY <1>6 DEF vars
<1>7. CASE Relabel
  BY <1>7 DEF Relabel, handlers
<1>8. CASE CrashAndRestart
  BY <1>8 DEF CrashAndRestart, Die
<1> QED BY <1>1, <1>2, <1>3, <1>4, <1>5, <1>6, <1>7, <1>8
        DEF Client, AskEmpty, Refuse, ApproveArrives, RejectArrives

(* Every step appends a line, runs a plan or moves requests. *)
LEMMA Kinds ==
  ASSUME TypeOK, [Next]_vars
  PROVE  (\E r \in Requests : Appends(r) \/ Runs(r)) \/ Moves
BY AskKinds, ApproveKinds, OtherKinds DEF Next, Continue

-----------------------------------------------------------------------------
(***************************************************************************)
(* What these steps do to the trail as Boundary sees it.                   *)
(***************************************************************************)
(* Appending a line adds its position to the lines of its kind, and to no other. *)
LEMMA LinesOfAppend ==
  ASSUME log \in Seq(EntryType), NEW e \in EntryType, log' = Append(log, e),
         NEW p, NEW event, NEW value
  PROVE  LinesOf(p, event, value)' =
           LinesOf(p, event, value)
             \cup (IF e.event = event /\ e.plan = p /\ e.value = value
                   THEN {Len(log) + 1} ELSE {})
<1>1. /\ DOMAIN log = 1 .. Len(log) /\ Len(log) \in Nat
      /\ DOMAIN log' = 1 .. Len(log) + 1
      /\ log'[Len(log) + 1] = e
      /\ \A i \in 1 .. Len(log) : log'[i] = log[i]
  OBVIOUS
<1> QED BY <1>1 DEF LinesOf

(* The approvals of a plan by a request are finitely many lines. *)
LEMMA ApprovalsFinite ==
  ASSUME log \in Seq(EntryType), NEW p, NEW r
  PROVE  /\ IsFiniteSet(ApprovalsOf(p, r))
         /\ Cardinality(ApprovalsOf(p, r)) \in Nat
         /\ Len(log) + 1 \notin ApprovalsOf(p, r)
<1>1. DOMAIN log = 1 .. Len(log) /\ Len(log) \in Nat
  OBVIOUS
<1>2. ApprovalsOf(p, r) \subseteq 1 .. Len(log)
  BY <1>1 DEF ApprovalsOf, LinesOf
<1>3. IsFiniteSet(1 .. Len(log))
  BY <1>1, FS_Interval
<1>4. IsFiniteSet(ApprovalsOf(p, r))
  BY <1>2, <1>3, FS_Subset
<1>5. Len(log) + 1 \notin 1 .. Len(log)
  BY <1>1
<1> QED BY <1>2, <1>4, <1>5, FS_CardinalityType

(* The runs of a plan by a request are finitely many. *)
LEMMA RunsFinite ==
  ASSUME runs \in Seq(RunType), NEW p, NEW r
  PROVE  /\ IsFiniteSet(RunsBy(p, r))
         /\ Cardinality(RunsBy(p, r)) \in Nat
         /\ Len(runs) + 1 \notin RunsBy(p, r)
<1>1. DOMAIN runs = 1 .. Len(runs) /\ Len(runs) \in Nat
  OBVIOUS
<1>2. RunsBy(p, r) \subseteq 1 .. Len(runs)
  BY <1>1 DEF RunsBy, RunsOf
<1>3. IsFiniteSet(1 .. Len(runs))
  BY <1>1, FS_Interval
<1>4. IsFiniteSet(RunsBy(p, r))
  BY <1>2, <1>3, FS_Subset
<1>5. Len(runs) + 1 \notin 1 .. Len(runs)
  BY <1>1
<1> QED BY <1>2, <1>4, <1>5, FS_CardinalityType

(* A line that is no approval of p by r leaves their number as it is; one that is adds one. *)
LEMMA ApprovalsCount ==
  ASSUME log \in Seq(EntryType), NEW e \in EntryType, log' = Append(log, e), NEW p, NEW r
  PROVE  Cardinality(ApprovalsOf(p, r)') =
           Cardinality(ApprovalsOf(p, r))
             + (IF e.event = "approval" /\ e.plan = p /\ e.value = "approve" /\ e.by = r
                THEN 1 ELSE 0)
<1>1. /\ DOMAIN log = 1 .. Len(log) /\ Len(log) \in Nat
      /\ log'[Len(log) + 1] = e
      /\ \A i \in DOMAIN log : log'[i] = log[i]
  OBVIOUS
<1>2. LinesOf(p, "approval", "approve") \subseteq DOMAIN log
  BY DEF LinesOf
<1>3. CASE e.event = "approval" /\ e.plan = p /\ e.value = "approve" /\ e.by = r
  <2>1. ApprovalsOf(p, r)' = ApprovalsOf(p, r) \cup {Len(log) + 1}
    BY <1>1, <1>2, <1>3, LinesOfAppend DEF ApprovalsOf
  <2>2. PICK S, n : S = ApprovalsOf(p, r) /\ n = Len(log) + 1
    OBVIOUS
  <2>3. IsFiniteSet(S) /\ n \notin S
    BY <2>2, ApprovalsFinite
  <2>4. Cardinality(S \cup {n}) = Cardinality(S) + 1
    BY <2>3, FS_AddElement
  <2>5. Cardinality(ApprovalsOf(p, r)') = Cardinality(S \cup {n})
    BY <2>1, <2>2
  <2> QED BY <1>3, <2>2, <2>4, <2>5
<1>4. CASE ~(e.event = "approval" /\ e.plan = p /\ e.value = "approve" /\ e.by = r)
  <2>1. ApprovalsOf(p, r)' = ApprovalsOf(p, r)
    BY <1>1, <1>2, <1>4, LinesOfAppend DEF ApprovalsOf
  <2>2. Cardinality(ApprovalsOf(p, r)) \in Nat
    BY ApprovalsFinite
  <2> QED BY <1>4, <2>1, <2>2
<1> QED BY <1>3, <1>4

(* A line that is no decision on p leaves the verdict on p as it is. *)
LEMMA VerdictStays ==
  ASSUME log \in Seq(EntryType), NEW e \in EntryType, log' \in {log, Append(log, e)}, NEW p,
         e.event # "policy_decision" \/ e.plan # p
  PROVE  VerdictOf(p)' = VerdictOf(p)
<1>1. CASE log' = log
  BY <1>1 DEF VerdictOf, LinesOf
<1>2. CASE log' = Append(log, e)
  <2>1. ASSUME NEW v \in {"allow", "deny"}
        PROVE  LinesOf(p, "policy_decision", v)' = LinesOf(p, "policy_decision", v)
    <3>1. ~(e.event = "policy_decision" /\ e.plan = p /\ e.value = v)
      OBVIOUS
    <3>2. LinesOf(p, "policy_decision", v)' = LinesOf(p, "policy_decision", v)
            \cup (IF e.event = "policy_decision" /\ e.plan = p /\ e.value = v
                  THEN {Len(log) + 1} ELSE {})
      BY <1>2, LinesOfAppend
    <3> QED BY <3>1, <3>2
  <2> QED BY <2>1 DEF VerdictOf
<1> QED BY <1>1, <1>2

(* One more run of p by r, and of nothing else, counts as one. *)
LEMMA RunsCount ==
  ASSUME runs \in Seq(RunType), runs' \in Seq(RunType), NEW run, runs' = Append(runs, run),
         NEW p, NEW r
  PROVE  Cardinality(RunsBy(p, r)') =
           Cardinality(RunsBy(p, r)) + (IF run.plan = p /\ run.by = r THEN 1 ELSE 0)
<1>1. /\ DOMAIN runs = 1 .. Len(runs) /\ Len(runs) \in Nat
      /\ DOMAIN runs' = 1 .. Len(runs) + 1
      /\ runs'[Len(runs) + 1] = run
      /\ \A i \in DOMAIN runs : runs'[i] = runs[i]
  OBVIOUS
<1>2. CASE run.plan = p /\ run.by = r
  <2>1. RunsBy(p, r)' = RunsBy(p, r) \cup {Len(runs) + 1}
    BY <1>1, <1>2 DEF RunsBy, RunsOf
  <2>2. PICK S, n : S = RunsBy(p, r) /\ n = Len(runs) + 1
    OBVIOUS
  <2>3. IsFiniteSet(S) /\ n \notin S
    BY <2>2, RunsFinite
  <2>4. Cardinality(S \cup {n}) = Cardinality(S) + 1
    BY <2>3, FS_AddElement
  <2>5. Cardinality(RunsBy(p, r)') = Cardinality(S \cup {n})
    BY <2>1, <2>2
  <2> QED BY <1>2, <2>2, <2>4, <2>5
<1>3. CASE ~(run.plan = p /\ run.by = r)
  <2>1. RunsBy(p, r)' = RunsBy(p, r)
    BY <1>1, <1>3 DEF RunsBy, RunsOf
  <2>2. Cardinality(RunsBy(p, r)) \in Nat
    BY RunsFinite
  <2> QED BY <1>3, <2>1, <2>2
<1> QED BY <1>2, <1>3

-----------------------------------------------------------------------------
(***************************************************************************)
(* Each kind of step, as Boundary sees it.                                 *)
(***************************************************************************)
(* A step that changes neither the log nor the runs changes no part of the trail. *)
LEMMA TrailStays ==
  ASSUME UNCHANGED << log, runs >>
  PROVE  Verdicts' = Verdicts /\ Given' = Given /\ Ran' = Ran
BY DEF Verdicts, Given, Ran, VerdictOf, ApprovalsOf, RunsBy, RunsOf, LinesOf

(* Requests that stay, or leave for elsewhere, only take approvals away. *)
LEMMA StandingShrinks ==
  ASSUME \A q \in Requests :
           pc'[q] \in {"charge", "run"} => pc[q] \in {"charge", "run"} /\ plan'[q] = plan[q]
  PROVE  Standing' \in SUBSET Standing
BY DEF Standing

(* Nothing standing can lapse in a step that is no step of Boundary otherwise. *)
LEMMA LapseStep ==
  ASSUME Verdicts' = Verdicts, Given' = Given, Ran' = Ran, Standing' \in SUBSET Standing
  PROVE  B!Next
BY DEF B!Next, B!Lapse

(* Requests that move without logging or running are a lapse. *)
LEMMA MovesStep ==
  ASSUME Moves
  PROVE  B!Next
<1>1. Standing' \in SUBSET Standing
  BY StandingShrinks DEF Moves
<1> QED BY <1>1, TrailStays, LapseStep DEF Moves

(* A run uses up the approval of the request that runs. *)
LEMMA RunStep ==
  ASSUME TypeOK, TypeOK', NEW r \in Requests, Runs(r)
  PROVE  B!Next
<1>1. PICK p \in Plans : p = plan[r]
  BY DEF Runs, TypeOK, HandlersOK
<1>2. PICK l : runs' = Append(runs, RunOf(r, l))
  BY DEF Runs
<1>3. Verdicts' = Verdicts /\ Given' = Given
  BY DEF Runs, Verdicts, Given, VerdictOf, ApprovalsOf, LinesOf
<1>4. << p, r >> \in Standing /\ Standing' = Standing \ {<< p, r >>}
  <2>1. << p, r >> \in Standing
    BY <1>1 DEF Runs, Standing
  <2>2. ASSUME NEW q \in Plans, NEW s \in Requests
        PROVE  << q, s >> \in Standing' <=> << q, s >> \in Standing /\ << q, s >> # << p, r >>
    <3>1. CASE s = r
      BY <1>1, <3>1 DEF Runs, Standing
    <3>2. CASE s # r
      BY <3>2 DEF Runs, OthersStay, Standing
    <3> QED BY <3>1, <3>2
  <2>3. Standing \subseteq Plans \X Requests /\ Standing' \subseteq Plans \X Requests
    BY DEF Standing
  <2> QED BY <2>1, <2>2, <2>3
<1>5. Ran' = [Ran EXCEPT ![<< p, r >>] = @ + 1]
  <2>1. RunOf(r, l).plan = p /\ RunOf(r, l).by = r
    BY <1>1 DEF RunOf
  <2>2. ASSUME NEW q \in Plans, NEW s \in Requests
        PROVE  Cardinality(RunsBy(q, s)') =
                 Cardinality(RunsBy(q, s)) + (IF q = p /\ s = r THEN 1 ELSE 0)
    <3>1. runs \in Seq(RunType) /\ runs' \in Seq(RunType)
      BY DEF TypeOK, WorldOK
    <3> QED BY <1>2, <2>1, <3>1, RunsCount
  <2>3. ASSUME NEW q \in Plans, NEW s \in Requests
        PROVE  Cardinality(RunsBy(q, s)) \in Nat
    BY RunsFinite DEF TypeOK, WorldOK
  <2>4. \A x \in Plans \X Requests :
          Cardinality(RunsBy(x[1], x[2])') =
            IF x = << p, r >> THEN Cardinality(RunsBy(x[1], x[2])) + 1
            ELSE Cardinality(RunsBy(x[1], x[2]))
    BY <2>2, <2>3
  <2> QED BY <2>4 DEF Ran
<1>6. B!Run(p, r)
  BY <1>3, <1>4, <1>5 DEF B!Run
<1> QED BY <1>6 DEF B!Next

(* A handler about to append has a plan, a line of the right type, and the loop. *)
LEMMA LoggerTyped ==
  ASSUME TypeOK, NEW r \in Requests, pc[r] \in Logging
  PROVE  busy = r /\ plan[r] \in Plans /\ Line(r) \in EntryType
<1>1. pc[r] \in Running /\ pc[r] # "idle"
  BY DEF Logging, Running, Asking, Approving, Rejecting
<1>2. busy = r /\ plan[r] \in Plans
  BY <1>1 DEF TypeOK, HandlersOK
<1>3. PICK from \in Logging : from = pc[r]
  OBVIOUS
<1> QED BY <1>2, <1>3, LineTyped DEF At

(* A line that is no approval leaves the number of approvals as it is. *)
LEMMA GivenStays ==
  ASSUME log \in Seq(EntryType), NEW e \in EntryType, log' \in {log, Append(log, e)},
         ~(e.event = "approval" /\ e.value = "approve")
  PROVE  Given' = Given
<1>1. ASSUME NEW p \in Plans, NEW s \in Requests
      PROVE  Cardinality(ApprovalsOf(p, s)') = Cardinality(ApprovalsOf(p, s))
  <2>1. CASE log' = log
    BY <2>1 DEF ApprovalsOf, LinesOf
  <2>2. CASE log' = Append(log, e)
    <3>1. Cardinality(ApprovalsOf(p, s)) \in Nat
      BY ApprovalsFinite
    <3>2. Cardinality(ApprovalsOf(p, s)') = Cardinality(ApprovalsOf(p, s)) + 0
      BY <2>2, ApprovalsCount
    <3> QED BY <3>1, <3>2
  <2> QED BY <2>1, <2>2
<1> QED BY <1>1 DEF Given

(* An append that is neither a decision nor an approval is a lapse, at most. *)
LEMMA OtherLineStep ==
  ASSUME TypeOK, NEW r \in Requests, Appends(r), pc[r] \notin {"policy", "approved"}
  PROVE  B!Next
<1>1. Line(r) \in EntryType
  BY LoggerTyped DEF Appends
<1>2. /\ Line(r).event # "policy_decision"
      /\ ~(Line(r).event = "approval" /\ Line(r).value = "approve")
  BY DEF Appends, Line, Entry, Logging
<1>3. Verdicts' = Verdicts
  BY <1>1, <1>2, VerdictStays DEF Appends, Verdicts, TypeOK, WorldOK
<1>4. Given' = Given
  BY <1>1, <1>2, GivenStays DEF Appends, TypeOK, WorldOK
<1>5. Ran' = Ran
  BY DEF Appends, Ran, RunsBy, RunsOf
<1>6. Standing' \in SUBSET Standing
  BY StandingShrinks DEF Appends, OthersStand
<1> QED BY <1>3, <1>4, <1>5, <1>6, LapseStep

(* The policy's line is the one decision on its plan, or it was not written. *)
LEMMA DecideStep ==
  ASSUME TypeOK, Tracked, Undecided, NEW r \in Requests, Appends(r), pc[r] = "policy"
  PROVE  B!Next
<1>1. Line(r) \in EntryType /\ log \in Seq(EntryType)
  BY LoggerTyped DEF Appends, TypeOK, WorldOK
<1>2. PICK p \in Plans : p = plan[r]
  BY LoggerTyped DEF Appends
<1>3. PICK v \in {"allow", "deny"} : Line(r) = Entry("policy_decision", p, v, NoOne, 0)
  BY <1>2 DEF Line
<1>4. Given' = Given
  BY <1>1, <1>3, GivenStays DEF Appends, Entry
<1>5. Ran' = Ran
  BY DEF Appends, Ran, RunsBy, RunsOf
<1>6. Standing' = Standing
  <2>1. ASSUME NEW q \in Requests
        PROVE  /\ pc'[q] \in {"charge", "run"} <=> pc[q] \in {"charge", "run"}
               /\ pc[q] \in {"charge", "run"} => plan'[q] = plan[q]
    BY DEF Appends, OthersStand
  <2> QED BY <2>1 DEF Standing
<1>7. ASSUME NEW q \in Plans, q # p
      PROVE  VerdictOf(q)' = VerdictOf(q)
  BY <1>1, <1>3, <1>7, VerdictStays DEF Appends, Entry
<1>8. CASE log' = log
  <2>1. Verdicts' = Verdicts
    BY <1>8 DEF Verdicts, VerdictOf, LinesOf
  <2> QED BY <1>4, <1>5, <1>6, <2>1, LapseStep
<1>9. CASE log' = Append(log, Line(r))
  <2>1. VerdictOf(p) = "none"
    BY <1>2, KindsDisjoint DEF Undecided
  <2>2. /\ LinesOf(p, "policy_decision", "allow") = {}
        /\ LinesOf(p, "policy_decision", "deny") = {}
    BY <2>1 DEF VerdictOf
  <2>3. ASSUME NEW w \in {"allow", "deny"}
        PROVE  LinesOf(p, "policy_decision", w)' = IF w = v THEN {Len(log) + 1} ELSE {}
    <3>1. LinesOf(p, "policy_decision", w)' =
            LinesOf(p, "policy_decision", w)
              \cup (IF /\ Line(r).event = "policy_decision" /\ Line(r).plan = p
                       /\ Line(r).value = w
                    THEN {Len(log) + 1} ELSE {})
      BY <1>1, <1>9, LinesOfAppend
    <3> QED BY <1>3, <2>2, <3>1 DEF Entry
  <2>4. VerdictOf(p)' = v
    BY <2>3 DEF VerdictOf
  <2>5. Verdicts' = [Verdicts EXCEPT ![p] = v] /\ Verdicts[p] = "none"
    BY <1>7, <2>1, <2>4 DEF Verdicts
  <2>6. B!Decide(p)
    BY <1>4, <1>5, <1>6, <2>5 DEF B!Decide
  <2> QED BY <2>6 DEF B!Next
<1> QED BY <1>8, <1>9 DEF Appends

(* An approval is of a plan the log allows, by a request that has none standing. *)
LEMMA ApproveStep ==
  ASSUME TypeOK, Tracked, Authorising, NEW r \in Requests, Appends(r), pc[r] = "approved"
  PROVE  B!Next
<1>1. Line(r) \in EntryType /\ log \in Seq(EntryType)
  BY LoggerTyped DEF Appends, TypeOK, WorldOK
<1>2. PICK p \in Plans : p = plan[r]
  BY LoggerTyped DEF Appends
<1>3. Line(r) = Entry("approval", p, "approve", r, 0)
  BY <1>2 DEF Line
<1>4. Verdicts' = Verdicts
  BY <1>1, <1>3, VerdictStays DEF Appends, Entry, Verdicts
<1>5. Ran' = Ran
  BY DEF Appends, Ran, RunsBy, RunsOf
<1>6. << p, r >> \notin Standing
  BY DEF Standing
<1>7. Standing' \in {Standing, Standing \cup {<< p, r >>}}
  <2>1. ASSUME NEW q \in Plans, NEW s \in Requests, << q, s >> # << p, r >>
        PROVE  << q, s >> \in Standing' <=> << q, s >> \in Standing
    <3>1. CASE s = r
      BY <1>2, <2>1, <3>1 DEF Appends, Standing
    <3>2. CASE s # r
      BY <3>2 DEF Appends, OthersStand, Standing
    <3> QED BY <3>1, <3>2
  <2>2. Standing \subseteq Plans \X Requests /\ Standing' \subseteq Plans \X Requests
    BY DEF Standing
  <2>3. CASE << p, r >> \in Standing'
    <3>1. \A x \in Plans \X Requests : x \in Standing' <=> x \in Standing \cup {<< p, r >>}
      BY <2>1, <2>3
    <3>2. << p, r >> \in Plans \X Requests
      OBVIOUS
    <3>3. Standing' = Standing \cup {<< p, r >>}
      BY <2>2, <3>1, <3>2
    <3> QED BY <3>3
  <2>4. CASE << p, r >> \notin Standing'
    <3>1. \A x \in Plans \X Requests : x \in Standing' <=> x \in Standing
      BY <1>6, <2>1, <2>4
    <3>2. Standing' = Standing
      BY <2>2, <3>1
    <3> QED BY <3>2
  <2> QED BY <2>3, <2>4
<1>8. CASE log' = log
  <2>1. Given' = Given
    BY <1>8 DEF Given, ApprovalsOf, LinesOf
  <2>2. log' # Append(log, Line(r))
    <3>1. Len(Append(log, Line(r))) = Len(log) + 1 /\ Len(log) \in Nat
      BY <1>1
    <3> QED BY <1>8, <3>1
  <2>3. Standing' \in SUBSET Standing
    BY <2>2, StandingShrinks DEF Appends, OthersStand
  <2> QED BY <1>4, <1>5, <2>1, <2>3, LapseStep
<1>9. CASE log' = Append(log, Line(r))
  <2>1. ASSUME NEW q \in Plans, NEW s \in Requests
        PROVE  Cardinality(ApprovalsOf(q, s)') =
                 Cardinality(ApprovalsOf(q, s)) + (IF q = p /\ s = r THEN 1 ELSE 0)
    <3>1. (/\ Line(r).event = "approval" /\ Line(r).plan = q
           /\ Line(r).value = "approve" /\ Line(r).by = s) <=> (q = p /\ s = r)
      BY <1>3 DEF Entry
    <3> QED BY <1>1, <1>9, <3>1, ApprovalsCount
  <2>2. ASSUME NEW q \in Plans, NEW s \in Requests
        PROVE  Cardinality(ApprovalsOf(q, s)) \in Nat
    BY <1>1, ApprovalsFinite
  <2>3. \A x \in Plans \X Requests :
          Cardinality(ApprovalsOf(x[1], x[2])') =
            IF x = << p, r >> THEN Cardinality(ApprovalsOf(x[1], x[2])) + 1
            ELSE Cardinality(ApprovalsOf(x[1], x[2]))
    BY <2>1, <2>2
  <2>4. Given' = [Given EXCEPT ![<< p, r >>] = @ + 1]
    BY <2>3 DEF Given
  <2>5. status[p] \notin {"absent", "denied"}
    BY <1>2 DEF Tracked, TrackedAt, Deciding, Approving
  <2>6. Verdicts[p] = "allow"
    <3>1. LinesOf(p, "policy_decision", "allow") # {}
      BY <2>5 DEF Authorising
    <3>2. VerdictOf(p) = "allow"
      BY <3>1 DEF VerdictOf
    <3> QED BY <3>2 DEF Verdicts
  <2>7. B!Approve(p, r)
    BY <1>4, <1>5, <1>6, <1>7, <2>4, <2>6 DEF B!Approve
  <2> QED BY <2>7 DEF B!Next
<1> QED BY <1>8, <1>9 DEF Appends

(* A line leaves a plan that is not decided, or asked for, without a decision. *)
LEMMA UndecidedLine ==
  ASSUME TypeOK, Tracked, Undecided, NEW r \in Requests, Appends(r)
  PROVE  Undecided'
<1> SUFFICES ASSUME NEW p \in Plans,
                    p \notin known' \/ \E q \in Requests : pc'[q] \in Asking /\ plan'[q] = p
             PROVE  VerdictOf(p)' = "none"
  BY DEF Undecided
<1>1. busy = r /\ plan[r] \in Plans /\ Line(r) \in EntryType
  BY LoggerTyped DEF Appends
<1>2. p \notin known \/ \E q \in Requests : pc[q] \in Asking \ {"policy"} /\ plan[q] = p
  <2>1. ASSUME NEW q \in Requests, pc'[q] \in Asking, plan'[q] = p
        PROVE  pc[q] \in Asking \ {"policy"} /\ plan[q] = p
    <3>1. CASE q = r
      BY <2>1, <3>1 DEF Appends
    <3>2. CASE q # r
      <4>1. pc[q] \in Asking
        BY <2>1, <3>2 DEF Appends, OthersStand
      <4> QED BY <1>1, <3>2, <4>1 DEF TypeOK, HandlersOK, Running
    <3> QED BY <3>1, <3>2
  <2> QED BY <2>1 DEF Appends
<1>3. VerdictOf(p) = "none"
  BY <1>2 DEF Undecided
<1>4. Line(r).event # "policy_decision" \/ Line(r).plan # p
  <2>1. CASE pc[r] = "policy"
    <3>1. plan[r] \in known
      BY <2>1, KindsDisjoint DEF Tracked, TrackedAt
    <3>2. \A q \in Requests : pc[q] \in Asking => q = r
      BY <1>1 DEF TypeOK, HandlersOK, Running
    <3>3. plan[r] # p
      BY <1>2, <2>1, <3>1, <3>2
    <3> QED BY <2>1, <3>3 DEF Line, Entry
  <2>2. CASE pc[r] # "policy"
    BY <2>2 DEF Appends, Line, Entry, Logging
  <2> QED BY <2>1, <2>2
<1> QED BY <1>1, <1>3, <1>4, VerdictStays DEF Appends, TypeOK, WorldOK

(* No step decides on a plan that is new, or is being asked for, without ending that. *)
LEMMA UndecidedStep ==
  ASSUME TypeOK, Tracked, Undecided, [Next]_vars
  PROVE  Undecided'
<1> SUFFICES ASSUME NEW p \in Plans,
                    p \notin known' \/ \E q \in Requests : pc'[q] \in Asking /\ plan'[q] = p
             PROVE  VerdictOf(p)' = "none"
  BY DEF Undecided
<1>1. CASE Moves
  <2>1. VerdictOf(p)' = VerdictOf(p)
    BY <1>1 DEF Moves, VerdictOf, LinesOf
  <2>2. p \notin known \/ \E q \in Requests : pc[q] \in Asking /\ plan[q] = p
    BY <1>1 DEF Moves
  <2>3. VerdictOf(p) = "none"
    BY <2>2 DEF Undecided
  <2> QED BY <2>1, <2>3
<1>2. ASSUME NEW r \in Requests, Runs(r)
      PROVE  VerdictOf(p)' = "none"
  <2>1. VerdictOf(p)' = VerdictOf(p)
    BY <1>2 DEF Runs, VerdictOf, LinesOf
  <2> QED BY <1>2, <2>1 DEF Runs, OthersStay, Undecided
<1>3. ASSUME NEW r \in Requests, Appends(r)
      PROVE  VerdictOf(p)' = "none"
  BY <1>3, UndecidedLine DEF Undecided
<1> QED BY <1>1, <1>2, <1>3, Kinds

-----------------------------------------------------------------------------
(***************************************************************************)
(*                             The theorems                                *)
(***************************************************************************)
(* At the start nothing is decided, given, standing or run. *)
LEMMA RefinementInit ==
  ASSUME Init
  PROVE  Undecided /\ B!Init
<1>1. \A p \in Plans : VerdictOf(p) = "none"
  BY DEF Init, VerdictOf, LinesOf
<1>2. \A p, r : ApprovalsOf(p, r) = {} /\ RunsBy(p, r) = {}
  BY DEF Init, ApprovalsOf, RunsBy, RunsOf, LinesOf
<1>3. Standing = {}
  BY DEF Init, Standing
<1>4. Given = [x \in Plans \X Requests |-> 0] /\ Ran = [x \in Plans \X Requests |-> 0]
  BY <1>2, FS_EmptySet DEF Given, Ran
<1> QED BY <1>1, <1>3, <1>4 DEF B!Init, Undecided, Verdicts

(* Every step is a step of Boundary, or leaves its variables as they are. *)
LEMMA RefinementStep ==
  ASSUME IndInv, TypeOK', [Next]_vars
  PROVE  [B!Next]_(B!vars)
<1>1. TypeOK /\ Tracked /\ Authorising /\ Undecided
  BY DEF IndInv, SafetyInv
<1>2. ASSUME NEW r \in Requests, Appends(r)
      PROVE  B!Next
  BY <1>1, <1>2, DecideStep, ApproveStep, OtherLineStep
<1> QED BY <1>1, <1>2, RunStep, MovesStep, Kinds

(* The invariant that the refinement rests on holds in every reachable state. *)
THEOREM FullInvariance == Spec => []IndInv
<1>1. Init => Undecided
  BY RefinementInit
<1>2. SafetyInv /\ Undecided /\ [Next]_vars => Undecided'
  BY UndecidedStep DEF SafetyInv
<1>3. SafetyInv /\ Undecided <=> IndInv
  BY DEF IndInv
<1> QED BY <1>1, <1>2, <1>3, Invariance, PTL DEF Spec

(***************************************************************************)
(* The handlers of main.py keep the promise of Boundary, whatever overlaps *)
(* them, whatever appends raise and whenever the process dies.             *)
(***************************************************************************)
THEOREM PromiseKept == Spec => KeepsThePromise
<1>1. Init => B!Init
  BY RefinementInit
<1>2. IndInv /\ IndInv' /\ [Next]_vars => [B!Next]_(B!vars)
  BY RefinementStep DEF IndInv, SafetyInv
<1> QED BY <1>1, <1>2, FullInvariance, PTL DEF Spec, KeepsThePromise, B!Spec

(***************************************************************************)
(* No plan is run by a request more often than the log shows the request's *)
(* approvals of it (approve in main.py).                                   *)
(***************************************************************************)
THEOREM RunsWithinApprovals == Spec => []OneRunPerApproval
<1>1. B!TypeOK /\ B!Bought => OneRunPerApproval
  <2> SUFFICES ASSUME B!TypeOK, B!Bought, NEW p \in Plans, NEW r \in Requests
               PROVE  Cardinality(RunsBy(p, r)) <= Cardinality(ApprovalsOf(p, r))
    BY DEF OneRunPerApproval
  <2>1. /\ Ran[<< p, r >>] = Cardinality(RunsBy(p, r))
        /\ Given[<< p, r >>] = Cardinality(ApprovalsOf(p, r))
    BY DEF Ran, Given
  <2>2. Ran[<< p, r >>] \in Nat /\ Given[<< p, r >>] \in Nat
    BY DEF B!TypeOK
  <2> QED BY <2>1, <2>2 DEF B!Bought
<1>2. B!Spec => [](B!TypeOK /\ B!Bought)
  BY B!RunsAreBought
<1> QED BY <1>1, <1>2, PromiseKept, PTL DEF KeepsThePromise

-----------------------------------------------------------------------------
(***************************************************************************)
(*                             The ledger                                  *)
(***************************************************************************)
-----------------------------------------------------------------------------
(***************************************************************************)
(* Records and decisions.                                                  *)
(***************************************************************************)
(* A plan that had a record and has one keeps being denied, or not denied. *)
LEMMA RecordStays ==
  ASSUME TypeOK, Planned, Tracked, [Next]_vars,
         NEW p \in Plans, status[p] # "absent", status'[p] # "absent"
  PROVE  status'[p] = "denied" <=> status[p] = "denied"
<1>1. CASE Quiet
  BY <1>1 DEF Quiet
<1>2. ASSUME NEW r \in Requests, Asks(r) \/ GetsPlan(r) \/ Arrived(r) \/ Approves(r)
      PROVE  status' = status
  BY <1>2 DEF Asks, GetsPlan, Arrived, Approves
<1>3. ASSUME NEW r \in Requests, Decides(r)
      PROVE  status'[p] = status[p]
  <2>1. plan[r] \in Plans /\ status[plan[r]] = "absent"
    BY <1>3 DEF Decides, Tracked, TrackedAt, Asking, TypeOK, HandlersOK
  <2> QED BY <1>3, <2>1 DEF Decides, TypeOK, RecordsOK
<1>4. ASSUME NEW r \in Requests, Resolves(r)
      PROVE  status'[p] = status[p] \/ (status'[p] # "denied" /\ status[p] # "denied")
  <2>1. plan[r] \in Plans /\ status[plan[r]] # "denied"
    BY <1>4 DEF Resolves, Tracked, TrackedAt, Deciding, Approving, TypeOK, HandlersOK
  <2> QED BY <1>4, <2>1 DEF Resolves, TypeOK, RecordsOK
<1>5. ~CrashAndRestart
  BY DEF CrashAndRestart, Die
<1> QED BY <1>1, <1>2, <1>3, <1>4, <1>5, Effects DEF Effect

(* The decisions in the log on a plan that has a record stay as they are. *)
LEMMA DecisionsStay ==
  ASSUME TypeOK, Planned, Tracked, [Next]_vars,
         NEW p \in Plans, status[p] # "absent", NEW v
  PROVE  LinesOf(p, "policy_decision", v)' = LinesOf(p, "policy_decision", v)
<1>1. CASE log' = log
  BY <1>1 DEF LinesOf
<1>2. CASE log' # log
  <2>1. PICK r \in Requests : Appends(r)
    BY <1>2, Kinds DEF Runs, Moves
  <2>2. log' = Append(log, Line(r)) /\ Line(r) \in EntryType /\ log \in Seq(EntryType)
    BY <1>2, <2>1, LoggerTyped DEF Appends, TypeOK, WorldOK
  <2>3. Line(r).event # "policy_decision" \/ Line(r).plan # p
    <3>1. CASE pc[r] = "policy"
      <4>1. status[plan[r]] = "absent"
        BY <3>1 DEF Tracked, TrackedAt, Asking
      <4> QED BY <3>1, <4>1 DEF Line, Entry
    <3>2. CASE pc[r] # "policy"
      BY <2>1, <3>2 DEF Appends, Line, Entry, Logging
    <3> QED BY <3>1, <3>2
  <2>4. LinesOf(p, "policy_decision", v)' =
          LinesOf(p, "policy_decision", v)
            \cup (IF Line(r).event = "policy_decision" /\ Line(r).plan = p /\ Line(r).value = v
                  THEN {Len(log) + 1} ELSE {})
    BY <2>2, LinesOfAppend
  <2> QED BY <2>3, <2>4
<1> QED BY <1>1, <1>2

(* Every step keeps the records those of the decisions in the log. *)
LEMMA RecordsStep ==
  ASSUME IndInv, RecordsAreLogged, [Next]_vars
  PROVE  RecordsAreLogged'
<1>a. TypeOK /\ Planned /\ Tracked /\ Undecided
  BY DEF IndInv, SafetyInv
<1> SUFFICES ASSUME NEW p \in Plans, status'[p] # "absent"
             PROVE  (/\ Cardinality(LinesOf(p, "policy_decision",
                                            IF status[p] = "denied" THEN "deny" ELSE "allow")) = 1
                     /\ LinesOf(p, "policy_decision",
                                IF status[p] = "denied" THEN "allow" ELSE "deny") = {})'
  BY DEF RecordsAreLogged
<1>1. CASE status[p] # "absent"
  <2>1. \A v : LinesOf(p, "policy_decision", v)' = LinesOf(p, "policy_decision", v)
    BY <1>a, <1>1, DecisionsStay
  <2>2. status'[p] = "denied" <=> status[p] = "denied"
    BY <1>a, <1>1, RecordStays
  <2>3. PICK v, w : /\ v = IF status[p] = "denied" THEN "deny" ELSE "allow"
                    /\ w = IF status[p] = "denied" THEN "allow" ELSE "deny"
    OBVIOUS
  <2>4. /\ Cardinality(LinesOf(p, "policy_decision", v)) = 1
        /\ LinesOf(p, "policy_decision", w) = {}
    BY <1>1, <2>3, Zenon DEF RecordsAreLogged
  <2>5. /\ v = (IF status[p] = "denied" THEN "deny" ELSE "allow")'
        /\ w = (IF status[p] = "denied" THEN "allow" ELSE "deny")'
    BY <2>2, <2>3
  <2>6. /\ (Cardinality(LinesOf(p, "policy_decision", v)) = 1)'
        /\ (LinesOf(p, "policy_decision", w) = {})'
    BY <2>1, <2>4
  <2> QED BY <2>5, <2>6, Zenon
<1>2. CASE status[p] = "absent"
  <2>1. PICK r \in Requests : Decides(r) /\ p = plan[r]
    <3>1. ASSUME NEW r \in Requests, Resolves(r)
          PROVE  status'[p] = status[p]
      <4>1. plan[r] \in Plans /\ status[plan[r]] # "absent"
        BY <1>a, <3>1 DEF Resolves, Tracked, TrackedAt, Deciding, Approving, TypeOK, HandlersOK
      <4> QED BY <1>a, <1>2, <3>1, <4>1 DEF Resolves, TypeOK, RecordsOK
    <3>2. PICK r \in Requests : Decides(r)
      BY <1>a, <1>2, <3>1, Effects DEF Effect, Quiet, Asks, GetsPlan, Arrived, Approves,
                                      CrashAndRestart, Die
    <3>3. p = plan[r]
      BY <1>a, <1>2, <3>2 DEF Decides, TypeOK, RecordsOK
    <3> QED BY <3>2, <3>3
  <2>2. PICK v \in {"allow", "deny"} :
          /\ v = IF decision[p].allow THEN "allow" ELSE "deny"
          /\ log' = Append(log, Entry("policy_decision", p, v, NoOne, 0))
    BY <2>1 DEF Decides
  <2>3. PICK e : e = Entry("policy_decision", p, v, NoOne, 0)
    OBVIOUS
  <2>4. e \in EntryType /\ log \in Seq(EntryType) /\ log' = Append(log, e)
    BY <1>a, <2>2, <2>3 DEF Entry, EntryType, TypeOK, WorldOK
  <2>5. VerdictOf(p) = "none"
    BY <1>a, <2>1 DEF Decides, Undecided, Asking
  <2>6. /\ LinesOf(p, "policy_decision", "allow") = {}
        /\ LinesOf(p, "policy_decision", "deny") = {}
    BY <2>5 DEF VerdictOf
  <2>7. ASSUME NEW w \in {"allow", "deny"}
        PROVE  LinesOf(p, "policy_decision", w)' = IF w = v THEN {Len(log) + 1} ELSE {}
    <3>1. LinesOf(p, "policy_decision", w)' =
            LinesOf(p, "policy_decision", w)
              \cup (IF e.event = "policy_decision" /\ e.plan = p /\ e.value = w
                    THEN {Len(log) + 1} ELSE {})
      BY <2>4, LinesOfAppend
    <3> QED BY <2>3, <2>6, <3>1 DEF Entry
  <2>8. v = IF status'[p] = "denied" THEN "deny" ELSE "allow"
    BY <1>a, <2>1, <2>2 DEF Decides, StatusOf, TypeOK, RecordsOK
  <2>9. Cardinality({Len(log) + 1}) = 1
    BY FS_Singleton
  <2>10. CASE v = "deny"
    BY <2>7, <2>8, <2>9, <2>10 DEF LinesOf
  <2>11. CASE v = "allow"
    BY <2>7, <2>8, <2>9, <2>11 DEF LinesOf
  <2> QED BY <2>10, <2>11
<1> QED BY <1>1, <1>2

(***************************************************************************)
(* Each record in memory is of the one decision that the log has of its    *)
(* plan, and says the same (ask: the record is made after its decision is  *)
(* logged, and by no other handler).                                       *)
(***************************************************************************)
THEOREM RecordsLogged == Spec => []RecordsAreLogged
<1>1. Init => RecordsAreLogged
  BY DEF Init, RecordsAreLogged
<1>2. IndInv /\ RecordsAreLogged /\ [Next]_vars => RecordsAreLogged'
  BY RecordsStep
<1> QED BY <1>1, <1>2, FullInvariance, PTL DEF Spec

-----------------------------------------------------------------------------
(***************************************************************************)
(* The ledger: what each step does to the log, to the runs and to the one  *)
(* handler it is a step of.                                                *)
(***************************************************************************)
Alone(r) ==
  \A q \in Requests \ {r} : pc'[q] = pc[q] /\ plan'[q] = plan[q] /\ todo'[q] = todo[q]

(* From where to where a handler goes when its line is written. *)
LogEdges ==
  { << "question", "schema" >>, << "planned", "validation" >>,
    << "validation", "validation" >>, << "validation", "policy" >>,
    << "approved", "charge" >>, << "guard", "digest" >> }

LastLines == {"no plan", "policy", "over budget", "run failed", "digest", "rejected"}

(* The line is written, and the handler goes on or ends. *)
Wrote(r) ==
  /\ pc[r] \in Logging
  /\ log' = Append(log, Line(r))
  /\ \/ << pc[r], pc'[r] >> \in LogEdges /\ plan'[r] = plan[r]
     \/ pc[r] \in LastLines /\ pc'[r] = "idle"
  /\ pc[r] = "planned" => todo'[r] = todo[r]
  /\ pc[r] = "validation" => /\ todo'[r] = todo[r] - 1
                             /\ pc'[r] = IF todo[r] = 1 THEN "policy" ELSE "validation"
  /\ Alone(r)
  /\ UNCHANGED << result, runs, faults, life >>

(* The append raises, before or after the write, and the handler ends. *)
Raised(r) ==
  /\ pc[r] \in Logging
  /\ pc'[r] = "idle"
  /\ log' \in {log, Append(log, Line(r))}
  /\ faults' = faults + 1
  /\ Alone(r)
  /\ UNCHANGED << result, runs, life >>

(* The plan runs, and fails or succeeds. *)
Executed(r) ==
  /\ pc[r] = "run"
  /\ plan'[r] = plan[r]
  /\ \/ /\ pc'[r] = "run failed"
        /\ runs' = Append(runs, RunOf(r, NoLabel))
        /\ result' = result
     \/ /\ pc'[r] = "guard"
        /\ \E l : /\ l = ResultLabel(program[plan[r]], Schema)
                  /\ runs' = Append(runs, RunOf(r, l))
                  /\ result' = [result EXCEPT ![plan[r]] = l]
  /\ Alone(r)
  /\ UNCHANGED << log, faults, life >>

(* From where to where a handler goes without a trace. *)
SilentEdges ==
  { << "idle", "question" >>, << "schema", "idle" >>, << "schema", "no plan" >>,
    << "schema", "planned" >>, << "idle", "approve form" >>, << "idle", "reject form" >>,
    << "approve form", "idle" >>, << "reject form", "idle" >>,
    << "approve form", "approved" >>, << "reject form", "rejected" >>,
    << "charge", "run" >>, << "charge", "over budget" >> }

Walked(r) ==
  /\ << pc[r], pc'[r] >> \in SilentEdges
  /\ pc[r] # "idle" /\ pc'[r] # "idle" => plan'[r] = plan[r]
  /\ Alone(r)
  /\ UNCHANGED << log, result, runs, faults, life >>

Stayed == UNCHANGED << pc, plan, todo, log, result, runs, faults, life >>

(* A handler that ends or goes on is alone in it. *)
LEMMA AloneMoves ==
  ASSUME HandlersOK, NEW r \in Requests
  PROVE  /\ Return(r) => Alone(r) /\ pc'[r] = "idle"
         /\ \A to : Goto(r, to) =>
              /\ pc'[r] = to /\ plan'[r] = plan[r]
              /\ todo' = todo \/ (\E n : todo' = [todo EXCEPT ![r] = n]) => Alone(r)
<1>1. ASSUME Return(r)
      PROVE  Alone(r) /\ pc'[r] = "idle"
  BY <1>1 DEF HandlersOK, Alone, Return
<1>2. ASSUME NEW to, Goto(r, to)
      PROVE  pc'[r] = to /\ plan'[r] = plan[r]
  BY <1>2 DEF HandlersOK, Goto
<1>3. ASSUME NEW to, Goto(r, to), todo' = todo
      PROVE  Alone(r)
  BY <1>3 DEF HandlersOK, Alone, Goto
<1>4. ASSUME NEW to, Goto(r, to), NEW n, todo' = [todo EXCEPT ![r] = n]
      PROVE  Alone(r)
  BY <1>4 DEF HandlersOK, Alone, Goto
<1> QED BY <1>1, <1>2, <1>3, <1>4

(* Logging on the way writes, or raises. *)
LEMMA LogsBetweenWrites ==
  ASSUME HandlersOK, NEW r \in Requests, NEW from \in Logging \ {"validation"}, NEW to,
         << from, to >> \in LogEdges, LogsBetween(r, from, to)
  PROVE  Wrote(r) \/ Raised(r)
<1>1. CASE Logged(Line(r)) /\ Goto(r, to) /\ UNCHANGED todo
  <2>1. Alone(r) /\ pc'[r] = to /\ plan'[r] = plan[r]
    BY <1>1, AloneMoves
  <2> QED BY <1>1, <2>1 DEF LogsBetween, At, Logged, Wrote, records
<1>2. CASE AppendRaised(Line(r)) /\ Return(r)
  <2>1. Alone(r) /\ pc'[r] = "idle"
    BY <1>2, AloneMoves
  <2> QED BY <1>2, <2>1 DEF LogsBetween, At, AppendRaised, Raised, records
<1> QED BY <1>1, <1>2 DEF LogsBetween

(* Logging as the last thing writes, or raises. *)
LEMMA LogsLastWrites ==
  ASSUME HandlersOK, NEW r \in Requests, NEW from \in LastLines,
         At(r, from), Logged(Line(r)) \/ AppendRaised(Line(r)), Return(r),
         UNCHANGED << result, runs, life >>
  PROVE  Wrote(r) \/ Raised(r)
<1>1. Alone(r) /\ pc'[r] = "idle"
  BY AloneMoves
<1>2. from \in Logging /\ from \notin {"planned", "validation"}
  BY DEF LastLines, Logging
<1>3. CASE Logged(Line(r))
  BY <1>1, <1>2, <1>3 DEF At, Logged, Wrote
<1>4. CASE AppendRaised(Line(r))
  BY <1>1, <1>2, <1>4 DEF At, AppendRaised, Raised
<1> QED BY <1>3, <1>4

(* What the steps of a question are in the ledger. *)
LEMMA AskLedger ==
  ASSUME TypeOK, NEW r \in Requests, Ask(r)
  PROVE  Wrote(r) \/ Raised(r) \/ Walked(r)
<1> USE DEF TypeOK
<1>a. /\ {"question", "planned", "approved", "guard"} \subseteq Logging \ {"validation"}
      /\ "validation" \in Logging
  BY DEF Logging
<1>b. /\ {<< "question", "schema" >>, << "planned", "validation" >>} \subseteq LogEdges
      /\ {<< "validation", "validation" >>, << "validation", "policy" >>} \subseteq LogEdges
      /\ {<< "schema", "idle" >>, << "schema", "no plan" >>, << "schema", "planned" >>}
            \subseteq SilentEdges
      /\ "no plan" \in LastLines /\ "policy" \in LastLines
  BY DEF LogEdges, SilentEdges, LastLines
<1>1. CASE LogQuestion(r)
  BY <1>1, <1>a, <1>b, LogsBetweenWrites DEF LogQuestion
<1>2. CASE AskNoSchema(r)
  BY <1>2, <1>b, AloneMoves DEF AskNoSchema, At, Walked, records, ghosts
<1>3. CASE AskNoPlan(r)
  BY <1>3, <1>b, AloneMoves DEF AskNoPlan, At, Walked, records, ghosts
<1>4. CASE LogNoPlan(r)
  BY <1>4, <1>b, LogsLastWrites DEF LogNoPlan, LogsLast, records
<1>5. CASE AskPlanned(r)
  BY <1>5, <1>b, AloneMoves DEF AskPlanned, At, Walked
<1>6. CASE LogPlanned(r)
  BY <1>6, <1>a, <1>b, LogsBetweenWrites DEF LogPlanned
<1>7. CASE LogValidation(r)
  <2>1. CASE /\ Logged(Line(r))
             /\ todo' = [todo EXCEPT ![r] = @ - 1]
             /\ Goto(r, IF todo[r] = 1 THEN "policy" ELSE "validation")
    <3>1. PICK to : to = IF todo[r] = 1 THEN "policy" ELSE "validation"
      OBVIOUS
    <3>2. todo' = [todo EXCEPT ![r] = todo[r] - 1] /\ todo'[r] = todo[r] - 1
      BY <2>1 DEF HandlersOK
    <3>3. Alone(r) /\ pc'[r] = to /\ plan'[r] = plan[r]
      BY <2>1, <3>1, <3>2, AloneMoves
    <3>4. << pc[r], to >> \in LogEdges
      BY <1>7, <1>b, <3>1 DEF LogValidation, At
    <3> QED BY <1>7, <1>a, <2>1, <3>1, <3>2, <3>3, <3>4
            DEF LogValidation, At, Logged, Wrote, records
  <2>2. CASE AppendRaised(Line(r)) /\ Return(r)
    BY <1>7, <1>a, <2>2, AloneMoves DEF LogValidation, At, AppendRaised, Raised, records
  <2> QED BY <1>7, <2>1, <2>2 DEF LogValidation
<1>8. CASE LogPolicy(r)
  BY <1>8, <1>b, LogsLastWrites DEF LogPolicy
<1> QED BY <1>1, <1>2, <1>3, <1>4, <1>5, <1>6, <1>7, <1>8 DEF Ask

(* What the steps of an approval or a rejection are in the ledger. *)
LEMMA ApproveLedger ==
  ASSUME TypeOK, Planned, NEW r \in Requests, Approve(r) \/ LogReject(r)
  PROVE  Wrote(r) \/ Raised(r) \/ Executed(r) \/ Walked(r)
<1> USE DEF TypeOK
<1>a. {"approved", "guard"} \subseteq Logging \ {"validation", "planned"}
  BY DEF Logging
<1>b. /\ {<< "approved", "charge" >>, << "guard", "digest" >>} \subseteq LogEdges
      /\ {<< "charge", "run" >>, << "charge", "over budget" >>} \subseteq SilentEdges
      /\ {"over budget", "run failed", "digest", "rejected"} \subseteq LastLines
  BY DEF LogEdges, SilentEdges, LastLines
<1>1. CASE LogApproval(r)
  <2>1. CASE Logged(Line(r)) /\ Goto(r, "charge") /\ UNCHANGED todo
    <3>1. Alone(r) /\ pc'[r] = "charge" /\ plan'[r] = plan[r]
      BY <2>1, AloneMoves
    <3> QED BY <1>1, <1>a, <1>b, <2>1, <3>1 DEF LogApproval, At, Logged, Wrote
  <2>2. CASE AppendRaised(Line(r)) /\ Return(r)
    BY <1>1, <1>a, <2>2, AloneMoves DEF LogApproval, At, AppendRaised, Raised
  <2> QED BY <1>1, <2>1, <2>2 DEF LogApproval
<1>2. CASE Charge(r)
  <2>1. At(r, "charge") /\ UNCHANGED << todo, log, result, runs, faults, life >>
    BY <1>2 DEF Charge, ghosts
  <2>2. CASE Goto(r, "run")
    BY <1>b, <2>1, <2>2, AloneMoves DEF At, Walked
  <2>3. CASE Goto(r, "over budget")
    BY <1>b, <2>1, <2>3, AloneMoves DEF At, Walked
  <2> QED BY <1>2, <2>2, <2>3 DEF Charge
<1>3. CASE LogOverBudget(r)
  BY <1>3, <1>b, LogsLastWrites DEF LogOverBudget, LogsLast, records
<1>4. CASE RunSucceeds(r)
  <2>1. PICK l : l = ResultLabel(program[plan[r]], Schema)
    OBVIOUS
  <2>2. /\ At(r, "run") /\ Goto(r, "guard") /\ UNCHANGED << todo, log, faults, life >>
        /\ runs' = Append(runs, RunOf(r, l))
        /\ result' = [result EXCEPT ![plan[r]] = l]
    BY <1>4, <2>1 DEF RunSucceeds, ghosts
  <2> QED BY <2>1, <2>2, AloneMoves DEF At, Executed
<1>5. CASE RunFails(r)
  <2>1. /\ At(r, "run") /\ Goto(r, "run failed")
        /\ UNCHANGED << todo, log, result, faults, life >>
        /\ runs' = Append(runs, RunOf(r, NoLabel))
    BY <1>5 DEF RunFails, ghosts
  <2> QED BY <2>1, AloneMoves DEF At, Executed
<1>6. CASE LogRunFailed(r)
  BY <1>6, <1>b, LogsLastWrites DEF LogRunFailed, LogsLast, records
<1>7. CASE LogGuard(r)
  BY <1>7, <1>a, <1>b, LogsBetweenWrites DEF LogGuard
<1>8. CASE LogDigest(r)
  BY <1>8, <1>b, LogsLastWrites DEF LogDigest, LogsLast, records
<1>9. CASE LogReject(r)
  BY <1>9, <1>b, LogsLastWrites DEF LogReject, LogsLast, records
<1> QED BY <1>1, <1>2, <1>3, <1>4, <1>5, <1>6, <1>7, <1>8, <1>9 DEF Approve

(* What the steps of a client are in the ledger. *)
LEMMA ClientLedger ==
  ASSUME TypeOK, NEW r \in Requests, Client(r)
  PROVE  Walked(r) \/ Stayed
<1> USE DEF TypeOK
<1>b. {<< "idle", "question" >>, << "idle", "approve form" >>, << "idle", "reject form" >>,
       << "approve form", "idle" >>, << "reject form", "idle" >>,
       << "approve form", "approved" >>, << "reject form", "rejected" >>} \subseteq SilentEdges
  BY DEF SilentEdges
<1>1. ASSUME NEW p \in Plans, AskReceived(r, p)
      PROVE  Walked(r)
  BY <1>1, <1>b DEF AskReceived, HandlersOK, Alone, Walked, records
<1>2. ASSUME NEW p \in Plans, NEW form \in {"approve form", "reject form"}, Arrives(r, p, form)
      PROVE  Walked(r)
  BY <1>2, <1>b DEF Arrives, HandlersOK, Alone, Walked, records, ghosts
<1>3. CASE AskEmpty(r) \/ \E p \in Plans : Refuse(r, p)
  BY <1>3 DEF AskEmpty, Refuse, vars, Stayed
<1>4. CASE FormLost(r)
  <2>1. << pc[r], "idle" >> \in SilentEdges
    BY <1>4, <1>b DEF FormLost
  <2> QED BY <1>4, <2>1, AloneMoves DEF FormLost, Walked, records, ghosts
<1>5. CASE ApproveResumes(r)
  BY <1>5, <1>b DEF ApproveResumes, HandlersOK, Alone, Walked, records, ghosts
<1>6. CASE RejectResumes(r)
  BY <1>6, <1>b DEF RejectResumes, HandlersOK, Alone, Walked, records, ghosts
<1> QED BY <1>1, <1>2, <1>3, <1>4, <1>5, <1>6
        DEF Client, ApproveArrives, RejectArrives

(* Every step is in the ledger. *)
LEMMA Ledger ==
  ASSUME TypeOK, Planned, [Next]_vars
  PROVE  \/ \E r \in Requests : Wrote(r) \/ Raised(r) \/ Executed(r) \/ Walked(r)
         \/ Stayed
         \/ CrashAndRestart
<1>1. CASE UNCHANGED vars
  BY <1>1 DEF vars, Stayed
<1>2. CASE Relabel
  BY <1>2 DEF Relabel, records, handlers, Stayed
<1> QED BY <1>1, <1>2, AskLedger, ApproveLedger, ClientLedger DEF Next, Continue

(* A handler that writes, raises or runs has a plan, and is the only one past its form. *)
LEMMA LoneHandler ==
  ASSUME TypeOK, NEW r \in Requests, pc[r] \in Running
  PROVE  /\ busy = r /\ plan[r] \in Plans
         /\ \A q \in Requests : pc[q] \in Running => q = r
BY DEF TypeOK, HandlersOK, Running, Asking, Approving, Rejecting

-----------------------------------------------------------------------------
(***************************************************************************)
(* Counting lines, runs and handlers.                                      *)
(***************************************************************************)
(* The positions of a log's lines, and of the runs, are finitely many. *)
LEMMA PositionsFinite ==
  ASSUME TypeOK
  PROVE  /\ IsFiniteSet(DOMAIN log) /\ Len(log) + 1 \notin DOMAIN log
         /\ IsFiniteSet(DOMAIN runs) /\ Len(runs) + 1 \notin DOMAIN runs
<1>1. /\ DOMAIN log = 1 .. Len(log) /\ Len(log) \in Nat
      /\ DOMAIN runs = 1 .. Len(runs) /\ Len(runs) \in Nat
  BY DEF TypeOK, WorldOK
<1>2. IsFiniteSet(1 .. Len(log)) /\ IsFiniteSet(1 .. Len(runs))
  BY <1>1, FS_Interval
<1> QED BY <1>1, <1>2

(* A set of positions that gains the next one counts one more. *)
LEMMA OneMore ==
  ASSUME NEW D, IsFiniteSet(D), NEW n, n \notin D, NEW S, S \subseteq D
  PROVE  /\ Cardinality(S) \in Nat
         /\ Cardinality(S \cup {n}) = Cardinality(S) + 1
<1>1. IsFiniteSet(S) /\ n \notin S
  BY FS_Subset
<1> QED BY <1>1, FS_AddElement, FS_CardinalityType

(* A line counts among those of its event, plan and value, and among no others. *)
LEMMA LinesCount ==
  ASSUME TypeOK, NEW e \in EntryType, log' = Append(log, e), NEW p, NEW event, NEW value
  PROVE  /\ Cardinality(LinesOf(p, event, value)) \in Nat
         /\ Cardinality(LinesOf(p, event, value)') =
              Cardinality(LinesOf(p, event, value))
                + (IF e.event = event /\ e.plan = p /\ e.value = value THEN 1 ELSE 0)
<1>1. PICK S, n, D : S = LinesOf(p, event, value) /\ n = Len(log) + 1 /\ D = DOMAIN log
  OBVIOUS
<1>2. /\ S \subseteq D /\ IsFiniteSet(D) /\ n \notin D
  BY <1>1, PositionsFinite DEF LinesOf
<1>3. Cardinality(S) \in Nat /\ Cardinality(S \cup {n}) = Cardinality(S) + 1
  BY <1>2, OneMore
<1>4. LinesOf(p, event, value)' =
        S \cup (IF e.event = event /\ e.plan = p /\ e.value = value THEN {n} ELSE {})
  BY <1>1, LinesOfAppend DEF TypeOK, WorldOK
<1>5. CASE e.event = event /\ e.plan = p /\ e.value = value
  <2>1. LinesOf(p, event, value)' = S \cup {n}
    BY <1>4, <1>5
  <2> QED BY <1>1, <1>3, <1>5, <2>1
<1>6. CASE ~(e.event = event /\ e.plan = p /\ e.value = value)
  <2>1. LinesOf(p, event, value)' = S
    BY <1>4, <1>6
  <2> QED BY <1>1, <1>3, <1>6, <2>1
<1> QED BY <1>5, <1>6

(* A run counts among those of its plan that ended as it did. *)
LEMMA EndsCount ==
  ASSUME TypeOK, NEW run, runs' = Append(runs, run), NEW p
  PROVE  /\ Cardinality(Successes(p)) \in Nat /\ Cardinality(Failures(p)) \in Nat
         /\ Cardinality(Successes(p)') =
              Cardinality(Successes(p)) + (IF run.plan = p /\ run.label # NoLabel THEN 1 ELSE 0)
         /\ Cardinality(Failures(p)') =
              Cardinality(Failures(p)) + (IF run.plan = p /\ run.label = NoLabel THEN 1 ELSE 0)
<1>1. PICK S, F, n, D :
        S = Successes(p) /\ F = Failures(p) /\ n = Len(runs) + 1 /\ D = DOMAIN runs
  OBVIOUS
<1>2. S \subseteq D /\ F \subseteq D /\ IsFiniteSet(D) /\ n \notin D
  BY <1>1, PositionsFinite DEF Successes, Failures, RunsOf
<1>3. /\ Cardinality(S) \in Nat /\ Cardinality(S \cup {n}) = Cardinality(S) + 1
      /\ Cardinality(F) \in Nat /\ Cardinality(F \cup {n}) = Cardinality(F) + 1
  BY <1>2, OneMore
<1>4. /\ DOMAIN runs' = D \cup {n} /\ runs'[n] = run
      /\ \A i \in D : runs'[i] = runs[i]
  BY <1>1 DEF TypeOK, WorldOK
<1>5. /\ Successes(p)' = S \cup (IF run.plan = p /\ run.label # NoLabel THEN {n} ELSE {})
      /\ Failures(p)' = F \cup (IF run.plan = p /\ run.label = NoLabel THEN {n} ELSE {})
  BY <1>1, <1>2, <1>4 DEF Successes, Failures, RunsOf
<1>6. Cardinality(Successes(p)') =
        Cardinality(S) + (IF run.plan = p /\ run.label # NoLabel THEN 1 ELSE 0)
  <2>1. CASE run.plan = p /\ run.label # NoLabel
    <3>1. Successes(p)' = S \cup {n}
      BY <1>5, <2>1
    <3> QED BY <1>3, <2>1, <3>1
  <2>2. CASE ~(run.plan = p /\ run.label # NoLabel)
    <3>1. Successes(p)' = S
      BY <1>5, <2>2
    <3> QED BY <1>3, <2>2, <3>1
  <2> QED BY <2>1, <2>2
<1>7. Cardinality(Failures(p)') =
        Cardinality(F) + (IF run.plan = p /\ run.label = NoLabel THEN 1 ELSE 0)
  <2>1. CASE run.plan = p /\ run.label = NoLabel
    <3>1. Failures(p)' = F \cup {n}
      BY <1>5, <2>1
    <3> QED BY <1>3, <2>1, <3>1
  <2>2. CASE ~(run.plan = p /\ run.label = NoLabel)
    <3>1. Failures(p)' = F
      BY <1>5, <2>2
    <3> QED BY <1>3, <2>2, <3>1
  <2> QED BY <2>1, <2>2
<1> QED BY <1>1, <1>3, <1>6, <1>7

(* The handler that is past its form is the only one that can be pending. *)
LEMMA PendingIsTheOne ==
  ASSUME TypeOK, NEW r \in Requests, pc[r] \in Running, NEW p, NEW places, places \subseteq Running
  PROVE  /\ Pending(p, places) = IF plan[r] = p /\ pc[r] \in places THEN 1 ELSE 0
         /\ Alone(r) =>
              Pending(p, places)' = IF plan'[r] = p /\ pc'[r] \in places THEN 1 ELSE 0
BY LoneHandler DEF Pending, Alone

(* A handler that is pending neither before nor after a step of its own leaves the rest. *)
LEMMA PendingStays ==
  ASSUME NEW r \in Requests, Alone(r), NEW places,
         pc[r] \notin places, pc'[r] \notin places, NEW p
  PROVE  Pending(p, places)' = Pending(p, places)
BY DEF Pending, Alone

-----------------------------------------------------------------------------
(***************************************************************************)
(* What was decided, and on which annotations.                             *)
(***************************************************************************)
(* The places of a question whose plan is there and whose record is not. *)
Planning == {"planned", "validation", "policy"}

(* Nothing is decided, and neither the source nor the process changes. *)
Framed ==
  /\ \A q \in Requests : pc'[q] = "planned" => pc[q] = "planned" /\ plan'[q] = plan[q]
  /\ UNCHANGED << program, decision, source, asked, relabels, life >>

(* Only the arrival of a plan, a relabelling and a crash are not like that. *)
LEMMA FrameSteps ==
  ASSUME TypeOK, [Next]_vars
  PROVE  Framed \/ (\E r \in Requests : AskPlanned(r)) \/ Relabel \/ CrashAndRestart
<1>a. HandlersOK
  BY DEF TypeOK
<1>b. ASSUME NEW r \in Requests, NEW to, Return(r) \/ (Goto(r, to) /\ to # "planned")
      PROVE  \A q \in Requests : pc'[q] = "planned" => pc[q] = "planned" /\ plan'[q] = plan[q]
  BY <1>a, <1>b DEF HandlersOK, Return, Goto
<1>c. ASSUME NEW r \in Requests, NEW from, NEW to, to # "planned",
             LogsBetween(r, from, to)
      PROVE  Framed
  BY <1>b, <1>c DEF LogsBetween, Framed, records
<1>d. ASSUME NEW r \in Requests, NEW from, LogsLast(r, from)
      PROVE  Framed
  BY <1>b, <1>d DEF LogsLast, Framed, records
<1>1. ASSUME NEW r \in Requests, Ask(r), ~AskPlanned(r)
      PROVE  Framed
  <2>1. CASE LogQuestion(r) \/ LogNoPlan(r) \/ LogPlanned(r)
    <3>1. "schema" # "planned" /\ "validation" # "planned"
      OBVIOUS
    <3> QED BY <1>c, <1>d, <2>1, <3>1 DEF LogQuestion, LogNoPlan, LogPlanned
  <2>2. CASE AskNoSchema(r)
    BY <1>b, <2>2 DEF AskNoSchema, Framed, records, ghosts
  <2>3. CASE AskNoPlan(r)
    <3>1. PICK to : to = "no plan"
      OBVIOUS
    <3>2. /\ Goto(r, to) /\ to # "planned"
          /\ UNCHANGED << program, decision, source, asked, relabels, life >>
      BY <2>3, <3>1 DEF AskNoPlan, records, ghosts
    <3> QED BY <1>b, <3>2 DEF Framed
  <2>4. CASE LogValidation(r)
    <3>1. PICK to : to = IF todo[r] = 1 THEN "policy" ELSE "validation"
      OBVIOUS
    <3>2. to # "planned" /\ (Goto(r, to) \/ Return(r))
      BY <2>4, <3>1 DEF LogValidation
    <3> QED BY <1>b, <2>4, <3>2 DEF LogValidation, Framed, records
  <2>5. CASE LogPolicy(r)
    BY <1>b, <2>5 DEF LogPolicy, Framed
  <2> QED BY <1>1, <2>1, <2>2, <2>3, <2>4, <2>5 DEF Ask
<1>2. ASSUME NEW r \in Requests, Approve(r) \/ LogReject(r)
      PROVE  Framed
  <2>1. CASE \/ LogOverBudget(r) \/ LogRunFailed(r) \/ LogGuard(r)
             \/ LogDigest(r) \/ LogReject(r)
    <3>1. "digest" # "planned"
      OBVIOUS
    <3> QED BY <1>c, <1>d, <2>1, <3>1
            DEF LogOverBudget, LogRunFailed, LogGuard, LogDigest, LogReject
  <2>2. CASE LogApproval(r)
    BY <1>b, <2>2 DEF LogApproval, Framed
  <2>3. CASE Charge(r)
    <3>1. PICK to : to = IF ChargeOf(r).ok THEN "run" ELSE "over budget"
      OBVIOUS
    <3>2. /\ Goto(r, to) /\ to # "planned"
          /\ UNCHANGED << program, decision, source, asked, relabels, life >>
      BY <2>3, <3>1 DEF Charge, ghosts
    <3> QED BY <1>b, <3>2 DEF Framed
  <2>4. CASE RunSucceeds(r)
    BY <1>b, <2>4 DEF RunSucceeds, Framed, ghosts
  <2>5. CASE RunFails(r)
    <3>1. PICK to : to = "run failed"
      OBVIOUS
    <3>2. /\ Goto(r, to) /\ to # "planned"
          /\ UNCHANGED << program, decision, source, asked, relabels, life >>
      BY <2>5, <3>1 DEF RunFails, records, ghosts
    <3> QED BY <1>b, <3>2 DEF Framed
  <2> QED BY <1>2, <2>1, <2>2, <2>3, <2>4, <2>5 DEF Approve
<1>3. ASSUME NEW r \in Requests, Client(r)
      PROVE  Framed
  <2>1. CASE FormLost(r)
    BY <2>1, <1>b DEF FormLost, Framed, records, ghosts
  <2>2. CASE ~FormLost(r)
    BY <1>3, <1>a, <2>2 DEF Client, AskReceived, AskEmpty, ApproveArrives, RejectArrives, Arrives,
         Refuse, ApproveResumes, RejectResumes, HandlersOK, Framed, records, ghosts, vars
  <2> QED BY <2>1, <2>2
<1>4. CASE UNCHANGED vars
  BY <1>4 DEF vars, Framed
<1> QED BY <1>1, <1>2, <1>3, <1>4 DEF Next, Continue

(* Where a request that is planning, or a plan with a record, comes from. *)
LEMMA PlanningFrom ==
  ASSUME TypeOK, Planned, Tracked, [Next]_vars, Framed, NEW p \in Plans,
         \/ status'[p] # "absent"
         \/ \E q \in Requests : plan'[q] = p /\ pc'[q] \in Planning
  PROVE  status[p] # "absent" \/ \E q \in Requests : plan[q] = p /\ pc[q] \in Planning
<1>1. ASSUME status'[p] # "absent", status[p] = "absent"
      PROVE  \E q \in Requests : plan[q] = p /\ pc[q] \in Planning
  <2>1. ASSUME NEW r \in Requests, Resolves(r)
        PROVE  status'[p] = status[p]
    <3>1. plan[r] \in Plans /\ status[plan[r]] # "absent"
      BY <2>1 DEF Resolves, Tracked, TrackedAt, Deciding, Approving, TypeOK, HandlersOK
    <3> QED BY <1>1, <2>1, <3>1 DEF Resolves, TypeOK, RecordsOK
  <2>2. PICK r \in Requests : Decides(r)
    BY <1>1, <2>1, Effects DEF Effect, Quiet, Asks, GetsPlan, Arrived, Approves,
                               CrashAndRestart, Die
  <2>3. p = plan[r] /\ pc[r] = "policy"
    BY <1>1, <2>2 DEF Decides, TypeOK, RecordsOK
  <2> QED BY <2>3 DEF Planning
<1>2. ASSUME NEW q \in Requests, plan'[q] = p, pc'[q] \in Planning
      PROVE  plan[q] = p /\ pc[q] \in Planning
  <2>1. CASE Follows(q)
    BY <1>2, <2>1 DEF Follows, Edges, Planning, Framed
  <2>2. CASE ~Follows(q)
    <3>1. ~CrashAndRestart /\ ~Quiet
      BY <1>2, <2>2 DEF CrashAndRestart, Die, Planning, Quiet
    <3>2. PICK r \in Requests : Effect(r)
      BY <3>1, Effects
    <3>3. r = q
      BY <2>2, <3>2 DEF Effect, Asks, GetsPlan, Decides, Arrived, Approves, Resolves,
                        OthersFollow
    <3>4. pc'[q] = "planned"
      BY <1>2, <2>2, <3>2, <3>3 DEF Effect, Asks, GetsPlan, Decides, Arrived, Approves, Resolves,
                        Planning
    <3> QED BY <1>2, <3>4 DEF Framed, Planning
  <2> QED BY <2>1, <2>2
<1> QED BY <1>1, <1>2

(* Every step keeps what was decided tied to what it was decided on. *)
LEMMA DecidedStep ==
  ASSUME TypeOK, Planned, Tracked, DecidedWhenAsked, NothingAhead, [Next]_vars
  PROVE  DecidedWhenAsked'
<1> SUFFICES ASSUME NEW p \in Plans,
                    \/ status'[p] # "absent"
                    \/ \E q \in Requests : plan'[q] = p /\ pc'[q] \in Planning
             PROVE  /\ \E src \in Sources : DecidedOn(p, src)'
                    /\ asked'[p] = relabels' => DecidedOn(p, source)'
  BY DEF DecidedWhenAsked, Planning, DecidedOn
<1>a. ASSUME \/ status[p] # "absent"
             \/ \E q \in Requests : plan[q] = p /\ pc[q] \in Planning
      PROVE  /\ \E src \in Sources : DecidedOn(p, src)
             /\ asked[p] = relabels => DecidedOn(p, source)
  BY <1>a DEF DecidedWhenAsked, Planning
<1>1. CASE Framed
  <2>1. /\ \E src \in Sources : DecidedOn(p, src)
        /\ asked[p] = relabels => DecidedOn(p, source)
    BY <1>1, <1>a, PlanningFrom
  <2> QED BY <1>1, <2>1 DEF Framed, DecidedOn
<1>2. ASSUME NEW r \in Requests, AskPlanned(r)
      PROVE  /\ \E src \in Sources : DecidedOn(p, src)'
             /\ asked'[p] = relabels' => DecidedOn(p, source)'
  <2>1. plan[r] \in Plans /\ source \in Sources
    BY <1>2 DEF AskPlanned, At, TypeOK, HandlersOK, WorldOK
  <2>2. CASE p = plan[r]
    <3>1. PICK steps \in Programs :
            /\ program'[p] = steps
            /\ decision'[p] = Evaluate(steps, Schema, Clearance)
      BY <1>2, <2>1, <2>2 DEF AskPlanned, TypeOK, RecordsOK
    <3>2. source' = source
      BY <1>2 DEF AskPlanned
    <3>3. DecidedOn(p, source)'
      BY <3>1, <3>2 DEF DecidedOn, Schema
    <3>4. \E src \in Sources : DecidedOn(p, src)'
      BY <2>1, <3>1 DEF DecidedOn, Schema
    <3> QED BY <3>3, <3>4
  <2>3. CASE p # plan[r]
    <3>1. /\ program'[p] = program[p] /\ decision'[p] = decision[p] /\ asked'[p] = asked[p]
          /\ UNCHANGED << status, source, relabels >>
      BY <1>2, <2>1, <2>3 DEF AskPlanned, TypeOK, RecordsOK, WorldOK
    <3>2. \A q \in Requests : plan'[q] = p => plan[q] = p /\ pc'[q] = pc[q]
      BY <1>2, <2>3 DEF AskPlanned, Goto, TypeOK, HandlersOK
    <3>3. /\ \E src \in Sources : DecidedOn(p, src)
          /\ asked[p] = relabels => DecidedOn(p, source)
      BY <1>a, <3>1, <3>2
    <3> QED BY <3>1, <3>3 DEF DecidedOn
  <2> QED BY <2>2, <2>3
<1>3. CASE Relabel
  <2>1. /\ UNCHANGED << program, decision, status, asked, pc, plan >> /\ relabels' = relabels + 1
    BY <1>3 DEF Relabel, records, handlers
  <2>2. \E src \in Sources : DecidedOn(p, src)
    BY <1>a, <2>1
  <2>3. asked'[p] # relabels'
    BY <2>1 DEF NothingAhead, TypeOK, WorldOK
  <2> QED BY <2>1, <2>2, <2>3 DEF DecidedOn
<1>4. ~CrashAndRestart
  BY DEF CrashAndRestart, Die, Planning
<1> QED BY <1>1, <1>2, <1>3, <1>4, FrameSteps

(* A plan that may be run keeps a record that may, in a life of the process. *)
LEMMA RecordKept ==
  ASSUME TypeOK, Planned, Tracked, [Next]_vars, ~CrashAndRestart,
         NEW p \in Plans, status[p] \notin {"absent", "denied"}
  PROVE  status'[p] \notin {"absent", "denied"}
<1>1. status'[p] # "absent"
  <2>1. CASE Quiet
    BY <2>1 DEF Quiet
  <2>2. ASSUME NEW r \in Requests, Effect(r)
        PROVE  status'[p] # "absent"
    BY <2>2 DEF Effect, Asks, GetsPlan, Decides, StatusOf, Arrived, Approves, Resolves,
                TypeOK, RecordsOK
  <2> QED BY <2>1, <2>2, Effects
<1> QED BY <1>1, RecordStays

(* What the ledger does to the runs, and to the life of the process. *)
LEMMA RunsGrow ==
  ASSUME TypeOK, Planned, [Next]_vars, ~CrashAndRestart
  PROVE  /\ life' = life
         /\ \/ runs' = runs
            \/ \E r \in Requests : \E l :
                 /\ pc[r] = "run"
                 /\ l \in {NoLabel, ResultLabel(program[plan[r]], Schema)}
                 /\ runs' = Append(runs, RunOf(r, l))
<1>1. ASSUME NEW r \in Requests, Executed(r)
      PROVE  /\ life' = life /\ pc[r] = "run"
             /\ \E l : /\ l \in {NoLabel, ResultLabel(program[plan[r]], Schema)}
                       /\ runs' = Append(runs, RunOf(r, l))
  BY <1>1 DEF Executed
<1>2. ASSUME NEW r \in Requests, Wrote(r) \/ Raised(r) \/ Walked(r)
      PROVE  life' = life /\ runs' = runs
  BY <1>2 DEF Wrote, Raised, Walked
<1>3. CASE Stayed
  BY <1>3 DEF Stayed
<1> QED BY <1>1, <1>2, <1>3, Ledger

(* A run that is added is the last, and the others are where they were. *)
LEMMA RunAdded ==
  ASSUME TypeOK, NEW run, runs' = Append(runs, run), NEW i \in DOMAIN runs'
  PROVE  (i \in DOMAIN runs /\ runs'[i] = runs[i]) \/ runs'[i] = run
BY DEF TypeOK, WorldOK

(* Every step keeps what is recorded of relabellings and lives in the past. *)
LEMMA NothingAheadStep ==
  ASSUME TypeOK, Planned, Tracked, NothingAhead, [Next]_vars
  PROVE  NothingAhead'
<1>a. /\ asked \in [Plans -> Nat] /\ relabels \in Nat /\ life \in Nat
      /\ \A p \in Plans : asked[p] <= relabels
  BY DEF NothingAhead, TypeOK, WorldOK
<1>b. \A i \in DOMAIN runs : runs[i] \in RunType
  BY DEF TypeOK, WorldOK
<1>c. ASSUME NEW i \in DOMAIN runs
      PROVE  /\ runs[i].life \in Nat /\ runs[i].plan \in Plans /\ runs[i].life <= life
             /\ runs[i].life = life => status[runs[i].plan] \notin {"absent", "denied"}
  BY <1>b DEF NothingAhead, RunType
<1>1. ASSUME NEW p \in Plans
      PROVE  asked'[p] <= relabels'
  <2>1. CASE Framed
    BY <1>a, <2>1 DEF Framed
  <2>2. ASSUME NEW r \in Requests, AskPlanned(r)
        PROVE  asked'[p] <= relabels'
    BY <1>a, <2>2 DEF AskPlanned
  <2>3. CASE Relabel
    BY <1>a, <2>3 DEF Relabel
  <2>4. CASE CrashAndRestart
    BY <1>a, <2>4 DEF CrashAndRestart, Die
  <2> QED BY <2>1, <2>2, <2>3, <2>4, FrameSteps
<1>2. CASE CrashAndRestart
  <2>1. life' = life + 1 /\ runs' = runs
    BY <1>2 DEF CrashAndRestart, Die
  <2>2. \A i \in DOMAIN runs' : runs'[i].life <= life' /\ runs'[i].life # life'
    BY <1>a, <1>c, <2>1
  <2> QED BY <1>1, <2>2 DEF NothingAhead
<1>3. CASE ~CrashAndRestart
  <2>1. ASSUME NEW i \in DOMAIN runs'
        PROVE  /\ runs'[i].life <= life'
               /\ runs'[i].life = life' => status'[runs'[i].plan] \notin {"absent", "denied"}
    <3>1. life' = life
      BY <1>3, RunsGrow
    <3>2. CASE i \in DOMAIN runs /\ runs'[i] = runs[i]
      <4>1. status[runs[i].plan] \notin {"absent", "denied"} =>
              status'[runs[i].plan] \notin {"absent", "denied"}
        BY <1>3, <1>c, <3>2, RecordKept
      <4> QED BY <1>c, <3>1, <3>2, <4>1
    <3>3. ASSUME NEW r \in Requests, NEW l, pc[r] = "run", runs'[i] = RunOf(r, l)
          PROVE  /\ runs'[i].life <= life'
                 /\ runs'[i].life = life' => status'[runs'[i].plan] \notin {"absent", "denied"}
      <4>1. plan[r] \in Plans /\ status[plan[r]] \notin {"absent", "denied"}
        BY <3>3 DEF Tracked, TrackedAt, Deciding, Approving, TypeOK, HandlersOK
      <4>2. status'[plan[r]] \notin {"absent", "denied"}
        BY <1>3, <4>1, RecordKept
      <4> QED BY <1>a, <3>1, <3>3, <4>2 DEF RunOf
    <3>4. \/ i \in DOMAIN runs /\ runs'[i] = runs[i]
          \/ \E r \in Requests : \E l : pc[r] = "run" /\ runs'[i] = RunOf(r, l)
      BY <1>3, RunsGrow, RunAdded
    <3> QED BY <3>2, <3>3, <3>4
  <2> QED BY <1>1, <2>1 DEF NothingAhead
<1> QED BY <1>2, <1>3

(***************************************************************************)
(* A plan about to run was allowed, so its result has a real label, on     *)
(* today's annotations too; and when they are those of the question, that  *)
(* label is the one the policy cleared.                                    *)
(***************************************************************************)
LEMMA RunIsLabelled ==
  ASSUME TypeOK, Planned, Tracked, DenyIsFinal, DecidedWhenAsked,
         NEW r \in Requests, pc[r] = "run"
  PROVE  LET p == plan[r]
             l == ResultLabel(program[p], Schema)
         IN  /\ l \in LevelNames
             /\ asked[p] = relabels =>
                  /\ Levels[l] <= Levels[Clearance]
                  /\ l = decision[p].plan_label
<1>1. PICK p \in Plans : p = plan[r]
  BY DEF TypeOK, HandlersOK
<1>2. PICK steps \in Programs : steps = program[p]
  BY <1>1 DEF Planned
<1>3. IsPlan(steps)
  BY ProgramsAreSequences DEF IsPlan
<1>4. decision[p].allow /\ status[p] # "absent"
  BY <1>1 DEF Tracked, TrackedAt, Deciding, Approving, DenyIsFinal
<1>5. PICK src \in Sources : decision[p] = Evaluate(steps, SchemaLabels(ReadSchema(src)), Clearance)
  BY <1>2, <1>4 DEF DecidedWhenAsked, DecidedOn
<1>6. \A i \in DOMAIN steps : StepLabels(steps, SchemaLabels(ReadSchema(src)))[i] # Dangling
  BY <1>3, <1>4, <1>5, Allows
<1>7. Len(steps) \in DOMAIN steps
  BY <1>3 DEF IsPlan
<1>8. StepLabels(steps, Schema)[Len(steps)] # Dangling
  BY <1>3, <1>6, <1>7, StepLabelsRise
<1>9. PICK last \in Label : last = StepLabels(steps, Schema)[Len(steps)]
  BY <1>3, <1>7, <1>8, StepLabelsTyped
<1>10. PICK l : l = ResultLabel(steps, Schema)
  OBVIOUS
<1>11. l = NameOf(last) /\ l \in LevelNames /\ Levels[l] = last
  BY <1>9, <1>10, LabelsHaveNames DEF ResultLabel
<1>12. ASSUME asked[p] = relabels
       PROVE  Levels[l] <= Levels[Clearance] /\ l = decision[p].plan_label
  <2>1. decision[p] = Evaluate(steps, Schema, Clearance)
    BY <1>2, <1>4, <1>12 DEF DecidedWhenAsked, DecidedOn, Schema
  <2>2. /\ last <= Levels[Clearance]
        /\ decision[p].plan_label = NameOf(last)
    BY <1>3, <1>4, <1>9, <2>1, Allows
  <2> QED BY <1>11, <2>2
<1> QED BY <1>1, <1>2, <1>10, <1>11, <1>12

(* What was decided of a plan with a record is not decided again in this life. *)
LEMMA DecisionKept ==
  ASSUME TypeOK, Tracked, [Next]_vars, ~CrashAndRestart, NEW p \in Plans, status[p] # "absent"
  PROVE  decision'[p] = decision[p] /\ asked'[p] = asked[p]
<1>1. CASE Framed
  BY <1>1 DEF Framed
<1>2. ASSUME NEW r \in Requests, AskPlanned(r)
      PROVE  decision'[p] = decision[p] /\ asked'[p] = asked[p]
  <2>1. pc[r] = "schema"
    BY <1>2 DEF AskPlanned, At
  <2>2. p # plan[r]
    BY <2>1 DEF Tracked, TrackedAt, Asking
  <2> QED BY <1>2, <2>2 DEF AskPlanned, TypeOK, RecordsOK, WorldOK
<1>3. CASE Relabel
  BY <1>3 DEF Relabel, records
<1> QED BY <1>1, <1>2, <1>3, FrameSteps

(* Every step keeps what was shown in this life within what was cleared. *)
LEMMA ClearedStep ==
  ASSUME TypeOK, Planned, Tracked, DenyIsFinal, DecidedWhenAsked, NothingAhead,
         ClearedUnlessRelabelled, [Next]_vars
  PROVE  ClearedUnlessRelabelled'
<1>a. \A i \in DOMAIN runs : runs[i] \in RunType
  BY DEF TypeOK, WorldOK
<1>1. CASE CrashAndRestart
  <2>1. life' = life + 1 /\ runs' = runs /\ life \in Nat
    BY <1>1 DEF CrashAndRestart, Die, TypeOK, WorldOK
  <2>2. \A i \in DOMAIN runs' : runs'[i].life # life'
    BY <1>a, <2>1 DEF NothingAhead, RunType
  <2> QED BY <2>2 DEF ClearedUnlessRelabelled
<1>2. CASE ~CrashAndRestart
  <2> SUFFICES ASSUME NEW i \in DOMAIN runs', runs'[i].label # NoLabel, runs'[i].life = life',
                      runs'[i].relabels = asked'[runs'[i].plan]
               PROVE  /\ Levels[runs'[i].label] <= Levels[Clearance]
                      /\ runs'[i].label = decision'[runs'[i].plan].plan_label
    BY DEF ClearedUnlessRelabelled
  <2>1. life' = life
    BY <1>2, RunsGrow
  <2>2. CASE i \in DOMAIN runs /\ runs'[i] = runs[i]
    <3>1. PICK p \in Plans : p = runs[i].plan
      BY <1>a, <2>2 DEF RunType
    <3>2. status[p] # "absent"
      BY <2>1, <2>2, <3>1 DEF NothingAhead
    <3>3. decision'[p] = decision[p] /\ asked'[p] = asked[p]
      BY <1>2, <3>2, DecisionKept
    <3>4. /\ Levels[runs[i].label] <= Levels[Clearance]
          /\ runs[i].label = decision[p].plan_label
      BY <2>1, <2>2, <3>1, <3>3 DEF ClearedUnlessRelabelled
    <3> QED BY <2>2, <3>1, <3>3, <3>4
  <2>3. ASSUME NEW r \in Requests, NEW l, pc[r] = "run",
               l \in {NoLabel, ResultLabel(program[plan[r]], Schema)},
               runs'[i] = RunOf(r, l)
        PROVE  /\ Levels[runs'[i].label] <= Levels[Clearance]
               /\ runs'[i].label = decision'[runs'[i].plan].plan_label
    <3>1. PICK p \in Plans : p = plan[r]
      BY <2>3 DEF TypeOK, HandlersOK
    <3>2. status[p] # "absent"
      BY <2>3, <3>1 DEF Tracked, TrackedAt, Deciding, Approving
    <3>3. decision'[p] = decision[p] /\ asked'[p] = asked[p]
      BY <1>2, <3>2, DecisionKept
    <3>4. runs'[i].plan = p /\ runs'[i].label = l /\ runs'[i].relabels = relabels
      BY <2>3, <3>1 DEF RunOf
    <3>5. l = ResultLabel(program[p], Schema)
      BY <2>3, <3>1, <3>4
    <3>6. asked[p] = relabels
      BY <3>3, <3>4
    <3>7. Levels[l] <= Levels[Clearance] /\ l = decision[p].plan_label
      BY <2>3, <3>1, <3>5, <3>6, RunIsLabelled
    <3> QED BY <3>3, <3>4, <3>7
  <2>4. \/ i \in DOMAIN runs /\ runs'[i] = runs[i]
        \/ \E r \in Requests : \E l :
             /\ pc[r] = "run" /\ l \in {NoLabel, ResultLabel(program[plan[r]], Schema)}
             /\ runs'[i] = RunOf(r, l)
    BY <1>2, RunsGrow, RunAdded
  <2> QED BY <2>2, <2>3, <2>4
<1> QED BY <1>1, <1>2

(* A result's label is not the mark of a run that failed. *)
LEMMA LabelsAreReal ==
  ASSUME TypeOK, Planned, Tracked, DenyIsFinal, DecidedWhenAsked,
         NEW r \in Requests, pc[r] = "run"
  PROVE  ResultLabel(program[plan[r]], Schema) # NoLabel
<1>1. PICK l : l = ResultLabel(program[plan[r]], Schema)
  OBVIOUS
<1>2. l \in LevelNames
  BY <1>1, RunIsLabelled
<1> QED BY <1>1, <1>2, LevelsAre DEF NoLabel

-----------------------------------------------------------------------------
(***************************************************************************)
(* Runs and digests.                                                       *)
(***************************************************************************)
(* Which handlers write which digest. *)
LEMMA DigestLine ==
  ASSUME NEW r \in Requests, pc[r] \in Logging, NEW p
  PROVE  /\ (/\ Line(r).event = "execution_digest" /\ Line(r).plan = p
             /\ Line(r).value = "success") <=> pc[r] = "digest" /\ plan[r] = p
         /\ (/\ Line(r).event = "execution_digest" /\ Line(r).plan = p
             /\ Line(r).value = "failure") <=> pc[r] = "run failed" /\ plan[r] = p
<1>1. CASE pc[r] \in {"question", "no plan", "planned", "validation", "policy", "approved",
                      "rejected", "over budget", "guard"}
  BY <1>1 DEF Line, Entry
<1>2. CASE pc[r] = "run failed"
  BY <1>2 DEF Line, Entry
<1>3. CASE pc[r] = "digest"
  BY <1>3 DEF Line, Entry
<1> QED BY <1>1, <1>2, <1>3 DEF Logging

(* The places where a digest is owed are past the form, and reached by a run only. *)
LEMMA OwedPlaces ==
  /\ {"guard", "digest", "run failed"} \subseteq Running
  /\ Logging \subseteq Running /\ "run" \in Running
  /\ \A a, b : << a, b >> \in SilentEdges =>
       a \notin {"guard", "digest", "run failed"} /\ b \notin {"guard", "digest", "run failed"}
  /\ \A a, b : << a, b >> \in LogEdges =>
       \/ a = "guard" /\ b = "digest"
       \/ a \notin {"guard", "digest", "run failed"} /\ b \notin {"guard", "digest", "run failed"}
<1>1. /\ {"guard", "digest", "run failed"} \subseteq Running
      /\ Logging \subseteq Running /\ "run" \in Running
  BY DEF Running, Asking, Approving, Rejecting, Logging
<1>2. \A a, b : << a, b >> \in SilentEdges =>
        a \notin {"guard", "digest", "run failed"} /\ b \notin {"guard", "digest", "run failed"}
  BY DEF SilentEdges
<1>3. \A a, b : << a, b >> \in LogEdges =>
       \/ a = "guard" /\ b = "digest"
       \/ a \notin {"guard", "digest", "run failed"} /\ b \notin {"guard", "digest", "run failed"}
  BY DEF LogEdges
<1> QED BY <1>1, <1>2, <1>3

(* What the handler past its form says of the digests that are owed. *)
LEMMA OwedDigests ==
  ASSUME TypeOK, NEW r \in Requests, pc[r] \in Running, Alone(r), NEW p
  PROVE  /\ Pending(p, {"guard", "digest"}) =
              IF plan[r] = p /\ pc[r] \in {"guard", "digest"} THEN 1 ELSE 0
         /\ Pending(p, {"run failed"}) = IF plan[r] = p /\ pc[r] = "run failed" THEN 1 ELSE 0
         /\ Pending(p, {"guard", "digest"})' =
              IF plan'[r] = p /\ pc'[r] \in {"guard", "digest"} THEN 1 ELSE 0
         /\ Pending(p, {"run failed"})' = IF plan'[r] = p /\ pc'[r] = "run failed" THEN 1 ELSE 0
<1>1. PICK G, R : G = {"guard", "digest"} /\ R = {"run failed"}
  OBVIOUS
<1>2. G \subseteq Running /\ R \subseteq Running
  BY <1>1, OwedPlaces
<1>3. /\ Pending(p, G) = IF plan[r] = p /\ pc[r] \in G THEN 1 ELSE 0
      /\ Pending(p, R) = IF plan[r] = p /\ pc[r] \in R THEN 1 ELSE 0
      /\ Pending(p, G)' = IF plan'[r] = p /\ pc'[r] \in G THEN 1 ELSE 0
      /\ Pending(p, R)' = IF plan'[r] = p /\ pc'[r] \in R THEN 1 ELSE 0
  BY <1>2, PendingIsTheOne
<1>4. (pc[r] \in R <=> pc[r] = "run failed") /\ (pc'[r] \in R <=> pc'[r] = "run failed")
  BY <1>1
<1> QED BY <1>1, <1>3, <1>4 DEF Pending

(* A digest that is written is of a run, and was owed. *)
LEMMA DigestsLine ==
  ASSUME TypeOK, DigestsFollow, NEW r \in Requests, pc[r] \in Logging,
         log' = Append(log, Line(r)), runs' = runs, NEW p \in Plans
  PROVE  /\ Cardinality(LinesOf(p, "execution_digest", "success")') <= Cardinality(Successes(p)')
         /\ Cardinality(LinesOf(p, "execution_digest", "failure")') <= Cardinality(Failures(p)')
<1>0. PICK event, good, bad, G, R :
        /\ event = "execution_digest" /\ good = "success" /\ bad = "failure"
        /\ G = {"guard", "digest"} /\ R = {"run failed"}
  OBVIOUS
<1>1. PICK s, f, i, j, n, m, t, g :
        /\ s = Cardinality(LinesOf(p, event, good)) /\ f = Cardinality(LinesOf(p, event, bad))
        /\ i = Pending(p, G) /\ j = Pending(p, R)
        /\ n = Cardinality(Successes(p)) /\ m = Cardinality(Failures(p))
        /\ t = Cardinality(LinesOf(p, event, good)') /\ g = Cardinality(LinesOf(p, event, bad)')
  OBVIOUS
<1>2. s + i <= n /\ f + j <= m
  BY <1>0, <1>1 DEF DigestsFollow
<1>3. PICK e \in EntryType : e = Line(r)
  BY LoggerTyped
<1>4. /\ s \in Nat /\ t = s + (IF e.event = event /\ e.plan = p /\ e.value = good THEN 1 ELSE 0)
      /\ f \in Nat /\ g = f + (IF e.event = event /\ e.plan = p /\ e.value = bad THEN 1 ELSE 0)
  <2>1. log' = Append(log, e)
    BY <1>3
  <2> QED BY <1>1, <2>1, LinesCount
<1>5. /\ e.event = event /\ e.plan = p /\ e.value = good <=> pc[r] = "digest" /\ plan[r] = p
      /\ e.event = event /\ e.plan = p /\ e.value = bad <=> pc[r] \in R /\ plan[r] = p
  BY <1>0, <1>3, DigestLine
<1>6. pc[r] \in Running /\ G \subseteq Running /\ R \subseteq Running /\ "digest" \in G
  BY <1>0, OwedPlaces
<1>7. /\ i = IF plan[r] = p /\ pc[r] \in G THEN 1 ELSE 0
      /\ j = IF plan[r] = p /\ pc[r] \in R THEN 1 ELSE 0
  BY <1>1, <1>6, PendingIsTheOne
<1>8. n \in Nat /\ m \in Nat
  <2>1. Successes(p) \subseteq DOMAIN runs /\ Failures(p) \subseteq DOMAIN runs
    BY DEF Successes, Failures, RunsOf
  <2> QED BY <1>1, <2>1, PositionsFinite, FS_Subset, FS_CardinalityType
<1>9. t <= n /\ g <= m
  BY <1>2, <1>4, <1>5, <1>6, <1>7, <1>8
<1>10. Successes(p)' = Successes(p) /\ Failures(p)' = Failures(p)
  BY DEF Successes, Failures, RunsOf
<1> QED BY <1>0, <1>1, <1>9, <1>10

(* Every step leaves room for the digest of each run that is still to be written. *)
LEMMA DigestsStep ==
  ASSUME TypeOK, Planned, Tracked, DenyIsFinal, DecidedWhenAsked, DigestsFollow, [Next]_vars
  PROVE  DigestsFollow'
<1> SUFFICES ASSUME NEW p \in Plans
             PROVE  (/\ Cardinality(LinesOf(p, "execution_digest", "success"))
                          + Pending(p, {"guard", "digest"}) <= Cardinality(Successes(p))
                     /\ Cardinality(LinesOf(p, "execution_digest", "failure"))
                          + Pending(p, {"run failed"}) <= Cardinality(Failures(p)))'
  BY DEF DigestsFollow
<1>1. PICK s, f, i, j, n, m, t, g, k, h, u, w :
        /\ s = Cardinality(LinesOf(p, "execution_digest", "success"))
        /\ f = Cardinality(LinesOf(p, "execution_digest", "failure"))
        /\ i = Pending(p, {"guard", "digest"}) /\ j = Pending(p, {"run failed"})
        /\ n = Cardinality(Successes(p)) /\ m = Cardinality(Failures(p))
        /\ t = Cardinality(LinesOf(p, "execution_digest", "success"))'
        /\ g = Cardinality(LinesOf(p, "execution_digest", "failure"))'
        /\ k = Pending(p, {"guard", "digest"})' /\ h = Pending(p, {"run failed"})'
        /\ u = Cardinality(Successes(p))' /\ w = Cardinality(Failures(p))'
  OBVIOUS
<1>0. PICK failed : failed = "run failed"
  OBVIOUS
<1>g. failed # "idle" /\ failed # "run" /\ failed # "guard" /\ failed # "digest"
  BY <1>0
<1> SUFFICES t + k <= u /\ g + h <= w
  BY <1>1
<1>a. s + i <= n /\ f + j <= m
  BY <1>1 DEF DigestsFollow
<1>b. s \in Nat /\ f \in Nat /\ n \in Nat /\ m \in Nat /\ i \in {0, 1} /\ j \in {0, 1}
  <2>1. IsFiniteSet(DOMAIN log) /\ IsFiniteSet(DOMAIN runs)
    BY PositionsFinite
  <2>2. /\ LinesOf(p, "execution_digest", "success") \subseteq DOMAIN log
        /\ LinesOf(p, "execution_digest", "failure") \subseteq DOMAIN log
        /\ Successes(p) \subseteq DOMAIN runs /\ Failures(p) \subseteq DOMAIN runs
    BY DEF LinesOf, Successes, Failures, RunsOf
  <2>3. \A D, T : IsFiniteSet(D) /\ T \subseteq D => Cardinality(T) \in Nat
    BY FS_Subset, FS_CardinalityType
  <2>4. i \in {0, 1} /\ j \in {0, 1}
    BY <1>1 DEF Pending
  <2> QED BY <1>1, <2>1, <2>2, <2>3, <2>4
<1>c. log' = log => t = s /\ g = f
  BY <1>1 DEF LinesOf
<1>d. runs' = runs => u = n /\ w = m
  BY <1>1 DEF Successes, Failures, RunsOf
<1>e. ASSUME NEW r \in Requests, pc[r] \in Running, Alone(r)
      PROVE  /\ i = IF plan[r] = p /\ pc[r] \in {"guard", "digest"} THEN 1 ELSE 0
             /\ j = IF plan[r] = p /\ pc[r] = failed THEN 1 ELSE 0
             /\ k = IF plan'[r] = p /\ pc'[r] \in {"guard", "digest"} THEN 1 ELSE 0
             /\ h = IF plan'[r] = p /\ pc'[r] = failed THEN 1 ELSE 0
  BY <1>0, <1>1, <1>e, OwedDigests
<1>f. ASSUME NEW r \in Requests, pc[r] \in Logging, log' = Append(log, Line(r))
      PROVE  /\ IF pc[r] = "digest" /\ plan[r] = p THEN t = s + 1 ELSE t = s
             /\ IF pc[r] = failed /\ plan[r] = p THEN g = f + 1 ELSE g = f
  <2>1. PICK e \in EntryType : e = Line(r)
    BY <1>f, LoggerTyped
  <2>a. log' = Append(log, e)
    BY <1>f, <2>1
  <2>b. t = s + (IF e.event = "execution_digest" /\ e.plan = p /\ e.value = "success"
                  THEN 1 ELSE 0)
    <3>1. PICK v : v = "success"
      OBVIOUS
    <3>2. Cardinality(LinesOf(p, "execution_digest", v))' =
            Cardinality(LinesOf(p, "execution_digest", v))
              + (IF e.event = "execution_digest" /\ e.plan = p /\ e.value = v THEN 1 ELSE 0)
      BY <2>a, LinesCount
    <3> QED BY <1>1, <3>1, <3>2
  <2>c. g = f + (IF e.event = "execution_digest" /\ e.plan = p /\ e.value = "failure"
                  THEN 1 ELSE 0)
    <3>1. PICK v : v = "failure"
      OBVIOUS
    <3>2. Cardinality(LinesOf(p, "execution_digest", v))' =
            Cardinality(LinesOf(p, "execution_digest", v))
              + (IF e.event = "execution_digest" /\ e.plan = p /\ e.value = v THEN 1 ELSE 0)
      BY <2>a, LinesCount
    <3> QED BY <1>1, <3>1, <3>2
  <2>d. (e.event = "execution_digest" /\ e.plan = p /\ e.value = "success")
          <=> pc[r] = "digest" /\ plan[r] = p
    BY <1>0, <1>f, <2>1, DigestLine
  <2>e. (e.event = "execution_digest" /\ e.plan = p /\ e.value = "failure")
          <=> pc[r] = failed /\ plan[r] = p
    BY <1>0, <1>f, <2>1, DigestLine
  <2>4. IF pc[r] = "digest" /\ plan[r] = p THEN t = s + 1 ELSE t = s
    BY <1>b, <2>b, <2>d
  <2>5. IF pc[r] = failed /\ plan[r] = p THEN g = f + 1 ELSE g = f
    BY <1>b, <2>c, <2>e
  <2> QED BY <2>4, <2>5
<1>2. ASSUME NEW r \in Requests, Wrote(r) \/ Raised(r)
      PROVE  t + k <= u /\ g + h <= w
  <2>1. pc[r] \in Logging /\ pc[r] \in Running /\ Alone(r)
    BY <1>2, OwedPlaces DEF Wrote, Raised
  <2>2. u = n /\ w = m
    BY <1>2, <1>d DEF Wrote, Raised
  <2>3. CASE pc'[r] = "idle"
    <3>1. k = 0 /\ h = 0
      BY <1>e, <1>g, <2>1, <2>3
    <3>2. CASE log' = log
      BY <1>a, <1>b, <1>c, <2>2, <3>1, <3>2
    <3>3. CASE log' = Append(log, Line(r))
      <4>1. /\ IF pc[r] = "digest" /\ plan[r] = p THEN t = s + 1 ELSE t = s
            /\ IF pc[r] = failed /\ plan[r] = p THEN g = f + 1 ELSE g = f
        BY <1>f, <2>1, <3>3
      <4>2. (pc[r] = "digest" /\ plan[r] = p => i = 1) /\ (pc[r] = failed /\ plan[r] = p => j = 1)
        BY <1>e, <2>1
      <4>3. t <= s + i /\ g <= f + j
        BY <1>b, <4>1, <4>2
      <4> QED BY <1>a, <1>b, <2>2, <3>1, <4>1, <4>3
    <3> QED BY <1>2, <3>2, <3>3 DEF Wrote, Raised
  <2>4. CASE Wrote(r) /\ << pc[r], pc'[r] >> \in LogEdges /\ plan'[r] = plan[r]
    <3>1. t = s /\ g = f /\ k = i /\ h = j
      <4>1. log' = Append(log, Line(r))
        BY <2>4 DEF Wrote
      <4>2. \/ pc[r] = "guard" /\ pc'[r] = "digest"
            \/ /\ pc[r] \notin {"guard", "digest", failed}
               /\ pc'[r] \notin {"guard", "digest", failed}
        BY <1>0, <2>4, OwedPlaces
      <4>3. t = s /\ g = f
        <5>1. /\ IF pc[r] = "digest" /\ plan[r] = p THEN t = s + 1 ELSE t = s
              /\ IF pc[r] = failed /\ plan[r] = p THEN g = f + 1 ELSE g = f
          BY <1>f, <2>1, <4>1
        <5>2. pc[r] # "digest" /\ pc[r] # failed
          BY <1>g, <4>2
        <5> QED BY <5>1, <5>2
      <4>4. k = i /\ h = j
        BY <1>e, <1>g, <2>1, <2>4, <4>2
      <4> QED BY <4>3, <4>4
    <3> QED BY <1>a, <2>2, <3>1
  <2> QED BY <1>2, <2>3, <2>4 DEF Wrote, Raised
<1>3. ASSUME NEW r \in Requests, Executed(r)
      PROVE  t + k <= u /\ g + h <= w
  <2>1. /\ pc[r] = "run" /\ pc[r] \in Running /\ Alone(r) /\ plan'[r] = plan[r]
        /\ t = s /\ g = f
    BY <1>3, <1>c, OwedPlaces DEF Executed
  <2>a. PICK label : label = ResultLabel(program[plan[r]], Schema)
    OBVIOUS
  <2>2. PICK l : /\ runs' = Append(runs, RunOf(r, l))
                 /\ (l = NoLabel /\ pc'[r] = failed) \/ (l = label /\ pc'[r] = "guard")
    <3>1. CASE pc'[r] = "run failed" /\ runs' = Append(runs, RunOf(r, NoLabel))
      <4>1. pc'[r] = failed
        BY <1>0, <3>1
      <4> QED BY <3>1, <4>1, Zenon
    <3>2. CASE pc'[r] = "guard" /\ \E l : l = label /\ runs' = Append(runs, RunOf(r, l))
      BY <3>2
    <3> QED BY <1>3, <2>a, <3>1, <3>2, Zenon DEF Executed
  <2>3. (l = NoLabel /\ pc'[r] = failed) \/ (l # NoLabel /\ pc'[r] = "guard")
    <3>1. label # NoLabel
      BY <2>1, <2>a, LabelsAreReal
    <3> QED BY <2>2, <3>1
  <2>4. PICK run : run = RunOf(r, l)
    OBVIOUS
  <2>5. run.plan = plan[r] /\ run.label = l
    BY <2>4 DEF RunOf
  <2>6. /\ u = n + (IF run.plan = p /\ run.label # NoLabel THEN 1 ELSE 0)
        /\ w = m + (IF run.plan = p /\ run.label = NoLabel THEN 1 ELSE 0)
    BY <1>1, <2>2, <2>4, EndsCount
  <2>7. /\ k = IF plan[r] = p /\ pc'[r] = "guard" THEN 1 ELSE 0
        /\ h = IF plan[r] = p /\ pc'[r] = failed THEN 1 ELSE 0
        /\ i = 0 /\ j = 0
    BY <1>e, <1>g, <2>1, <2>3
  <2>8. CASE l = NoLabel /\ pc'[r] = failed
    BY <1>a, <1>b, <1>g, <2>1, <2>5, <2>6, <2>7, <2>8
  <2>9. CASE l # NoLabel /\ pc'[r] = "guard"
    BY <1>a, <1>b, <1>g, <2>1, <2>5, <2>6, <2>7, <2>9
  <2> QED BY <2>3, <2>8, <2>9
<1>4. ASSUME NEW r \in Requests, Walked(r)
      PROVE  t + k <= u /\ g + h <= w
  <2>1. /\ pc[r] \notin {"guard", "digest", "run failed"}
        /\ pc'[r] \notin {"guard", "digest", "run failed"}
    BY <1>4, OwedPlaces DEF Walked
  <2>2. k = i /\ h = j
    BY <1>1, <1>4, <2>1, PendingStays DEF Walked
  <2> QED BY <1>4, <1>a, <1>c, <1>d, <2>2 DEF Walked
<1>5. CASE Stayed
  <2>1. k = i /\ h = j
    BY <1>1, <1>5 DEF Stayed, Pending
  <2> QED BY <1>5, <1>a, <1>c, <1>d, <2>1 DEF Stayed
<1>6. CASE CrashAndRestart
  <2>1. k = 0 /\ h = 0
    BY <1>1, <1>6 DEF CrashAndRestart, Die, Pending
  <2>2. log' = log /\ runs' = runs
    BY <1>6 DEF CrashAndRestart, Die
  <2> QED BY <1>a, <1>b, <1>c, <1>d, <2>1, <2>2
<1> QED BY <1>2, <1>3, <1>4, <1>5, <1>6, Ledger

-----------------------------------------------------------------------------
(***************************************************************************)
(* Approvals and outcomes.                                                 *)
(***************************************************************************)
(* Where a handler stands between its approval's line and its outcome's. *)
Owing == Approving \ {"approved"}

Owed == IF \E r \in Requests : pc[r] \in Owing THEN 1 ELSE 0

(* A line is an approval, an outcome, or neither. *)
LEMMA TallyCount ==
  ASSUME TypeOK, NEW e \in EntryType, log' = Append(log, e)
  PROVE  /\ Cardinality(ApprovalLines) \in Nat /\ Cardinality(OutcomeLines) \in Nat
         /\ Cardinality(ApprovalLines') =
              Cardinality(ApprovalLines)
                + (IF e.event = "approval" /\ e.value = "approve" THEN 1 ELSE 0)
         /\ Cardinality(OutcomeLines') =
              Cardinality(OutcomeLines)
                + (IF e.event = "execution_digest" \/ e.value = "query_budget" THEN 1 ELSE 0)
<1>1. PICK A, O, n, D :
        A = ApprovalLines /\ O = OutcomeLines /\ n = Len(log) + 1 /\ D = DOMAIN log
  OBVIOUS
<1>2. A \subseteq D /\ O \subseteq D /\ IsFiniteSet(D) /\ n \notin D
  BY <1>1, PositionsFinite DEF ApprovalLines, OutcomeLines
<1>3. /\ Cardinality(A) \in Nat /\ Cardinality(A \cup {n}) = Cardinality(A) + 1
      /\ Cardinality(O) \in Nat /\ Cardinality(O \cup {n}) = Cardinality(O) + 1
  BY <1>2, OneMore
<1>4. /\ DOMAIN log' = D \cup {n} /\ log'[n] = e
      /\ \A i \in D : log'[i] = log[i]
  BY <1>1 DEF TypeOK, WorldOK
<1>5. /\ ApprovalLines' =
           A \cup (IF e.event = "approval" /\ e.value = "approve" THEN {n} ELSE {})
      /\ OutcomeLines' =
           O \cup (IF e.event = "execution_digest" \/ e.value = "query_budget" THEN {n} ELSE {})
  BY <1>1, <1>2, <1>4 DEF ApprovalLines, OutcomeLines
<1>6. Cardinality(ApprovalLines') =
        Cardinality(A) + (IF e.event = "approval" /\ e.value = "approve" THEN 1 ELSE 0)
  <2>1. CASE e.event = "approval" /\ e.value = "approve"
    <3>1. ApprovalLines' = A \cup {n}
      BY <1>5, <2>1
    <3> QED BY <1>3, <2>1, <3>1
  <2>2. CASE ~(e.event = "approval" /\ e.value = "approve")
    <3>1. ApprovalLines' = A
      BY <1>5, <2>2
    <3> QED BY <1>3, <2>2, <3>1
  <2> QED BY <2>1, <2>2
<1>7. Cardinality(OutcomeLines') =
        Cardinality(O) + (IF e.event = "execution_digest" \/ e.value = "query_budget" THEN 1 ELSE 0)
  <2>1. CASE e.event = "execution_digest" \/ e.value = "query_budget"
    <3>1. OutcomeLines' = O \cup {n}
      BY <1>5, <2>1
    <3> QED BY <1>3, <2>1, <3>1
  <2>2. CASE ~(e.event = "execution_digest" \/ e.value = "query_budget")
    <3>1. OutcomeLines' = O
      BY <1>5, <2>2
    <3> QED BY <1>3, <2>2, <3>1
  <2> QED BY <2>1, <2>2
<1> QED BY <1>1, <1>3, <1>6, <1>7

(* Which handlers write approvals, and which write outcomes. *)
LEMMA OutcomeLine ==
  ASSUME NEW r \in Requests, pc[r] \in Logging
  PROVE  /\ (Line(r).event = "approval" /\ Line(r).value = "approve") <=> pc[r] = "approved"
         /\ (Line(r).event = "execution_digest" \/ Line(r).value = "query_budget")
              <=> pc[r] \in {"over budget", "run failed", "digest"}
<1>1. CASE pc[r] \in {"question", "no plan", "planned", "rejected", "guard", "approved",
                      "over budget", "run failed", "digest"}
  BY <1>1 DEF Line, Entry
<1>2. CASE pc[r] = "validation"
  <2>1. /\ Line(r).event = "validation_result"
        /\ Line(r).value = IF todo[r] = 1 THEN "valid" ELSE "invalid"
    BY <1>2 DEF Line, Entry
  <2> QED BY <1>2, <2>1
<1>3. CASE pc[r] = "policy"
  <2>1. /\ Line(r).event = "policy_decision"
        /\ Line(r).value = IF decision[plan[r]].allow THEN "allow" ELSE "deny"
    BY <1>3 DEF Line, Entry
  <2> QED BY <1>3, <2>1
<1> QED BY <1>1, <1>2, <1>3 DEF Logging

(* Where an outcome is owed, and how a handler gets there and leaves. *)
LEMMA OwingPlaces ==
  /\ Owing = {"charge", "over budget", "run", "run failed", "guard", "digest"}
  /\ Owing \subseteq Running
  /\ \A a, b : << a, b >> \in SilentEdges => (a \in Owing <=> b \in Owing)
  /\ \A a, b : << a, b >> \in LogEdges =>
       \/ a = "approved" /\ b = "charge"
       \/ a = "guard" /\ b = "digest"
       \/ a \notin Owing \cup {"approved"} /\ b \notin Owing
<1>1. Owing = {"charge", "over budget", "run", "run failed", "guard", "digest"}
  BY DEF Owing, Approving
<1>2. Owing \subseteq Running
  BY DEF Owing, Running
<1>3. \A a, b : << a, b >> \in SilentEdges => (a \in Owing <=> b \in Owing)
  BY <1>1 DEF SilentEdges
<1>4. \A a, b : << a, b >> \in LogEdges =>
        \/ a = "approved" /\ b = "charge"
        \/ a = "guard" /\ b = "digest"
        \/ a \notin Owing \cup {"approved"} /\ b \notin Owing
  BY <1>1 DEF LogEdges
<1> QED BY <1>1, <1>2, <1>3, <1>4

(* The handler that is past its form is the only one that can owe an outcome. *)
LEMMA OwedByTheOne ==
  ASSUME TypeOK, NEW r \in Requests, pc[r] \in Running, Alone(r)
  PROVE  /\ Owed = IF pc[r] \in Owing THEN 1 ELSE 0
         /\ Owed' = IF pc'[r] \in Owing THEN 1 ELSE 0
<1>1. \A q \in Requests \ {r} : pc[q] \notin Owing /\ pc'[q] \notin Owing
  BY LoneHandler, OwingPlaces DEF Alone
<1> QED BY <1>1 DEF Owed

(* Every step leaves an approval without outcome to its handler, a fault or a crash. *)
LEMMA OutcomesStep ==
  ASSUME TypeOK, Planned, OutcomesFollow, [Next]_vars
  PROVE  OutcomesFollow'
<1>1. PICK a, o, d, x, y, z :
        /\ a = Cardinality(ApprovalLines) /\ o = Cardinality(OutcomeLines) /\ d = Owed
        /\ x = Cardinality(ApprovalLines)' /\ y = Cardinality(OutcomeLines)' /\ z = Owed'
  OBVIOUS
<1>a. a <= o + faults + (life - 1) + d
  BY <1>1 DEF OutcomesFollow, Owed, Owing
<1> SUFFICES x <= y + faults' + (life' - 1) + z
  BY <1>1 DEF OutcomesFollow, Owed, Owing
<1>b. a \in Nat /\ o \in Nat /\ faults \in Nat /\ life \in Nat /\ d \in {0, 1}
  <2>1. ApprovalLines \subseteq DOMAIN log /\ OutcomeLines \subseteq DOMAIN log
    BY DEF ApprovalLines, OutcomeLines
  <2> QED BY <1>1, <2>1, PositionsFinite, FS_Subset, FS_CardinalityType DEF Owed, TypeOK, WorldOK
<1>c. log' = log => x = a /\ y = o
  BY <1>1 DEF ApprovalLines, OutcomeLines
<1>0. PICK Ends : Ends = {"over budget", "run failed", "digest"}
  OBVIOUS
<1>d. ASSUME NEW r \in Requests, pc[r] \in Logging, log' = Append(log, Line(r))
      PROVE  /\ IF pc[r] = "approved" THEN x = a + 1 ELSE x = a
             /\ IF pc[r] \in Ends THEN y = o + 1 ELSE y = o
  <2>1. PICK e \in EntryType : e = Line(r)
    BY <1>d, LoggerTyped
  <2>3. /\ x = a + (IF e.event = "approval" /\ e.value = "approve" THEN 1 ELSE 0)
        /\ y = o + (IF e.event = "execution_digest" \/ e.value = "query_budget" THEN 1 ELSE 0)
    BY <1>1, <1>d, <2>1, TallyCount
  <2>4. /\ (e.event = "approval" /\ e.value = "approve") <=> pc[r] = "approved"
        /\ (e.event = "execution_digest" \/ e.value = "query_budget") <=> pc[r] \in Ends
    BY <1>0, <1>d, <2>1, OutcomeLine
  <2> QED BY <1>b, <2>3, <2>4
<1>e. ASSUME NEW r \in Requests, pc[r] \in Running, Alone(r)
      PROVE  /\ IF pc[r] \in Owing THEN d = 1 ELSE d = 0
             /\ IF pc'[r] \in Owing THEN z = 1 ELSE z = 0
  BY <1>1, <1>e, OwedByTheOne
<1>2. ASSUME NEW r \in Requests, Wrote(r)
      PROVE  x <= y + faults' + (life' - 1) + z
  <2>1. /\ pc[r] \in Logging /\ pc[r] \in Running /\ Alone(r)
        /\ log' = Append(log, Line(r)) /\ faults' = faults /\ life' = life
    BY <1>2, OwedPlaces DEF Wrote
  <2>2. /\ IF pc[r] \in Owing THEN d = 1 ELSE d = 0
        /\ IF pc'[r] \in Owing THEN z = 1 ELSE z = 0
    BY <1>e, <2>1
  <2>3. /\ IF pc[r] = "approved" THEN x = a + 1 ELSE x = a
        /\ IF pc[r] \in Ends THEN y = o + 1 ELSE y = o
    BY <1>d, <2>1
  <2>4. CASE << pc[r], pc'[r] >> \in LogEdges
    <3>1. \/ pc[r] = "approved" /\ pc[r] \notin Owing /\ pc'[r] \in Owing
          \/ pc[r] # "approved" /\ (pc[r] \in Owing <=> pc'[r] \in Owing)
      BY <2>4, OwingPlaces
    <3>2. pc[r] \notin Ends
      BY <1>0, <2>4 DEF LogEdges
    <3> QED BY <1>a, <1>b, <2>1, <2>2, <2>3, <3>1, <3>2
  <2>5. CASE pc[r] \in LastLines /\ pc'[r] = "idle"
    <3>1. pc[r] # "approved" /\ pc'[r] \notin Owing
      BY <2>5, OwingPlaces DEF LastLines
    <3>2. pc[r] \in Owing => pc[r] \in Ends
      BY <1>0, <2>5, OwingPlaces DEF LastLines
    <3> QED BY <1>a, <1>b, <2>1, <2>2, <2>3, <3>1, <3>2
  <2> QED BY <1>2, <2>4, <2>5 DEF Wrote
<1>3. ASSUME NEW r \in Requests, Raised(r)
      PROVE  x <= y + faults' + (life' - 1) + z
  <2>1. /\ pc[r] \in Logging /\ pc[r] \in Running /\ Alone(r) /\ pc'[r] = "idle"
        /\ log' = log \/ log' = Append(log, Line(r))
        /\ faults' = faults + 1 /\ life' = life
    BY <1>3, OwedPlaces DEF Raised
  <2>2. /\ IF pc[r] \in Owing THEN d = 1 ELSE d = 0
        /\ IF pc'[r] \in Owing THEN z = 1 ELSE z = 0
    BY <1>e, <2>1
  <2>3. pc'[r] \notin Owing /\ (pc[r] = "approved" => pc[r] \notin Owing)
    BY <2>1, OwingPlaces
  <2>4. CASE log' = log
    BY <1>a, <1>b, <1>c, <2>1, <2>2, <2>3, <2>4
  <2>5. CASE log' = Append(log, Line(r))
    <3>1. /\ IF pc[r] = "approved" THEN x = a + 1 ELSE x = a
          /\ IF pc[r] \in Ends THEN y = o + 1 ELSE y = o
      BY <1>d, <2>1, <2>5
    <3> QED BY <1>a, <1>b, <2>1, <2>2, <2>3, <3>1
  <2> QED BY <2>1, <2>4, <2>5
<1>4. ASSUME NEW r \in Requests, Executed(r)
      PROVE  x <= y + faults' + (life' - 1) + z
  <2>1. /\ pc[r] \in Owing /\ pc[r] \in Running /\ pc'[r] \in Owing
        /\ Alone(r) /\ log' = log /\ faults' = faults /\ life' = life
    BY <1>4, OwingPlaces DEF Executed
  <2>2. d = 1 /\ z = 1
    BY <1>e, <2>1
  <2> QED BY <1>a, <1>c, <2>1, <2>2
<1>5. ASSUME NEW r \in Requests, Walked(r)
      PROVE  x <= y + faults' + (life' - 1) + z
  <2>1. pc[r] \in Owing <=> pc'[r] \in Owing
    BY <1>5, OwingPlaces DEF Walked
  <2>2. z = d
    BY <1>1, <1>5, <2>1 DEF Walked, Alone, Owed
  <2> QED BY <1>5, <1>a, <1>c, <2>2 DEF Walked
<1>6. CASE Stayed
  <2>1. z = d
    BY <1>1, <1>6 DEF Stayed, Owed
  <2> QED BY <1>6, <1>a, <1>c, <2>1 DEF Stayed
<1>7. CASE CrashAndRestart
  <2>1. log' = log /\ life' = life + 1 /\ faults' = faults /\ z = 0
    BY <1>1, <1>7, OwingPlaces DEF CrashAndRestart, Die, Owed
  <2> QED BY <1>a, <1>b, <1>c, <2>1
<1> QED BY <1>2, <1>3, <1>4, <1>5, <1>6, <1>7, Ledger

-----------------------------------------------------------------------------
(***************************************************************************)
(* The approvals and the outcomes of one plan.                             *)
(***************************************************************************)
(* A line that says what became of an approval of p. *)
Outcome(e, p) ==
  /\ e.plan = p
  /\ \/ e.event = "execution_digest" /\ e.value \in {"success", "failure"}
     \/ e.event = "guard_decision" /\ e.value = "query_budget"

Approval(e, p) == e.event = "approval" /\ e.plan = p /\ e.value = "approve"

(* A line counts among the outcomes of the plan it is one of, and of no other. *)
LEMMA OutcomesOfAppend ==
  ASSUME log \in Seq(EntryType), NEW e \in EntryType, log' = Append(log, e), NEW p
  PROVE  OutcomesOf(p)' = OutcomesOf(p) \cup (IF Outcome(e, p) THEN {Len(log) + 1} ELSE {})
<1>1. PICK s, f, b : s = "success" /\ f = "failure" /\ b = "query_budget"
  OBVIOUS
<1>2. PICK d, g : d = "execution_digest" /\ g = "guard_decision"
  OBVIOUS
<1>3. /\ LinesOf(p, d, s)' = LinesOf(p, d, s)
           \cup (IF e.event = d /\ e.plan = p /\ e.value = s THEN {Len(log) + 1} ELSE {})
      /\ LinesOf(p, d, f)' = LinesOf(p, d, f)
           \cup (IF e.event = d /\ e.plan = p /\ e.value = f THEN {Len(log) + 1} ELSE {})
      /\ LinesOf(p, g, b)' = LinesOf(p, g, b)
           \cup (IF e.event = g /\ e.plan = p /\ e.value = b THEN {Len(log) + 1} ELSE {})
  BY LinesOfAppend
<1>4. OutcomesOf(p) = LinesOf(p, d, s) \cup LinesOf(p, d, f) \cup LinesOf(p, g, b)
  BY <1>1, <1>2 DEF OutcomesOf
<1>5. OutcomesOf(p)' = LinesOf(p, d, s)' \cup LinesOf(p, d, f)' \cup LinesOf(p, g, b)'
  BY <1>1, <1>2 DEF OutcomesOf
<1>6. Outcome(e, p) <=> \/ e.event = d /\ e.plan = p /\ e.value = s
                        \/ e.event = d /\ e.plan = p /\ e.value = f
                        \/ e.event = g /\ e.plan = p /\ e.value = b
  BY <1>1, <1>2 DEF Outcome
<1> QED BY <1>3, <1>4, <1>5, <1>6

(* How one line changes these numbers, and that it changes nothing before itself. *)
LEMMA OwnTally ==
  ASSUME TypeOK, NEW e \in EntryType, log' = Append(log, e), NEW p,
         NEW A, A = LinesOf(p, "approval", "approve"), NEW O, O = OutcomesOf(p),
         NEW B1, B1 = LinesOf(p, "approval", "approve")', NEW Q1, Q1 = OutcomesOf(p)'
  PROVE  /\ A \subseteq DOMAIN log /\ O \subseteq DOMAIN log
         /\ Cardinality(A) \in Nat /\ Cardinality(O) \in Nat
         /\ B1 = A \cup (IF Approval(e, p) THEN {Len(log) + 1} ELSE {})
         /\ Q1 = O \cup (IF Outcome(e, p) THEN {Len(log) + 1} ELSE {})
         /\ Cardinality(B1) = Cardinality(A) + (IF Approval(e, p) THEN 1 ELSE 0)
         /\ Cardinality(Q1) = Cardinality(O) + (IF Outcome(e, p) THEN 1 ELSE 0)
<1>1. PICK n, D : n = Len(log) + 1 /\ D = DOMAIN log
  OBVIOUS
<1>2. A \subseteq D /\ O \subseteq D /\ IsFiniteSet(D) /\ n \notin D
  BY <1>1, PositionsFinite DEF LinesOf, OutcomesOf
<1>3. /\ Cardinality(A) \in Nat /\ Cardinality(A \cup {n}) = Cardinality(A) + 1
      /\ Cardinality(O) \in Nat /\ Cardinality(O \cup {n}) = Cardinality(O) + 1
  BY <1>2, OneMore
<1>4. B1 = A \cup (IF Approval(e, p) THEN {n} ELSE {})
  BY <1>1, LinesOfAppend DEF TypeOK, WorldOK, Approval
<1>5. Q1 = O \cup (IF Outcome(e, p) THEN {n} ELSE {})
  BY <1>1, OutcomesOfAppend DEF TypeOK, WorldOK
<1>6. Cardinality(B1) = Cardinality(A) + (IF Approval(e, p) THEN 1 ELSE 0)
  <2>1. CASE Approval(e, p)
    <3>1. B1 = A \cup {n}
      BY <1>4, <2>1
    <3> QED BY <1>3, <2>1, <3>1
  <2>2. CASE ~Approval(e, p)
    <3>1. B1 = A
      BY <1>4, <2>2
    <3> QED BY <1>3, <2>2, <3>1
  <2> QED BY <2>1, <2>2
<1>7. Cardinality(Q1) = Cardinality(O) + (IF Outcome(e, p) THEN 1 ELSE 0)
  <2>1. CASE Outcome(e, p)
    <3>1. Q1 = O \cup {n}
      BY <1>5, <2>1
    <3> QED BY <1>3, <2>1, <3>1
  <2>2. CASE ~Outcome(e, p)
    <3>1. Q1 = O
      BY <1>5, <2>2
    <3> QED BY <1>3, <2>2, <3>1
  <2> QED BY <2>1, <2>2
<1> QED BY <1>1, <1>2, <1>3, <1>4, <1>5, <1>6, <1>7

(* Which handlers write approvals of p, and which its outcomes. *)
LEMMA OwnLine ==
  ASSUME NEW r \in Requests, pc[r] \in Logging, NEW p
  PROVE  /\ Approval(Line(r), p) <=> pc[r] = "approved" /\ plan[r] = p
         /\ Outcome(Line(r), p) <=>
              pc[r] \in {"over budget", "run failed", "digest"} /\ plan[r] = p
<1>1. CASE pc[r] \in {"question", "no plan", "planned", "validation", "policy", "rejected"}
  BY <1>1 DEF Line, Entry, Approval, Outcome
<1>2. CASE pc[r] \in {"guard", "approved"}
  BY <1>2 DEF Line, Entry, Approval, Outcome
<1>3. CASE pc[r] \in {"over budget", "run failed", "digest"}
  BY <1>3 DEF Line, Entry, Approval, Outcome
<1> QED BY <1>1, <1>2, <1>3 DEF Logging

(***************************************************************************)
(* A line that its handler goes on from, or ends with: the outcome that is *)
(* written was owed, and the approval that is written is owed its outcome. *)
(***************************************************************************)
LEMMA OwnOutcome ==
  ASSUME TypeOK, OutcomesApproved, NEW r \in Requests, pc[r] \in Logging,
         log' = Append(log, Line(r)), NEW p \in Plans, NEW k \in {0, 1},
         k = 1 => plan[r] = p /\ pc[r] \in {"approved", "guard"}
  PROVE  Cardinality(OutcomesOf(p)') + k <= Cardinality(LinesOf(p, "approval", "approve")')
<1>1. PICK e \in EntryType : e = Line(r)
  BY LoggerTyped
<1>2. PICK A, O, B1, Q1, n :
        /\ A = LinesOf(p, "approval", "approve") /\ O = OutcomesOf(p)
        /\ B1 = LinesOf(p, "approval", "approve")' /\ Q1 = OutcomesOf(p)'
        /\ n = Len(log) + 1
  OBVIOUS
<1>3. PICK a, o, b, q : /\ a = Cardinality(A) /\ o = Cardinality(O)
                        /\ b = Cardinality(B1) /\ q = Cardinality(Q1)
  OBVIOUS
<1>4. log' = Append(log, e)
  BY <1>1
<1>5. /\ a \in Nat /\ o \in Nat
      /\ b = a + (IF Approval(e, p) THEN 1 ELSE 0)
      /\ q = o + (IF Outcome(e, p) THEN 1 ELSE 0)
  BY <1>2, <1>3, <1>4, OwnTally
<1>6. PICK Ends : Ends = {"over budget", "run failed", "digest"}
  OBVIOUS
<1>7. /\ Approval(e, p) <=> pc[r] = "approved" /\ plan[r] = p
      /\ Outcome(e, p) <=> pc[r] \in Ends /\ plan[r] = p
  BY <1>1, <1>6, OwnLine
<1>8. PICK Late : Late = Owing
  OBVIOUS
<1>9. Late \subseteq Running /\ Logging \subseteq Running
  BY <1>8, OwingPlaces, OwedPlaces
<1>10. PICK i : i = IF plan[r] = p /\ pc[r] \in Late THEN 1 ELSE 0
  OBVIOUS
<1>11. Pending(p, Late) = i
  BY <1>9, <1>10, PendingIsTheOne
<1>12. o + i <= a
  BY <1>2, <1>3, <1>8, <1>11 DEF OutcomesApproved, Owing
<1>13. /\ Ends \subseteq Late /\ "guard" \in Late
       /\ "approved" \notin Late /\ "guard" \notin Ends /\ "approved" \notin Ends
  BY <1>6, <1>8, OwingPlaces
<1>14. CASE k = 1
  <2>1. ~Outcome(e, p)
    BY <1>7, <1>13, <1>14
  <2>2. CASE pc[r] = "guard"
    BY <1>5, <1>10, <1>12, <1>13, <1>14, <2>1, <2>2, <1>3, <1>2
  <2>3. CASE pc[r] = "approved"
    <3>1. Approval(e, p)
      BY <1>7, <1>14, <2>3
    <3> QED BY <1>5, <1>10, <1>12, <1>14, <2>1, <3>1, <1>3, <1>2
  <2> QED BY <1>14, <2>2, <2>3
<1>15. CASE k = 0
  <2>1. Outcome(e, p) => i = 1
    BY <1>7, <1>10, <1>13
  <2>2. q <= b
    BY <1>5, <1>10, <1>12, <2>1
  <2> QED BY <1>2, <1>3, <1>5, <1>15, <2>2
<1> QED BY <1>14, <1>15

(* Every step leaves room for the outcome that is owed. *)
LEMMA OutcomesApprovedStep ==
  ASSUME TypeOK, Planned, OutcomesApproved, [Next]_vars
  PROVE  OutcomesApproved'
<1> SUFFICES ASSUME NEW p \in Plans
             PROVE  (Cardinality(OutcomesOf(p)) + Pending(p, Owing)
                       <= Cardinality(LinesOf(p, "approval", "approve")))'
  BY DEF OutcomesApproved, Owing
<1>1. PICK Late : Late = Owing
  OBVIOUS
<1>2. PICK i, k : i = Pending(p, Late) /\ k = Pending(p, Late)'
  OBVIOUS
<1> SUFFICES Cardinality(OutcomesOf(p)') + k <= Cardinality(LinesOf(p, "approval", "approve")')
  BY <1>1, <1>2
<1>3. i \in {0, 1} /\ k \in {0, 1}
  BY <1>2 DEF Pending
<1>4. /\ Late \subseteq Running /\ Logging \subseteq Running
      /\ "guard" \in Late /\ "digest" \in Late /\ "charge" \in Late
      /\ "idle" \notin Late /\ "approved" \notin Late
  BY <1>1, OwingPlaces, OwedPlaces
<1>5. ASSUME NEW r \in Requests, pc[r] \in Running, Alone(r)
      PROVE  /\ i = IF plan[r] = p /\ pc[r] \in Late THEN 1 ELSE 0
             /\ k = IF plan'[r] = p /\ pc'[r] \in Late THEN 1 ELSE 0
  BY <1>2, <1>4, <1>5, PendingIsTheOne
<1>6. ASSUME log' = log, k = i \/ k = 0
      PROVE  Cardinality(OutcomesOf(p)') + k <= Cardinality(LinesOf(p, "approval", "approve")')
  <2>1. PICK a, o : /\ a = Cardinality(LinesOf(p, "approval", "approve"))
                    /\ o = Cardinality(OutcomesOf(p))
    OBVIOUS
  <2>2. a \in Nat /\ o \in Nat
    <3>1. LinesOf(p, "approval", "approve") \subseteq DOMAIN log /\ OutcomesOf(p) \subseteq DOMAIN log
      BY DEF LinesOf, OutcomesOf
    <3> QED BY <2>1, <3>1, PositionsFinite, FS_Subset, FS_CardinalityType
  <2>3. o + i <= a
    BY <1>1, <1>2, <2>1 DEF OutcomesApproved, Owing
  <2>4. o + k <= a
    BY <1>3, <1>6, <2>2, <2>3
  <2>5. /\ LinesOf(p, "approval", "approve")' = LinesOf(p, "approval", "approve")
        /\ OutcomesOf(p)' = OutcomesOf(p)
    BY <1>6 DEF LinesOf, OutcomesOf
  <2> QED BY <2>1, <2>4, <2>5
<1>7. ASSUME NEW r \in Requests, Wrote(r)
      PROVE  Cardinality(OutcomesOf(p)') + k <= Cardinality(LinesOf(p, "approval", "approve")')
  <2>1. pc[r] \in Logging /\ pc[r] \in Running /\ Alone(r) /\ log' = Append(log, Line(r))
    BY <1>4, <1>7 DEF Wrote
  <2>2. k = IF plan'[r] = p /\ pc'[r] \in Late THEN 1 ELSE 0
    BY <1>5, <2>1
  <2>3. k = 1 => plan[r] = p /\ pc[r] \in {"approved", "guard"}
    <3>1. CASE << pc[r], pc'[r] >> \in LogEdges /\ plan'[r] = plan[r]
      <4>1. \/ pc[r] = "approved" \/ pc[r] = "guard" \/ pc'[r] \notin Late
        BY <1>1, <3>1, OwingPlaces
      <4> QED BY <2>2, <3>1, <4>1
    <3>2. CASE pc'[r] = "idle"
      BY <1>4, <2>2, <3>2
    <3> QED BY <1>7, <3>1, <3>2 DEF Wrote
  <2> QED BY <1>3, <2>1, <2>3, OwnOutcome
<1>8. ASSUME NEW r \in Requests, Raised(r)
      PROVE  Cardinality(OutcomesOf(p)') + k <= Cardinality(LinesOf(p, "approval", "approve")')
  <2>1. /\ pc[r] \in Logging /\ pc[r] \in Running /\ Alone(r) /\ pc'[r] = "idle"
        /\ log' = log \/ log' = Append(log, Line(r))
    BY <1>4, <1>8 DEF Raised
  <2>2. k = 0
    BY <1>4, <1>5, <2>1
  <2>3. CASE log' = log
    BY <1>6, <2>2, <2>3
  <2>4. CASE log' = Append(log, Line(r))
    BY <1>3, <2>1, <2>2, <2>4, OwnOutcome
  <2> QED BY <2>1, <2>3, <2>4
<1>9. ASSUME NEW r \in Requests, Executed(r)
      PROVE  Cardinality(OutcomesOf(p)') + k <= Cardinality(LinesOf(p, "approval", "approve")')
  <2>1. /\ pc[r] \in Late /\ pc[r] \in Running /\ pc'[r] \in Late
        /\ Alone(r) /\ log' = log /\ plan'[r] = plan[r]
    BY <1>1, <1>9, OwingPlaces DEF Executed
  <2>2. k = i
    BY <1>5, <2>1
  <2> QED BY <1>6, <2>1, <2>2
<1>10. ASSUME NEW r \in Requests, Walked(r)
       PROVE  Cardinality(OutcomesOf(p)') + k <= Cardinality(LinesOf(p, "approval", "approve")')
  <2>1. /\ pc[r] \in Late <=> pc'[r] \in Late
        /\ pc[r] \in Late /\ pc'[r] \in Late => plan'[r] = plan[r]
        /\ Alone(r) /\ log' = log
    BY <1>1, <1>4, <1>10, OwingPlaces DEF Walked
  <2>2. k = i
    BY <1>2, <2>1 DEF Alone, Pending
  <2> QED BY <1>6, <2>1, <2>2
<1>11. CASE Stayed
  <2>1. k = i
    BY <1>2, <1>11 DEF Stayed, Pending
  <2> QED BY <1>6, <1>11, <2>1 DEF Stayed
<1>12. CASE CrashAndRestart
  <2>1. log' = log /\ k = 0
    BY <1>2, <1>4, <1>12 DEF CrashAndRestart, Die, Pending
  <2> QED BY <1>6, <2>1
<1> QED BY <1>7, <1>8, <1>9, <1>10, <1>11, <1>12, Ledger

(***************************************************************************)
(* What a new line has to be for the log to go on reading in order: an     *)
(* approval finds the policy's allow, and all outcomes their approvals.    *)
(***************************************************************************)
LEMMA ReadsWithOneMore ==
  ASSUME TypeOK, ReadsInOrder, NEW e \in EntryType, log' = Append(log, e),
         \A p \in Plans : Approval(e, p) => LinesOf(p, "policy_decision", "allow") # {},
         \A p \in Plans :
           Cardinality(OutcomesOf(p)') <= Cardinality(LinesOf(p, "approval", "approve")')
  PROVE  ReadsInOrder'
<1> SUFFICES ASSUME NEW p \in Plans, NEW n \in DOMAIN log'
             PROVE  /\ n \in LinesOf(p, "approval", "approve")' =>
                         \E a \in LinesOf(p, "policy_decision", "allow")' : a < n
                    /\ Cardinality(OutcomesOf(p)' \cap 1 .. n) <=
                         Cardinality(LinesOf(p, "approval", "approve")' \cap 1 .. n)
  BY DEF ReadsInOrder
<1>1. PICK A, O, B1, Q1, m :
        /\ A = LinesOf(p, "approval", "approve") /\ O = OutcomesOf(p)
        /\ B1 = LinesOf(p, "approval", "approve")' /\ Q1 = OutcomesOf(p)'
        /\ m = Len(log) + 1
  OBVIOUS
<1>2. /\ DOMAIN log = 1 .. Len(log) /\ Len(log) \in Nat /\ DOMAIN log' = 1 .. m
  BY <1>1 DEF TypeOK, WorldOK
<1>3. PICK P, P1 : /\ P = LinesOf(p, "policy_decision", "allow")
                   /\ P1 = LinesOf(p, "policy_decision", "allow")'
  OBVIOUS
<1>4. P \subseteq P1 /\ P \subseteq 1 .. Len(log)
  <2>1. PICK event, value : event = "policy_decision" /\ value = "allow"
    OBVIOUS
  <2>2. P = LinesOf(p, event, value) /\ P1 = LinesOf(p, event, value)'
    BY <1>3, <2>1
  <2>3. LinesOf(p, event, value) \subseteq LinesOf(p, event, value)'
    BY LinesOfAppend DEF TypeOK, WorldOK
  <2>4. LinesOf(p, event, value) \subseteq DOMAIN log
    BY DEF LinesOf
  <2> QED BY <1>2, <2>2, <2>3, <2>4
<1>5. /\ A \subseteq 1 .. Len(log) /\ O \subseteq 1 .. Len(log)
      /\ B1 = A \cup (IF Approval(e, p) THEN {m} ELSE {})
      /\ Q1 = O \cup (IF Outcome(e, p) THEN {m} ELSE {})
  BY <1>1, <1>2, OwnTally
<1>6. CASE n = m
  <2>1. B1 \cap 1 .. n = B1 /\ Q1 \cap 1 .. n = Q1
    BY <1>1, <1>2, <1>5, <1>6
  <2>2. Cardinality(Q1) <= Cardinality(B1)
    BY <1>1
  <2>3. n \in B1 => \E a \in P1 : a < n
    <3>1. n \notin A
      BY <1>1, <1>2, <1>5, <1>6
    <3>2. n \in B1 => Approval(e, p)
      BY <1>5, <3>1
    <3>3. ASSUME Approval(e, p)
          PROVE  \E a \in P1 : a < n
      <4>1. PICK a \in P : TRUE
        BY <1>3, <3>3
      <4>2. a \in 1 .. Len(log)
        BY <1>4
      <4> QED BY <1>1, <1>2, <1>4, <1>6, <4>2
    <3> QED BY <3>2, <3>3
  <2> QED BY <1>1, <1>3, <2>1, <2>2, <2>3
<1>7. CASE n # m
  <2>1. n \in DOMAIN log /\ n \in 1 .. Len(log)
    BY <1>1, <1>2, <1>7
  <2>2. m \notin 1 .. n
    BY <1>1, <1>2, <2>1
  <2>3. B1 \cap 1 .. n = A \cap 1 .. n /\ Q1 \cap 1 .. n = O \cap 1 .. n /\ (n \in B1 => n \in A)
    BY <1>5, <1>7, <2>2
  <2>4. /\ n \in A => \E a \in P : a < n
        /\ Cardinality(O \cap 1 .. n) <= Cardinality(A \cap 1 .. n)
    BY <1>1, <1>3, <2>1 DEF ReadsInOrder
  <2> QED BY <1>1, <1>3, <1>4, <2>3, <2>4
<1> QED BY <1>6, <1>7

(* A line leaves a log that reads in order. *)
LEMMA ReadsLine ==
  ASSUME TypeOK, Tracked, Authorising, OutcomesApproved, ReadsInOrder,
         NEW r \in Requests, pc[r] \in Logging, log' = Append(log, Line(r))
  PROVE  ReadsInOrder'
<1>1. PICK e \in EntryType : e = Line(r)
  BY LoggerTyped
<1>2. ASSUME NEW p \in Plans, Approval(e, p)
      PROVE  LinesOf(p, "policy_decision", "allow") # {}
  <2>1. pc[r] = "approved" /\ plan[r] = p
    BY <1>1, <1>2, OwnLine
  <2>2. status[p] \notin {"absent", "denied"}
    BY <2>1 DEF Tracked, TrackedAt, Deciding, Approving
  <2> QED BY <2>2 DEF Authorising
<1>3. ASSUME NEW p \in Plans
      PROVE  Cardinality(OutcomesOf(p)') <= Cardinality(LinesOf(p, "approval", "approve")')
  <2>1. PICK k \in {0, 1} : k = 0
    OBVIOUS
  <2>2. Cardinality(OutcomesOf(p)') + k <= Cardinality(LinesOf(p, "approval", "approve")')
    BY <2>1, OwnOutcome
  <2>3. PICK o, a : /\ o = Cardinality(OutcomesOf(p)')
                    /\ a = Cardinality(LinesOf(p, "approval", "approve")')
    OBVIOUS
  <2>4. o \in Nat
    <3>1. PICK A, O, B1, Q1 :
            /\ A = LinesOf(p, "approval", "approve") /\ O = OutcomesOf(p)
            /\ B1 = LinesOf(p, "approval", "approve")' /\ Q1 = OutcomesOf(p)'
      OBVIOUS
    <3>2. log' = Append(log, e)
      BY <1>1
    <3>3. /\ Cardinality(O) \in Nat
          /\ Cardinality(Q1) = Cardinality(O) + (IF Outcome(e, p) THEN 1 ELSE 0)
      BY <3>1, <3>2, OwnTally
    <3> QED BY <2>3, <3>1, <3>3
  <2>5. o + k <= a
    BY <2>2, <2>3
  <2>6. o <= a
    BY <2>1, <2>4, <2>5
  <2> QED BY <2>3, <2>6
<1>4. log' = Append(log, e)
  BY <1>1
<1> QED BY <1>2, <1>3, <1>4, ReadsWithOneMore

(* Every step leaves a log that reads in order. *)
LEMMA ReadsStep ==
  ASSUME TypeOK, Planned, Tracked, Authorising, OutcomesApproved, ReadsInOrder, [Next]_vars
  PROVE  ReadsInOrder'
<1>1. ASSUME NEW r \in Requests, pc[r] \in Logging, log' = Append(log, Line(r))
      PROVE  ReadsInOrder'
  BY <1>1, ReadsLine
<1>2. CASE log' = log
  <2>1. \A p, event, value : LinesOf(p, event, value)' = LinesOf(p, event, value)
    BY <1>2 DEF LinesOf
  <2>2. \A p : OutcomesOf(p)' = OutcomesOf(p)
    BY <2>1 DEF OutcomesOf
  <2> QED BY <1>2, <2>1, <2>2 DEF ReadsInOrder
<1>3. ASSUME NEW r \in Requests, Wrote(r) \/ Raised(r)
      PROVE  ReadsInOrder'
  BY <1>1, <1>2, <1>3 DEF Wrote, Raised
<1>4. ASSUME NEW r \in Requests, Executed(r) \/ Walked(r)
      PROVE  log' = log
  BY <1>4 DEF Executed, Walked
<1>5. Stayed \/ CrashAndRestart => log' = log
  BY DEF Stayed, CrashAndRestart, Die
<1> QED BY <1>2, <1>3, <1>4, <1>5, Ledger

-----------------------------------------------------------------------------
(***************************************************************************)
(* The trail before a decision.                                            *)
(***************************************************************************)
(* A line that is added is the last, and the others are where they were. *)
LEMMA LineAdded ==
  ASSUME TypeOK, NEW e \in EntryType, log' = Append(log, e)
  PROVE  /\ Len(log) \in Nat /\ DOMAIN log = 1 .. Len(log)
         /\ Len(log') = Len(log) + 1 /\ DOMAIN log' = 1 .. Len(log) + 1
         /\ \A i \in 1 .. Len(log) : log'[i] = log[i]
         /\ log'[Len(log) + 1] = e
BY DEF TypeOK, WorldOK

(* A line that the log has about a plan is still there after another one. *)
LEMMA LinesRemain ==
  ASSUME TypeOK, NEW e \in EntryType, log' = Append(log, e),
         NEW p, NEW event, NEW value, NEW i \in LinesOf(p, event, value)
  PROVE  i \in LinesOf(p, event, value)'
BY LineAdded DEF LinesOf

(* The planner's success begins a trail: none of its validation lines is there yet. *)
LEMMA TrailBegins ==
  ASSUME TypeOK, NEW p, NEW n \in Nat \ {0}, NEW e \in EntryType, log' = Append(log, e),
         log # << >>, log[Len(log)].event = "question_received",
         e.event = "plan_generated", e.value = "success", e.plan = p, e.n = n
  PROVE  EndsInTrail(p, n)'
<1>1. Len(log) \in Nat \ {0}
  BY EmptySeq DEF TypeOK, WorldOK
<1>2. PICK g : g = Len(log) + 1
  OBVIOUS
<1>3. Len(log') = g /\ log'[g] = e /\ log'[g - 1].event = "question_received" /\ g \in 2 .. g
  BY <1>1, <1>2, LineAdded
<1>4. g \in LinesOf(p, "plan_generated", "success")'
  BY <1>1, <1>2, <1>3, LineAdded DEF LinesOf
<1>5. log'[g].n = Len(log') - g + n
  BY <1>2, <1>3, <1>1
<1>6. g + 1 .. Len(log') = {}
  BY <1>1, <1>2, <1>3
<1> QED BY <1>3, <1>4, <1>5, <1>6 DEF EndsInTrail

(* A validation line continues it; the one that is valid ends it. *)
LEMMA TrailContinues ==
  ASSUME TypeOK, NEW p, NEW n \in Nat \ {0}, EndsInTrail(p, n),
         NEW e \in EntryType, log' = Append(log, e),
         e.event = "validation_result", e.plan = p,
         e.value = IF n = 1 THEN "valid" ELSE "invalid"
  PROVE  EndsInTrail(p, n - 1)'
<1>1. PICK g \in 2 .. Len(log) :
        /\ g \in LinesOf(p, "plan_generated", "success")
        /\ log[g - 1].event = "question_received"
        /\ log[g].n = Len(log) - g + n
        /\ \A v \in g + 1 .. Len(log) : v \in LinesOf(p, "validation_result", "invalid")
  BY Zenon, n # 0 DEF EndsInTrail
<1>2. PICK m : m = Len(log) + 1
  OBVIOUS
<1>3. m - 1 \in Nat /\ Len(log') = m /\ log'[m] = e /\ m \in DOMAIN log' /\ g \in 2 .. m /\ g < m
  BY <1>1, <1>2, LineAdded
<1>4. g \in LinesOf(p, "plan_generated", "success")'
  BY <1>1, LinesRemain
<1>5. log'[g] = log[g] /\ log'[g - 1] = log[g - 1]
  BY <1>1, LineAdded
<1>6. log'[g].n = m - g + (n - 1)
  BY <1>1, <1>2, <1>3, <1>5
<1>7. ASSUME NEW v \in g + 1 .. m
      PROVE  v \in LinesOf(p, "validation_result",
                           IF n - 1 = 0 /\ v = m THEN "valid" ELSE "invalid")'
  <2>1. CASE v = m
    BY <1>3, <2>1 DEF LinesOf
  <2>2. CASE v # m
    <3>1. v \in g + 1 .. Len(log)
      BY <1>2, <1>3, <2>2
    <3>2. v \in LinesOf(p, "validation_result", "invalid")'
      BY <1>1, <3>1, LinesRemain
    <3> QED BY <2>2, <3>2
  <2> QED BY <2>1, <2>2
<1> QED BY <1>1, <1>3, <1>4, <1>5, <1>6, <1>7 DEF EndsInTrail

(* The places of a question that the end of the log is told of. *)
TrailPlaces == {"schema", "planned", "validation", "policy"}

(* What the end of the log is for one handler. *)
TrailAt(r) ==
  /\ pc[r] \in {"schema", "planned"} =>
       log # << >> /\ log[Len(log)].event = "question_received"
  /\ pc[r] = "validation" => EndsInTrail(plan[r], todo[r])
  /\ pc[r] = "policy" => EndsInTrail(plan[r], 0)

(* Where the lines of a trail come from, and where the steps without a line go. *)
LEMMA TrailEdges ==
  /\ TrailPlaces \subseteq Running
  /\ \A a, b : << a, b >> \in LogEdges /\ b \in TrailPlaces =>
       \/ a = "question" /\ b = "schema"
       \/ a = "planned" /\ b = "validation"
       \/ a = "validation" /\ b \in {"validation", "policy"}
  /\ \A a, b : << a, b >> \in SilentEdges /\ b \in TrailPlaces => a = "schema" /\ b = "planned"
  /\ "idle" \notin TrailPlaces /\ "run failed" \notin TrailPlaces /\ "guard" \notin TrailPlaces
<1>1. TrailPlaces \subseteq Running
  BY DEF TrailPlaces, Running, Asking
<1>2. \A a, b : << a, b >> \in LogEdges /\ b \in TrailPlaces =>
        \/ a = "question" /\ b = "schema"
        \/ a = "planned" /\ b = "validation"
        \/ a = "validation" /\ b \in {"validation", "policy"}
  BY DEF TrailPlaces, LogEdges
<1>3. \A a, b : << a, b >> \in SilentEdges /\ b \in TrailPlaces => a = "schema" /\ b = "planned"
  BY DEF TrailPlaces, SilentEdges
<1> QED BY <1>1, <1>2, <1>3 DEF TrailPlaces

(* A handler that writes a line of its trail has it after its step. *)
LEMMA TrailWritten ==
  ASSUME TypeOK, TrailFollows, NEW r \in Requests, Wrote(r)
  PROVE  TrailAt(r)'
<1>1. SUFFICES ASSUME pc'[r] \in TrailPlaces
               PROVE  TrailAt(r)'
  BY DEF TrailPlaces, TrailAt
<1>2. /\ pc[r] \in Logging /\ log' = Append(log, Line(r)) /\ plan'[r] = plan[r]
      /\ \/ pc[r] = "question" /\ pc'[r] = "schema"
         \/ pc[r] = "planned" /\ pc'[r] = "validation"
         \/ pc[r] = "validation" /\ pc'[r] \in {"validation", "policy"}
  BY <1>1, TrailEdges DEF Wrote
<1>3. PICK e \in EntryType : e = Line(r)
  BY <1>2, LoggerTyped
<1>4. PICK p, n : p = plan[r] /\ n = todo[r]
  OBVIOUS
<1>5. CASE pc[r] = "question"
  <2>1. e.event = "question_received"
    BY <1>3, <1>5 DEF Line, Entry
  <2>2. Len(log') \in Nat \ {0} /\ log'[Len(log')] = e
    BY <1>2, <1>3, LineAdded
  <2>3. log' # << >>
    BY <2>2
  <2> QED BY <1>2, <1>5, <2>1, <2>2, <2>3 DEF TrailAt
<1>6. CASE pc[r] = "planned"
  <2>1. e.event = "plan_generated" /\ e.value = "success" /\ e.plan = p /\ e.n = n
    BY <1>3, <1>4, <1>6 DEF Line, Entry
  <2>2. n \in Nat \ {0}
    BY <1>4, <1>6, NumbersAreNatural DEF TypeOK, HandlersOK
  <2>3. log # << >> /\ log[Len(log)].event = "question_received"
    BY <1>6 DEF TrailFollows
  <2>4. EndsInTrail(p, n)'
    BY <1>2, <1>3, <2>1, <2>2, <2>3, TrailBegins
  <2>5. p = plan'[r] /\ n = todo'[r]
    BY <1>2, <1>4, <1>6 DEF Wrote
  <2>6. pc'[r] = "validation"
    BY <1>2, <1>6
  <2> QED BY <2>4, <2>5, <2>6 DEF TrailAt, EndsInTrail, LinesOf
<1>7. CASE pc[r] = "validation"
  <2>1. e.event = "validation_result" /\ e.plan = p /\ e.value = IF n = 1 THEN "valid" ELSE "invalid"
    BY <1>3, <1>4, <1>7 DEF Line, Entry
  <2>2. n \in Nat \ {0}
    BY <1>4, <1>7, NumbersAreNatural DEF TypeOK, HandlersOK
  <2>3. EndsInTrail(p, n)
    BY <1>4, <1>7 DEF TrailFollows
  <2>4. EndsInTrail(p, n - 1)'
    BY <1>2, <1>3, <2>1, <2>2, <2>3, TrailContinues
  <2>5. p = plan'[r] /\ n - 1 = todo'[r] /\ pc'[r] = IF n = 1 THEN "policy" ELSE "validation"
    BY <1>2, <1>4, <1>7 DEF Wrote
  <2>6. CASE n = 1
    <3>1. EndsInTrail(p, 0)'
      BY <2>4, <2>6
    <3> QED BY <2>5, <2>6, <3>1 DEF TrailAt, EndsInTrail, LinesOf
  <2>7. CASE n # 1
    BY <2>4, <2>5, <2>7 DEF TrailAt, EndsInTrail, LinesOf
  <2> QED BY <2>6, <2>7
<1> QED BY <1>2, <1>5, <1>6, <1>7

(* What a handler has of its trail it keeps while nothing about it changes. *)
LEMMA TrailUnmoved ==
  ASSUME TrailFollows, NEW r \in Requests, log' = log,
         pc'[r] = pc[r], plan'[r] = plan[r], todo'[r] = todo[r]
  PROVE  TrailAt(r)'
BY DEF TrailFollows, TrailAt, EndsInTrail, LinesOf

(* Every step leaves the end of the log the trail of the handler that asks. *)
LEMMA TrailStep ==
  ASSUME TypeOK, Planned, TrailFollows, [Next]_vars
  PROVE  TrailFollows'
<1> SUFFICES ASSUME NEW q \in Requests
             PROVE  TrailAt(q)'
  BY DEF TrailFollows, TrailAt
<1>a. pc'[q] \notin TrailPlaces => TrailAt(q)'
  BY DEF TrailPlaces, TrailAt
<1>1. ASSUME NEW r \in Requests, pc[r] \in Running, Alone(r), q # r
      PROVE  TrailAt(q)'
  BY <1>1, <1>a, LoneHandler, TrailEdges DEF Alone
<1>2. ASSUME NEW r \in Requests, Wrote(r)
      PROVE  TrailAt(q)'
  <2>1. pc[r] \in Running /\ Alone(r)
    BY <1>2, OwedPlaces DEF Wrote
  <2> QED BY <1>1, <1>2, <2>1, TrailWritten
<1>3. ASSUME NEW r \in Requests, Raised(r) \/ Executed(r)
      PROVE  TrailAt(q)'
  <2>1. pc[r] \in Running /\ Alone(r) /\ pc'[r] \notin TrailPlaces
    BY <1>3, OwedPlaces, TrailEdges DEF Raised, Executed
  <2> QED BY <1>1, <1>a, <2>1
<1>4. ASSUME NEW r \in Requests, Walked(r)
      PROVE  TrailAt(q)'
  <2>1. CASE q # r
    BY <1>4, <2>1, TrailUnmoved DEF Walked, Alone
  <2>2. CASE q = r /\ pc'[r] \in TrailPlaces
    <3>1. pc[r] = "schema" /\ pc'[r] = "planned" /\ log' = log
      BY <1>4, <2>2, TrailEdges DEF Walked
    <3> QED BY <2>2, <3>1 DEF TrailFollows, TrailAt
  <2> QED BY <1>a, <2>1, <2>2
<1>5. CASE Stayed
  BY <1>5, TrailUnmoved DEF Stayed
<1>6. CASE CrashAndRestart
  BY <1>6, <1>a, TrailEdges DEF CrashAndRestart, Die
<1> QED BY <1>2, <1>3, <1>4, <1>5, <1>6, Ledger

(* The lines before line i are a whole trail of p. *)
WholeTrail(p, i) ==
  \E g \in 2 .. i - 2 :
    /\ g \in LinesOf(p, "plan_generated", "success")
    /\ i = g + log[g].n + 1
    /\ log[g - 1].event = "question_received"
    /\ \A v \in g + 1 .. i - 1 :
         v \in LinesOf(p, "validation_result", IF v = i - 1 THEN "valid" ELSE "invalid")

(* The trail is unbroken when it is so before each plan's decision. *)
LEMMA TrailPlanByPlan ==
  TrailIsUnbroken <=>
    \A p, i : i \in DOMAIN log /\ log[i].event = "policy_decision" /\ log[i].plan = p
                => WholeTrail(p, i)
BY Zenon DEF TrailIsUnbroken, WholeTrail

(* A trail that ended with the decision's predecessor is whole before the decision. *)
LEMMA TrailEnds ==
  ASSUME NEW p, Len(log) \in Nat, EndsInTrail(p, 0)
  PROVE  WholeTrail(p, Len(log) + 1)
<1>1. PICK m : m = Len(log)
  OBVIOUS
<1>2. PICK g \in 2 .. m :
        /\ g \in LinesOf(p, "plan_generated", "success")
        /\ log[g - 1].event = "question_received"
        /\ log[g].n = m - g + 0
        /\ g < m
        /\ \A v \in g + 1 .. m :
             v \in LinesOf(p, "validation_result", IF v = m THEN "valid" ELSE "invalid")
  BY <1>1 DEF EndsInTrail
<1>3. g \in 2 .. (m + 1) - 2 /\ m + 1 = g + log[g].n + 1 /\ (m + 1) - 1 = m
  BY <1>1, <1>2
<1>4. \A v \in g + 1 .. (m + 1) - 1 :
        v \in LinesOf(p, "validation_result", IF v = (m + 1) - 1 THEN "valid" ELSE "invalid")
  BY <1>2, <1>3
<1> QED BY <1>1, <1>2, <1>3, <1>4 DEF WholeTrail

(* A whole trail stays so. *)
LEMMA WholeTrailStays ==
  ASSUME TypeOK, NEW e \in EntryType, log' = Append(log, e), NEW p,
         NEW i \in 1 .. Len(log) + 1, WholeTrail(p, i)
  PROVE  WholeTrail(p, i)'
<1>1. PICK g \in 2 .. i - 2 :
        /\ g \in LinesOf(p, "plan_generated", "success")
        /\ i = g + log[g].n + 1
        /\ log[g - 1].event = "question_received"
        /\ \A v \in g + 1 .. i - 1 :
             v \in LinesOf(p, "validation_result", IF v = i - 1 THEN "valid" ELSE "invalid")
  BY DEF WholeTrail
<1>2. Len(log) \in Nat /\ g \in 1 .. Len(log) /\ g - 1 \in 1 .. Len(log)
  BY <1>1, LineAdded
<1>3. log'[g] = log[g] /\ log'[g - 1] = log[g - 1]
  BY <1>2, LineAdded
<1>4. g \in LinesOf(p, "plan_generated", "success")'
  BY <1>1, LinesRemain
<1>5. ASSUME NEW v \in g + 1 .. i - 1
      PROVE  v \in LinesOf(p, "validation_result", IF v = i - 1 THEN "valid" ELSE "invalid")'
  <2>1. PICK value : value = IF v = i - 1 THEN "valid" ELSE "invalid"
    OBVIOUS
  <2>2. v \in LinesOf(p, "validation_result", value)
    BY <1>1, <2>1
  <2>3. v \in LinesOf(p, "validation_result", value)'
    BY <2>2, LinesRemain
  <2> QED BY <2>1, <2>3
<1> QED BY <1>1, <1>3, <1>4, <1>5 DEF WholeTrail

(* A line keeps the trail before each decision whole, one that decides included. *)
LEMMA UnbrokenLine ==
  ASSUME TypeOK, TrailFollows, TrailIsUnbroken,
         NEW r \in Requests, pc[r] \in Logging, log' = Append(log, Line(r))
  PROVE  TrailIsUnbroken'
<1>0. ASSUME NEW p, NEW i, i \in DOMAIN log, log[i].event = "policy_decision", log[i].plan = p
      PROVE  WholeTrail(p, i)
  BY <1>0, TrailPlanByPlan
<1>1. PICK e \in EntryType : e = Line(r)
  BY LoggerTyped
<1>2. PICK n : n = Len(log)
  OBVIOUS
<1>3. /\ log' = Append(log, e) /\ n \in Nat
      /\ DOMAIN log = 1 .. n /\ DOMAIN log' = 1 .. n + 1
      /\ \A i \in 1 .. n : log'[i] = log[i]
      /\ log'[n + 1] = e
  BY <1>1, <1>2, LineAdded
<1>4. ASSUME NEW p, NEW i, i \in DOMAIN log', log'[i].event = "policy_decision",
             log'[i].plan = p
      PROVE  WholeTrail(p, i)'
  <2>1. i \in 1 .. n + 1 /\ i \in 1 .. Len(log) + 1
    BY <1>2, <1>3, <1>4
  <2>2. CASE i # n + 1
    <3>1. i \in DOMAIN log /\ log'[i] = log[i]
      BY <1>3, <2>1, <2>2
    <3>2. WholeTrail(p, i)
      BY <1>0, <1>4, <3>1
    <3> QED BY <1>3, <2>1, <3>2, WholeTrailStays
  <2>3. CASE i = n + 1
    <3>1. e.event = "policy_decision" /\ e.plan = p
      BY <1>3, <1>4, <2>3
    <3>2. pc[r] = "policy"
      BY <1>1, <3>1 DEF Logging, Line, Entry
    <3>3. p = plan[r]
      BY <1>1, <3>1, <3>2 DEF Line, Entry
    <3>4. EndsInTrail(p, 0)
      BY <3>2, <3>3 DEF TrailFollows
    <3>5. WholeTrail(p, Len(log) + 1)
      BY <1>2, <1>3, <3>4, TrailEnds
    <3>6. WholeTrail(p, i)
      BY <1>2, <2>3, <3>5
    <3> QED BY <1>3, <2>1, <3>6, WholeTrailStays
  <2> QED BY <2>2, <2>3
<1>5. (TrailIsUnbroken <=>
         \A p, i : i \in DOMAIN log /\ log[i].event = "policy_decision" /\ log[i].plan = p
                     => WholeTrail(p, i))'
  BY TrailPlanByPlan, PTL
<1> QED BY <1>4, <1>5

(* Every step keeps the trail before each decision whole. *)
LEMMA UnbrokenStep ==
  ASSUME TypeOK, Planned, TrailFollows, TrailIsUnbroken, [Next]_vars
  PROVE  TrailIsUnbroken'
<1>1. CASE log' = log
  BY <1>1 DEF TrailIsUnbroken, LinesOf
<1>2. ASSUME NEW r \in Requests, pc[r] \in Logging, log' = Append(log, Line(r))
      PROVE  TrailIsUnbroken'
  BY <1>2, UnbrokenLine
<1>3. log' = log \/ \E r \in Requests : pc[r] \in Logging /\ log' = Append(log, Line(r))
  <2>1. ASSUME NEW r \in Requests, Wrote(r) \/ Raised(r) \/ Executed(r) \/ Walked(r)
        PROVE  log' = log \/ (pc[r] \in Logging /\ log' = Append(log, Line(r)))
    BY <2>1 DEF Wrote, Raised, Executed, Walked
  <2>2. Stayed \/ CrashAndRestart => log' = log
    BY DEF Stayed, CrashAndRestart
  <2> QED BY <2>1, <2>2, Ledger
<1> QED BY <1>1, <1>2, <1>3

-----------------------------------------------------------------------------
(***************************************************************************)
(* What is shown.                                                          *)
(***************************************************************************)
(* While no append raises, every step keeps what is shown in the log. *)
LEMMA ShownStep ==
  ASSUME TypeOK, Planned, ShownFollows, [Next]_vars
  PROVE  ShownFollows'
<1> DEFINE Shown(p) ==
             \/ LinesOf(p, "execution_digest", "success") # {}
             \/ \E q \in Requests : plan[q] = p /\ pc[q] \in {"guard", "digest"}
<1> SUFFICES ASSUME faults' = 0, NEW p \in Plans, result'[p] # NoLabel
             PROVE  Shown(p)'
  BY DEF ShownFollows, ShownIsLogged
<1>a. faults = 0 /\ result[p] # NoLabel => Shown(p)
  BY DEF ShownFollows, ShownIsLogged
<1>b. faults \in Nat
  BY DEF TypeOK, WorldOK
<1>c. LinesOf(p, "execution_digest", "success") # {} => Shown(p)'
  BY LinesStay
<1>1. ASSUME NEW r \in Requests, Wrote(r)
      PROVE  Shown(p)'
  <2>1. /\ pc[r] \in Logging /\ pc[r] \in Running /\ Alone(r) /\ result' = result
        /\ faults' = faults /\ log' = Append(log, Line(r))
    BY <1>1, OwedPlaces DEF Wrote
  <2>2. ASSUME NEW q \in Requests, plan[q] = p, pc[q] \in {"guard", "digest"}
        PROVE  Shown(p)'
    <3>1. q = r
      BY <2>1, <2>2, LoneHandler, OwedPlaces
    <3>2. CASE pc[r] = "guard"
      BY <1>1, <2>2, <3>1, <3>2, OwedPlaces DEF Wrote, LastLines, LogEdges
    <3>3. CASE pc[r] = "digest"
      <4>1. PICK e \in EntryType : e = Line(r)
        BY <2>1, LoggerTyped
      <4>2. e.event = "execution_digest" /\ e.plan = p /\ e.value = "success"
        BY <2>1, <2>2, <3>1, <3>3, <4>1, DigestLine
      <4>3. Len(log) + 1 \in LinesOf(p, "execution_digest", "success")'
        BY <2>1, <4>1, <4>2, LineAdded DEF LinesOf
      <4> QED BY <4>3
    <3> QED BY <2>2, <3>1, <3>2, <3>3
  <2>3. Shown(p)
    BY <1>a, <2>1
  <2> QED BY <1>c, <2>2, <2>3
<1>2. ASSUME NEW r \in Requests, Raised(r)
      PROVE  FALSE
  BY <1>2, <1>b DEF Raised
<1>3. ASSUME NEW r \in Requests, Executed(r)
      PROVE  Shown(p)'
  <2>1. /\ pc[r] = "run" /\ pc[r] \in Running /\ faults' = faults /\ log' = log
        /\ plan'[r] = plan[r]
    BY <1>3, OwedPlaces DEF Executed
  <2>2. CASE result'[p] = result[p]
    <3>1. \A q \in Requests : pc[q] \notin {"guard", "digest"}
      BY <2>1, LoneHandler, OwedPlaces
    <3>2. Shown(p)
      BY <1>a, <2>1, <2>2
    <3> QED BY <1>c, <3>1, <3>2
  <2>3. CASE result'[p] # result[p]
    <3>1. pc'[r] = "guard" /\ plan[r] = p
      BY <1>3, <2>3 DEF Executed, TypeOK, RecordsOK
    <3> QED BY <2>1, <3>1
  <2> QED BY <2>2, <2>3
<1>4. ASSUME NEW r \in Requests, Walked(r)
      PROVE  Shown(p)'
  <2>1. /\ pc[r] \notin {"guard", "digest"} /\ Alone(r)
        /\ UNCHANGED << log, result, faults >>
    BY <1>4, OwedPlaces DEF Walked
  <2>2. ASSUME NEW q \in Requests, plan[q] = p, pc[q] \in {"guard", "digest"}
        PROVE  Shown(p)'
    <3>1. plan'[q] = p /\ pc'[q] \in {"guard", "digest"}
      BY <2>1, <2>2 DEF Alone
    <3> QED BY <3>1
  <2>3. Shown(p)
    BY <1>a, <2>1
  <2> QED BY <1>c, <2>2, <2>3
<1>5. CASE Stayed
  <2>1. UNCHANGED << pc, plan, log, result, faults >>
    BY <1>5 DEF Stayed
  <2> QED BY <1>a, <2>1 DEF LinesOf
<1>6. ~CrashAndRestart
  BY DEF CrashAndRestart, Die
<1> QED BY <1>1, <1>2, <1>3, <1>4, <1>5, <1>6, Ledger

-----------------------------------------------------------------------------
(***************************************************************************)
(* Runs and budgets.                                                       *)
(***************************************************************************)
(* A plan's queries, tagged with its run or its handler, are as many as it has. *)
LEMMA TaggedCount ==
  ASSUME NEW steps \in Programs, NEW tag
  PROVE  /\ IsFiniteSet({tag} \X QuerySteps(steps))
         /\ Cardinality({tag} \X QuerySteps(steps)) = NQueries(steps)
         /\ NQueries(steps) \in Nat
<1>1. PICK Q, T : Q = QuerySteps(steps) /\ T = {tag}
  OBVIOUS
<1>2. IsFiniteSet(Q) /\ IsFiniteSet(T) /\ Cardinality(T) = 1
  BY <1>1, NQueriesNat, FS_Singleton
<1>3. IsFiniteSet(T \X Q) /\ Cardinality(T \X Q) = Cardinality(T) * Cardinality(Q)
  BY <1>2, FS_Product
<1>4. Cardinality(Q) = NQueries(steps) /\ NQueries(steps) \in Nat
  BY <1>1, NQueriesNat DEF NQueries
<1> QED BY <1>1, <1>2, <1>3, <1>4

(* Two finite sets with nothing in common count together. *)
LEMMA DisjointCount ==
  ASSUME NEW S, IsFiniteSet(S), NEW T, IsFiniteSet(T), S \cap T = {}
  PROVE  Cardinality(S \cup T) = Cardinality(S) + Cardinality(T)
<1>1. Cardinality(S) \in Nat /\ Cardinality(T) \in Nat /\ Cardinality({}) = 0
  BY FS_CardinalityType, FS_EmptySet
<1>2. Cardinality(S \cup T) = Cardinality(S) + Cardinality(T) - Cardinality(S \cap T)
  BY FS_Union
<1>3. Cardinality(S \cap T) = 0
  BY <1>1
<1> QED BY <1>1, <1>2, <1>3

(* The plans that ran in this life have their programs. *)
LEMMA ChargedPlanned ==
  ASSUME TypeOK, Planned, NothingAhead, NEW s, NEW i \in ChargedRuns(s)
  PROVE  /\ i \in DOMAIN runs /\ runs[i].plan \in Plans
         /\ status[runs[i].plan] # "absent"
         /\ program[runs[i].plan] \in Programs
<1>1. i \in DOMAIN runs /\ runs[i].life = life /\ runs[i] \in RunType
  BY DEF ChargedRuns, TypeOK, WorldOK
<1>2. runs[i].plan \in Plans /\ status[runs[i].plan] # "absent"
  BY <1>1 DEF NothingAhead, RunType
<1> QED BY <1>1, <1>2 DEF Planned

(* The queries that a session has spent are finitely many, and none is of the next run. *)
LEMMA SpentFinite ==
  ASSUME TypeOK, Planned, NothingAhead, NEW s
  PROVE  /\ IsFiniteSet(Spent(s))
         /\ \A x \in Spent(s) : x[1] # Len(runs) + 1
<1> DEFINE C == ChargedRuns(s)
           f == [i \in C |-> {i} \X QuerySteps(program[runs[i].plan])]
           T == { f[i] : i \in C }
<1>1. IsFiniteSet(C) /\ Len(runs) + 1 \notin C
  BY PositionsFinite, FS_Subset DEF ChargedRuns
<1>2. f \in Surjection(C, T)
  BY DEF Surjection
<1>3. IsFiniteSet(T)
  BY <1>1, <1>2, FS_Surjection
<1>4. \A t \in T : IsFiniteSet(t)
  <2> SUFFICES ASSUME NEW i \in C
               PROVE  IsFiniteSet(f[i])
    OBVIOUS
  <2>1. program[runs[i].plan] \in Programs
    BY ChargedPlanned
  <2> QED BY <2>1, TaggedCount
<1>5. T = { {i} \X QuerySteps(program[runs[i].plan]) : i \in ChargedRuns(s) }
  OBVIOUS
<1>6. Spent(s) = UNION T
  BY <1>5, Zenon DEF Spent
<1>7. IsFiniteSet(Spent(s))
  BY <1>3, <1>4, <1>6, FS_UNION
<1>8. \A x \in Spent(s) : x[1] \in C
  BY <1>6
<1> QED BY <1>1, <1>7, <1>8

(* Only the handler that has the loop can have queries reserved. *)
LEMMA ReservedByTheOne ==
  TypeOK =>
    /\ \A r \in Requests : \A t :
         pc[r] \in Running =>
           Reserved(t) = IF pc[r] = "run" /\ sid[r] = t
                         THEN {r} \X QuerySteps(program[plan[r]]) ELSE {}
    /\ busy = NoOne => \A t : Reserved(t) = {}
<1> SUFFICES ASSUME TypeOK
             PROVE  /\ \A r \in Requests : \A t :
                         pc[r] \in Running =>
                           Reserved(t) = IF pc[r] = "run" /\ sid[r] = t
                                         THEN {r} \X QuerySteps(program[plan[r]]) ELSE {}
                    /\ busy = NoOne => \A t : Reserved(t) = {}
  OBVIOUS
<1>a. "run" \in Running
  BY OwedPlaces
<1>1. ASSUME NEW r \in Requests, NEW s, pc[r] \in Running
      PROVE  Reserved(s) = IF pc[r] = "run" /\ sid[r] = s
                           THEN {r} \X QuerySteps(program[plan[r]]) ELSE {}
  <2>1. \A q \in Requests : pc[q] = "run" => q = r
    BY <1>a, <1>1, LoneHandler
  <2>2. CASE pc[r] = "run" /\ sid[r] = s
    <3>1. { q \in Requests : pc[q] = "run" /\ sid[q] = s } = {r}
      BY <2>1, <2>2
    <3> QED BY <2>2, <3>1 DEF Reserved
  <2>3. CASE ~(pc[r] = "run" /\ sid[r] = s)
    <3>1. { q \in Requests : pc[q] = "run" /\ sid[q] = s } = {}
      BY <2>1, <2>3
    <3> QED BY <2>3, <3>1 DEF Reserved
  <2> QED BY <2>2, <2>3
<1>2. ASSUME busy = NoOne, NEW s
      PROVE  Reserved(s) = {}
  <2>1. \A q \in Requests : pc[q] # "run"
    BY <1>2, <1>a, NamesAreReal DEF TypeOK, HandlersOK
  <2> QED BY <2>1 DEF Reserved
<1> QED BY <1>1, <1>2

(* Nothing is charged or run, and a handler about to run stays so. *)
Unspent ==
  /\ \A q \in Requests :
       /\ pc'[q] = "run" <=> pc[q] = "run"
       /\ pc[q] = "run" => plan'[q] = plan[q] /\ sid'[q] = sid[q]
  /\ UNCHANGED << program, used, runs, life >>

(* Only a plan that arrives, a charge, a run and a crash are not like that. *)
LEMMA UnspentSteps ==
  ASSUME TypeOK, [Next]_vars
  PROVE  \/ Unspent
         \/ \E r \in Requests : AskPlanned(r) \/ Charge(r) \/ RunSucceeds(r) \/ RunFails(r)
         \/ CrashAndRestart
<1>a. HandlersOK
  BY DEF TypeOK
<1>b. ASSUME NEW r \in Requests, NEW to, Return(r) \/ (Goto(r, to) /\ to # "run"), pc[r] # "run"
      PROVE  \A q \in Requests :
               /\ pc'[q] = "run" <=> pc[q] = "run"
               /\ pc[q] = "run" => plan'[q] = plan[q] /\ sid'[q] = sid[q]
  BY <1>a, <1>b DEF HandlersOK, Return, Goto
<1>c. ASSUME NEW r \in Requests, NEW from, from # "run", NEW to, to # "run",
             LogsBetween(r, from, to)
      PROVE  Unspent
  BY <1>b, <1>c DEF LogsBetween, At, Unspent, records
<1>d. ASSUME NEW r \in Requests, NEW from, from # "run", LogsLast(r, from)
      PROVE  Unspent
  BY <1>b, <1>d DEF LogsLast, At, Unspent, records
<1>1. ASSUME NEW r \in Requests, Ask(r), ~AskPlanned(r)
      PROVE  Unspent
  <2>1. CASE LogQuestion(r) \/ LogNoPlan(r) \/ LogPlanned(r)
    <3>1. "question" # "run" /\ "schema" # "run" /\ "no plan" # "run"
          /\ "planned" # "run" /\ "validation" # "run"
      OBVIOUS
    <3> QED BY <1>c, <1>d, <2>1, <3>1 DEF LogQuestion, LogNoPlan, LogPlanned
  <2>2. CASE AskNoSchema(r)
    <3>1. pc[r] # "run" /\ Return(r) /\ UNCHANGED << program, used, runs, life >>
      BY <2>2 DEF AskNoSchema, At, records, ghosts
    <3> QED BY <1>b, <3>1 DEF Unspent
  <2>3. CASE AskNoPlan(r)
    <3>1. PICK to : to = "no plan"
      OBVIOUS
    <3>2. pc[r] # "run" /\ Goto(r, to) /\ to # "run" /\ UNCHANGED << program, used, runs, life >>
      BY <2>3, <3>1 DEF AskNoPlan, At, records, ghosts
    <3> QED BY <1>b, <3>2 DEF Unspent
  <2>4. CASE LogValidation(r)
    <3>1. PICK to : to = IF todo[r] = 1 THEN "policy" ELSE "validation"
      OBVIOUS
    <3>2. to # "run" /\ (Goto(r, to) \/ Return(r))
      BY <2>4, <3>1 DEF LogValidation
    <3> QED BY <1>b, <2>4, <3>2 DEF LogValidation, At, Unspent, records
  <2>5. CASE LogPolicy(r)
    BY <1>b, <2>5 DEF LogPolicy, At, Unspent
  <2> QED BY <1>1, <2>1, <2>2, <2>3, <2>4, <2>5 DEF Ask
<1>2. ASSUME NEW r \in Requests, Approve(r) \/ LogReject(r),
             ~Charge(r), ~RunSucceeds(r), ~RunFails(r)
      PROVE  Unspent
  <2>1. CASE \/ LogOverBudget(r) \/ LogRunFailed(r) \/ LogGuard(r)
             \/ LogDigest(r) \/ LogReject(r)
    <3>1. "over budget" # "run" /\ "run failed" # "run" /\ "guard" # "run"
          /\ "digest" # "run" /\ "rejected" # "run"
      OBVIOUS
    <3> QED BY <1>c, <1>d, <2>1, <3>1
            DEF LogOverBudget, LogRunFailed, LogGuard, LogDigest, LogReject
  <2>2. CASE LogApproval(r)
    <3>1. "charge" # "run"
      OBVIOUS
    <3> QED BY <1>b, <2>2, <3>1 DEF LogApproval, At, Unspent
  <2> QED BY <1>2, <2>1, <2>2 DEF Approve
<1>3. ASSUME NEW r \in Requests, Client(r)
      PROVE  Unspent
  <2>1. CASE FormLost(r)
    BY <2>1, <1>b DEF FormLost, Unspent, records, ghosts
  <2>2. CASE AskEmpty(r) \/ \E p \in Plans : Refuse(r, p)
    BY <2>2 DEF AskEmpty, Refuse, vars, Unspent
  <2>3. CASE \/ \E p \in Plans : AskReceived(r, p) \/ ApproveArrives(r, p) \/ RejectArrives(r, p)
             \/ ApproveResumes(r) \/ RejectResumes(r)
    <3>1. UNCHANGED << program, used, runs, life >>
      BY <2>3 DEF AskReceived, ApproveArrives, RejectArrives, Arrives, ApproveResumes,
                  RejectResumes, records, ghosts
    <3>2. /\ pc[r] # "run" /\ pc'[r] # "run"
          /\ \A q \in Requests \ {r} : pc'[q] = pc[q] /\ plan'[q] = plan[q] /\ sid'[q] = sid[q]
      BY <1>a, <2>3 DEF AskReceived, ApproveArrives, RejectArrives, Arrives, ApproveResumes,
                  RejectResumes, HandlersOK
    <3> QED BY <3>1, <3>2 DEF Unspent
  <2> QED BY <1>3, <2>1, <2>2, <2>3 DEF Client
<1>4. CASE UNCHANGED vars
  BY <1>4 DEF vars, Unspent
<1>5. CASE Relabel
  BY <1>5 DEF Relabel, records, handlers, Unspent
<1> QED BY <1>1, <1>2, <1>3, <1>4, <1>5 DEF Next, Continue

(* What a step that runs nothing, and leaves what has run its programs, leaves of it. *)
LEMMA SpentStays ==
  ASSUME NEW s, UNCHANGED << runs, life >>,
         \A i \in ChargedRuns(s) : program'[runs[i].plan] = program[runs[i].plan]
  PROVE  Spent(s)' = Spent(s)
<1>1. ChargedRuns(s)' = ChargedRuns(s)
  BY DEF ChargedRuns
<1>2. \A i \in ChargedRuns(s) :
        {i} \X QuerySteps(program'[runs'[i].plan]) = {i} \X QuerySteps(program[runs[i].plan])
  OBVIOUS
<1>3. { {i} \X QuerySteps(program'[runs'[i].plan]) : i \in ChargedRuns(s)' }
        = { {i} \X QuerySteps(program[runs[i].plan]) : i \in ChargedRuns(s) }
  BY <1>1, <1>2
<1>4. Spent(s)' = UNION { {i} \X QuerySteps(program'[runs'[i].plan]) : i \in ChargedRuns(s)' }
  BY DEF Spent, QuerySteps
<1> QED BY <1>3, <1>4 DEF Spent

(* A run adds its queries to what its session has spent. *)
LEMMA SpentGrows ==
  ASSUME TypeOK, Planned, NothingAhead, NEW s, NEW run, runs' = Append(runs, run),
         run.life = life, program[run.plan] \in Programs, UNCHANGED << program, life >>
  PROVE  IF run.session = s
         THEN Cardinality(Spent(s)') = Cardinality(Spent(s)) + NQueries(program[run.plan])
         ELSE Spent(s)' = Spent(s)
<1>1. PICK n, D : n = Len(runs) + 1 /\ D = DOMAIN runs
  OBVIOUS
<1>2. /\ DOMAIN runs' = D \cup {n} /\ runs'[n] = run /\ n \notin D
      /\ \A i \in D : runs'[i] = runs[i]
  BY <1>1, PositionsFinite DEF TypeOK, WorldOK
<1>3. Spent(s)' = UNION { {i} \X QuerySteps(program'[runs'[i].plan]) : i \in ChargedRuns(s)' }
  BY DEF Spent, QuerySteps
<1>4. \A i \in ChargedRuns(s) : i \in D
  BY <1>1 DEF ChargedRuns
<1>5. CASE run.session = s
  <2>1. ChargedRuns(s)' = ChargedRuns(s) \cup {n}
    BY <1>1, <1>2, <1>5 DEF ChargedRuns
  <2>2. PICK T : T = {n} \X QuerySteps(program[run.plan])
    OBVIOUS
  <2>3. Spent(s)' = Spent(s) \cup T
    BY <1>2, <1>3, <1>4, <2>1, <2>2 DEF Spent
  <2>4. IsFiniteSet(T) /\ Cardinality(T) = NQueries(program[run.plan])
    BY <2>2, TaggedCount
  <2>5. IsFiniteSet(Spent(s)) /\ Spent(s) \cap T = {}
    <3>1. IsFiniteSet(Spent(s)) /\ \A x \in Spent(s) : x[1] # n
      BY <1>1, SpentFinite
    <3>2. \A x \in T : x[1] = n
      BY <2>2
    <3> QED BY <3>1, <3>2
  <2> QED BY <1>5, <2>3, <2>4, <2>5, DisjointCount
<1>6. CASE run.session # s
  <2>1. ChargedRuns(s)' = ChargedRuns(s)
    BY <1>1, <1>2, <1>6 DEF ChargedRuns
  <2>2. \A i \in ChargedRuns(s) :
          {i} \X QuerySteps(program'[runs'[i].plan]) = {i} \X QuerySteps(program[runs[i].plan])
    BY <1>2, <1>4
  <2>3. { {i} \X QuerySteps(program'[runs'[i].plan]) : i \in ChargedRuns(s)' }
          = { {i} \X QuerySteps(program[runs[i].plan]) : i \in ChargedRuns(s) }
    BY <2>1, <2>2
  <2>4. Spent(s)' = Spent(s)
    BY <1>3, <2>3 DEF Spent
  <2> QED BY <1>6, <2>4
<1> QED BY <1>5, <1>6

(* Every step keeps each session's count at what it ran and is about to run. *)
LEMMA BudgetStep ==
  ASSUME TypeOK, Planned, Tracked, NothingAhead, BudgetIsExact, [Next]_vars, TypeOK'
  PROVE  BudgetIsExact'
<1>0. \A s \in Sessions : used'[s] <= Limit'
  BY LimitPositive DEF TypeOK, WorldOK, Limit
<1>1. ASSUME NEW s \in Sessions
      PROVE  used'[s] = Cardinality(Spent(s)') + Cardinality(Reserved(s)')
  <2>1. PICK u, v, w, x, y, z :
          /\ u = used[s] /\ v = Cardinality(Spent(s)) /\ w = Cardinality(Reserved(s))
          /\ x = used'[s] /\ y = Cardinality(Spent(s)') /\ z = Cardinality(Reserved(s)')
    OBVIOUS
  <2> SUFFICES x = y + z
    BY <2>1
  <2>a. u = v + w /\ u \in Nat /\ v \in Nat
    BY <2>1, LimitPositive, SpentFinite, FS_CardinalityType DEF BudgetIsExact, TypeOK, WorldOK, Limit
  <2>b. Cardinality({}) = 0
    BY FS_EmptySet
  <2>c. (TypeOK =>
          /\ \A r \in Requests : \A t :
               pc[r] \in Running =>
                 Reserved(t) = IF pc[r] = "run" /\ sid[r] = t
                               THEN {r} \X QuerySteps(program[plan[r]]) ELSE {}
          /\ busy = NoOne => \A t : Reserved(t) = {})'
    BY ReservedByTheOne, PTL
  <2>d. ASSUME NEW r \in Requests, pc[r] \in Running, pc'[r] \in Running
        PROVE  /\ Reserved(s) = IF pc[r] = "run" /\ sid[r] = s
                                THEN {r} \X QuerySteps(program[plan[r]]) ELSE {}
               /\ Reserved(s)' = IF pc'[r] = "run" /\ sid'[r] = s
                                 THEN {r} \X QuerySteps(program'[plan'[r]]) ELSE {}
    BY <2>c, <2>d, ReservedByTheOne
  <2>2. CASE Unspent
    <3>1. x = u
      BY <2>1, <2>2 DEF Unspent
    <3>2. Spent(s)' = Spent(s)
      BY <2>2, SpentStays DEF Unspent
    <3>3. Reserved(s)' = Reserved(s)
      BY <2>2 DEF Unspent, Reserved, QuerySteps
    <3> QED BY <2>1, <2>a, <3>1, <3>2, <3>3
  <2>3. ASSUME NEW r \in Requests, AskPlanned(r)
        PROVE  x = y + z
    <3>1. /\ pc[r] = "schema" /\ pc'[r] = "planned" /\ UNCHANGED << used, runs, life >>
          /\ \A p \in Plans : p # plan[r] => program'[p] = program[p]
      BY <2>3 DEF AskPlanned, At, Goto, TypeOK, RecordsOK, HandlersOK
    <3>2. status[plan[r]] = "absent"
      BY <3>1 DEF Tracked, TrackedAt, Asking
    <3>3. \A i \in ChargedRuns(s) : program'[runs[i].plan] = program[runs[i].plan]
      BY <3>1, <3>2, ChargedPlanned
    <3>4. Spent(s)' = Spent(s)
      BY <3>1, <3>3, SpentStays
    <3>5. pc[r] \in Running /\ pc'[r] \in Running
      BY <3>1 DEF Running, Asking
    <3>6. Reserved(s) = {} /\ Reserved(s)' = {}
      BY <2>d, <3>1, <3>5
    <3> QED BY <2>1, <2>a, <2>b, <3>1, <3>4, <3>6
  <2>4. ASSUME NEW r \in Requests, Charge(r)
        PROVE  x = y + z
    <3>1. /\ pc[r] = "charge" /\ UNCHANGED << program, runs, life >> /\ plan'[r] = plan[r]
          /\ sid'[r] = sid[r] /\ sid[r] \in Sessions
          /\ used' = [used EXCEPT ![sid[r]] = ChargeOf(r).used]
          /\ IF ChargeOf(r).ok THEN pc'[r] = "run" ELSE pc'[r] = "over budget"
      BY <2>4 DEF Charge, At, Goto, ghosts, TypeOK, HandlersOK, Approving
    <3>2. Spent(s)' = Spent(s)
      BY <3>1, SpentStays
    <3>3. pc[r] \in Running /\ pc'[r] \in Running
      BY <3>1 DEF Running, Approving
    <3>4. /\ Reserved(s) = {}
          /\ Reserved(s)' = IF ChargeOf(r).ok /\ sid[r] = s
                            THEN {r} \X QuerySteps(program[plan[r]]) ELSE {}
      BY <2>d, <3>1, <3>3
    <3>5. PICK n : n = NQueries(program[plan[r]])
      OBVIOUS
    <3>6. program[plan[r]] \in Programs
      BY <3>1 DEF Planned
    <3>7. Cardinality({r} \X QuerySteps(program[plan[r]])) = n /\ n \in Nat
      BY <3>5, <3>6, TaggedCount
    <3>8. IF ChargeOf(r).ok THEN ChargeOf(r).used = used[sid[r]] + n
                            ELSE ChargeOf(r).used = used[sid[r]]
      BY <3>5 DEF ChargeOf, Consume
    <3>9. IF ChargeOf(r).ok /\ sid[r] = s THEN x = u + n ELSE x = u
      BY <2>1, <3>1, <3>8 DEF TypeOK, WorldOK
    <3>10. IF ChargeOf(r).ok /\ sid[r] = s THEN z = n ELSE z = 0
      BY <2>1, <2>b, <3>4, <3>7
    <3>11. y = v /\ w = 0
      BY <2>1, <2>b, <3>2, <3>4
    <3> QED BY <2>a, <3>7, <3>9, <3>10, <3>11
  <2>5. ASSUME NEW r \in Requests, RunSucceeds(r) \/ RunFails(r)
        PROVE  x = y + z
    <3>1. PICK run : /\ runs' = Append(runs, run) /\ run.life = life
                     /\ run.session = sid[r] /\ run.plan = plan[r]
      <4>1. ASSUME NEW l, runs' = Append(runs, RunOf(r, l))
            PROVE  \E run : /\ runs' = Append(runs, run) /\ run.life = life
                            /\ run.session = sid[r] /\ run.plan = plan[r]
        <5>1. PICK run : run = RunOf(r, l)
          OBVIOUS
        <5>2. run.life = life /\ run.session = sid[r] /\ run.plan = plan[r]
          BY <5>1 DEF RunOf
        <5> QED BY <4>1, <5>1, <5>2
      <4> QED BY <2>5, <4>1 DEF RunSucceeds, RunFails
    <3>2. pc[r] = "run" /\ pc'[r] # "run" /\ UNCHANGED << program, used, life >>
      BY <2>5 DEF RunSucceeds, RunFails, At, Goto, ghosts, TypeOK, HandlersOK
    <3>3. pc[r] \in Running /\ pc'[r] \in Running
      BY <2>5 DEF RunSucceeds, RunFails, At, Goto, TypeOK, HandlersOK, Running, Approving
    <3>4. program[plan[r]] \in Programs
      BY <3>2 DEF Planned
    <3>5. PICK n : n = NQueries(program[plan[r]])
      OBVIOUS
    <3>6. /\ Reserved(s) = IF sid[r] = s THEN {r} \X QuerySteps(program[plan[r]]) ELSE {}
          /\ Reserved(s)' = {}
      BY <2>d, <3>2, <3>3
    <3>7. Cardinality({r} \X QuerySteps(program[plan[r]])) = n /\ n \in Nat
      BY <3>4, <3>5, TaggedCount
    <3>8. IF sid[r] = s THEN y = v + n ELSE y = v
      BY <2>1, <3>1, <3>2, <3>4, <3>5, SpentGrows
    <3>9. IF sid[r] = s THEN w = n ELSE w = 0
      BY <2>1, <2>b, <3>6, <3>7
    <3>10. z = 0 /\ x = u
      BY <2>1, <2>b, <3>2, <3>6
    <3> QED BY <2>a, <3>7, <3>8, <3>9, <3>10
  <2>6. CASE CrashAndRestart
    <3>1. life' = life + 1 /\ runs' = runs /\ busy' = NoOne /\ used'[s] = 0 /\ life \in Nat
      BY <2>6 DEF CrashAndRestart, Die, TypeOK, WorldOK
    <3>2. \A i \in DOMAIN runs : runs[i].life \in Nat /\ runs[i].life <= life
      <4>1. \A i \in DOMAIN runs : runs[i] \in RunType
        BY DEF TypeOK, WorldOK
      <4> QED BY <4>1 DEF NothingAhead, RunType
    <3>3. ChargedRuns(s)' = {}
      BY <3>1, <3>2 DEF ChargedRuns
    <3>4. Spent(s)' = {}
      BY <3>3 DEF Spent
    <3>5. Reserved(s)' = {}
      BY <2>c, <3>1
    <3> QED BY <2>1, <2>b, <3>1, <3>4, <3>5
  <2> QED BY <2>2, <2>3, <2>4, <2>5, <2>6, UnspentSteps
<1> QED BY <1>0, <1>1 DEF BudgetIsExact

-----------------------------------------------------------------------------
(***************************************************************************)
(* The invariant, and what follows from it.                                *)
(***************************************************************************)
(* The system starts with an empty ledger. *)
LEMMA LedgerInit ==
  Init => LedgerInv
<1> SUFFICES ASSUME Init
             PROVE  LedgerInv
  OBVIOUS
<1>1. IndInv
  BY InvInit, RefinementInit DEF IndInv
<1>a. DOMAIN << >> = {}
  OBVIOUS
<1>2. /\ DOMAIN log = {} /\ DOMAIN runs = {} /\ faults = 0 /\ life = 1 /\ relabels = 0
      /\ \A r \in Requests : pc[r] = "idle"
      /\ \A p \in Plans : status[p] = "absent" /\ result[p] = NoLabel /\ asked[p] = 0
      /\ \A s \in Sessions : used[s] = 0
  BY <1>a DEF Init
<1>3. RecordsAreLogged /\ DecidedWhenAsked /\ NothingAhead /\ ClearedUnlessRelabelled
  BY <1>2 DEF RecordsAreLogged, DecidedWhenAsked, NothingAhead, ClearedUnlessRelabelled
<1>4. Cardinality({}) = 0
  BY FS_EmptySet
<1>5. DigestsFollow
  <2>1. \A p, event, value : LinesOf(p, event, value) = {}
    BY <1>2 DEF LinesOf
  <2>2. \A p : Successes(p) = {} /\ Failures(p) = {}
    BY <1>2 DEF Successes, Failures, RunsOf
  <2>3. ASSUME NEW p, NEW places, "idle" \notin places
        PROVE  Pending(p, places) = 0
    BY <1>2, <2>3 DEF Pending
  <2>4. \A p : Pending(p, {"guard", "digest"}) = 0
    BY <2>3
  <2>5. \A p : Pending(p, {"run failed"}) = 0
    BY <2>3
  <2>6. ASSUME NEW p
        PROVE  /\ Cardinality(LinesOf(p, "execution_digest", "success"))
                     + Pending(p, {"guard", "digest"}) = 0
               /\ Cardinality(LinesOf(p, "execution_digest", "failure"))
                     + Pending(p, {"run failed"}) = 0
               /\ Cardinality(Successes(p)) = 0 /\ Cardinality(Failures(p)) = 0
    <3>1. PICK i, j : i = Pending(p, {"guard", "digest"}) /\ j = Pending(p, {"run failed"})
      OBVIOUS
    <3>2. i = 0 /\ j = 0
      BY <2>4, <2>5, <3>1, Zenon
    <3>3. /\ Cardinality(LinesOf(p, "execution_digest", "success")) + i = 0
          /\ Cardinality(LinesOf(p, "execution_digest", "failure")) + j = 0
      BY <1>4, <2>1, <3>2
    <3>4. Cardinality(Successes(p)) = 0 /\ Cardinality(Failures(p)) = 0
      BY <1>4, <2>2
    <3> QED BY <3>1, <3>3, <3>4, Zenon
  <2>7. \A n, m : n = 0 /\ m = 0 => n <= m
    OBVIOUS
  <2> QED BY <2>6, <2>7, Zenon DEF DigestsFollow
<1>6. OutcomesFollow
  <2>1. ApprovalLines = {} /\ OutcomeLines = {}
    BY <1>2 DEF ApprovalLines, OutcomeLines
  <2>2. ~\E r \in Requests : pc[r] \in Owing
    BY <1>2, OwingPlaces
  <2> QED BY <1>2, <1>4, <2>1, <2>2 DEF OutcomesFollow, Owing
<1>7. TrailFollows
  BY <1>2 DEF TrailFollows
<1>8. TrailIsUnbroken /\ ShownFollows
  BY <1>2 DEF TrailIsUnbroken, ShownFollows, ShownIsLogged
<1>9. BudgetIsExact
  <2>1. \A s : ChargedRuns(s) = {}
    BY <1>2 DEF ChargedRuns
  <2>2. ASSUME NEW s
        PROVE  Spent(s) = {} /\ Reserved(s) = {}
    <3>1. \A q \in Requests : pc[q] # "run"
      BY <1>2
    <3>2. Spent(s) = {}
      BY <2>1 DEF Spent
    <3>3. Reserved(s) = {}
      BY <3>1 DEF Reserved
    <3> QED BY <3>2, <3>3
  <2>3. ASSUME NEW s \in Sessions
        PROVE  used[s] <= Limit /\ used[s] = Cardinality(Spent(s)) + Cardinality(Reserved(s))
    <3>1. Cardinality(Spent(s)) = 0 /\ Cardinality(Reserved(s)) = 0
      BY <1>4, <2>2, Zenon
    <3> QED BY <1>2, <3>1, LimitPositive DEF Limit
  <2> QED BY <2>3 DEF BudgetIsExact
<1>10. OutcomesApproved
  <2>1. PICK Late : Late = Owing
    OBVIOUS
  <2>2. ASSUME NEW p \in Plans
        PROVE  LinesOf(p, "approval", "approve") = {} /\ OutcomesOf(p) = {} /\ Pending(p, Late) = 0
    <3>1. \A event, value : LinesOf(p, event, value) = {}
      BY <1>2 DEF LinesOf
    <3>2. Pending(p, Late) = 0
      BY <1>2, <2>1, OwingPlaces DEF Pending
    <3> QED BY <3>1, <3>2 DEF OutcomesOf
  <2>3. ASSUME NEW p \in Plans
        PROVE  Cardinality(OutcomesOf(p)) + Pending(p, Late)
                 <= Cardinality(LinesOf(p, "approval", "approve"))
    <3>1. PICK i : i = Pending(p, Late)
      OBVIOUS
    <3>2. /\ i = 0
          /\ Cardinality(OutcomesOf(p)) = 0 /\ Cardinality(LinesOf(p, "approval", "approve")) = 0
      BY <1>4, <2>2, <3>1, Zenon
    <3>3. Cardinality(OutcomesOf(p)) + i <= Cardinality(LinesOf(p, "approval", "approve"))
      BY <3>2
    <3> QED BY <3>1, <3>3, Zenon
  <2> QED BY <2>1, <2>3 DEF OutcomesApproved, Owing
<1>11. ReadsInOrder
  BY <1>2 DEF ReadsInOrder
<1> QED BY <1>1, <1>3, <1>5, <1>6, <1>7, <1>8, <1>9, <1>10, <1>11 DEF LedgerInv

(* Every step keeps the ledger. *)
LEMMA LedgerStep ==
  LedgerInv /\ IndInv' /\ [Next]_vars => LedgerInv'
<1> SUFFICES ASSUME LedgerInv, IndInv', [Next]_vars
             PROVE  LedgerInv'
  OBVIOUS
<1>1. TypeOK /\ Planned /\ Tracked /\ DenyIsFinal
  BY DEF LedgerInv, IndInv, SafetyInv
<1>2. TypeOK'
  BY DEF IndInv, SafetyInv
<1>3. RecordsAreLogged'
  BY RecordsStep DEF LedgerInv
<1>4. DecidedWhenAsked' /\ NothingAhead' /\ ClearedUnlessRelabelled'
  BY <1>1, DecidedStep, NothingAheadStep, ClearedStep DEF LedgerInv
<1>5. DigestsFollow' /\ OutcomesFollow'
  BY <1>1, DigestsStep, OutcomesStep DEF LedgerInv
<1>10. OutcomesApproved' /\ ReadsInOrder'
  BY <1>1, OutcomesApprovedStep, ReadsStep DEF LedgerInv, IndInv, SafetyInv
<1>6. TrailFollows'
  BY <1>1, TrailStep DEF LedgerInv
<1>7. TrailIsUnbroken'
  BY <1>1, UnbrokenStep DEF LedgerInv
<1>8. ShownFollows'
  BY <1>1, ShownStep DEF LedgerInv
<1>9. BudgetIsExact'
  BY <1>1, <1>2, BudgetStep DEF LedgerInv
<1> QED BY <1>3, <1>4, <1>5, <1>6, <1>7, <1>8, <1>9, <1>10 DEF LedgerInv

(***************************************************************************)
(* The ledger is kept by every behaviour: the records, the runs, the       *)
(* handlers and the log of main.py stay in step, over overlapping          *)
(* requests, appends that raise, relabellings and crashes.                 *)
(***************************************************************************)
THEOREM LedgerKept == Spec => []LedgerInv
BY LedgerInit, LedgerStep, FullInvariance, PTL DEF Spec

(***************************************************************************)
(* The log reads in order from its beginning: no approval without the      *)
(* policy's allow before it, and no outcome of a plan without an approval  *)
(* of its own (ask logs the decision before the record exists, approve its *)
(* approval before the budget, the run and the digest).                    *)
(***************************************************************************)
THEOREM ReadsCorrect == Spec => []ReadsInOrder
BY LedgerKept, PTL DEF LedgerInv

(***************************************************************************)
(* A result above the clearance, or above the label its approver was shown *)
(* with the plan, was cleared under older annotations: as long as nobody   *)
(* relabels the source between the question and the run, what the executor *)
(* returns carries the label the policy cleared.                           *)
(***************************************************************************)
THEOREM ClearedCorrect == Spec => []ClearedUnlessRelabelled
BY LedgerKept, PTL DEF LedgerInv

(***************************************************************************)
(* No execution is digested twice, nor a failure as a success (approve:    *)
(* each ends with one append of its digest).                               *)
(***************************************************************************)
THEOREM DigestsCorrect == Spec => []DigestsAreOfRuns
<1>1. ASSUME LedgerInv
      PROVE  DigestsAreOfRuns
  <2> SUFFICES ASSUME NEW p \in Plans
               PROVE  /\ Cardinality(LinesOf(p, "execution_digest", "success"))
                           <= Cardinality(Successes(p))
                      /\ Cardinality(LinesOf(p, "execution_digest", "failure"))
                           <= Cardinality(Failures(p))
    BY DEF DigestsAreOfRuns
  <2>a. TypeOK
    BY <1>1 DEF LedgerInv, IndInv, SafetyInv
  <2>1. /\ LinesOf(p, "execution_digest", "success") \subseteq DOMAIN log
        /\ LinesOf(p, "execution_digest", "failure") \subseteq DOMAIN log
        /\ Successes(p) \subseteq DOMAIN runs /\ Failures(p) \subseteq DOMAIN runs
    BY DEF LinesOf, Successes, Failures, RunsOf
  <2>2. \A D, T : IsFiniteSet(D) /\ T \subseteq D => Cardinality(T) \in Nat
    BY FS_Subset, FS_CardinalityType
  <2>3. PICK s, f, ss, ff :
          /\ s = Cardinality(LinesOf(p, "execution_digest", "success"))
          /\ f = Cardinality(LinesOf(p, "execution_digest", "failure"))
          /\ ss = Cardinality(Successes(p)) /\ ff = Cardinality(Failures(p))
    OBVIOUS
  <2>4. s \in Nat /\ f \in Nat /\ ss \in Nat /\ ff \in Nat
    BY <2>a, <2>1, <2>2, <2>3, PositionsFinite
  <2>5. PICK i \in {0, 1}, j \in {0, 1} : s + i <= ss /\ f + j <= ff
    BY <1>1, <2>3 DEF LedgerInv, DigestsFollow, Pending
  <2> QED BY <2>3, <2>4, <2>5
<1> QED BY <1>1, LedgerKept, PTL

(***************************************************************************)
(* An approval in the log has an outcome in the log, but for at most one   *)
(* per append that raised and one per crash, and the one being worked on.  *)
(***************************************************************************)
THEOREM ApprovalsCorrect == Spec => []ApprovalsAreAccountedFor
<1>1. ASSUME LedgerInv
      PROVE  ApprovalsAreAccountedFor
  <2>a. TypeOK
    BY <1>1 DEF LedgerInv, IndInv, SafetyInv
  <2>1. (\E r \in Requests : pc[r] \in Approving \ {"approved"}) => busy # NoOne
    BY <2>a, NamesAreReal DEF TypeOK, HandlersOK, Running
  <2>2. ApprovalLines \subseteq DOMAIN log /\ OutcomeLines \subseteq DOMAIN log
    BY DEF ApprovalLines, OutcomeLines
  <2>3. PICK a, o : a = Cardinality(ApprovalLines) /\ o = Cardinality(OutcomeLines)
    OBVIOUS
  <2>4. a \in Nat /\ o \in Nat /\ faults \in Nat /\ life \in Nat
    BY <2>a, <2>2, <2>3, PositionsFinite, FS_Subset, FS_CardinalityType DEF TypeOK, WorldOK
  <2>5. a <= o + faults + (life - 1)
               + (IF \E r \in Requests : pc[r] \in Approving \ {"approved"} THEN 1 ELSE 0)
    BY <1>1, <2>3 DEF LedgerInv, OutcomesFollow
  <2>6. a <= o + faults + (life - 1) + (IF busy = NoOne THEN 0 ELSE 1)
    BY <2>1, <2>4, <2>5
  <2> QED BY <2>3, <2>6 DEF ApprovalsAreAccountedFor
<1> QED BY <1>1, LedgerKept, PTL

(***************************************************************************)
(* A policy decision in the log comes at the end of its own question's     *)
(* trail, whole and with no other request's line in between.               *)
(***************************************************************************)
THEOREM TrailCorrect == Spec => []TrailIsUnbroken
BY LedgerKept, PTL DEF LedgerInv

(***************************************************************************)
(* "With nothing crossing the boundary unlogged" (README): as long as no   *)
(* append raises, every result that a plan's page can show is in the log,  *)
(* or its handler is about to write it.                                    *)
(***************************************************************************)
THEOREM ShownCorrect == Spec => [](faults = 0 => ShownIsLogged)
BY LedgerKept, PTL DEF LedgerInv, ShownFollows

(***************************************************************************)
(* The budget of a session is exactly what it spent: the charge comes      *)
(* before the run, a refusal costs nothing, and no order of runs, crashes  *)
(* and overlapping approvals brings the count and the runs apart           *)
(* (guards.py, QueryBudget).                                               *)
(***************************************************************************)
THEOREM BudgetCorrect == Spec => []BudgetIsExact
BY LedgerKept, PTL DEF LedgerInv

-----------------------------------------------------------------------------
(***************************************************************************)
(* The status and the last word of the log.                                *)
(***************************************************************************)
(* The handlers whose line is a word on their plan. *)
Speaking == {"over budget", "run failed", "digest", "rejected"}

(* A handler that tells has the loop; which of them speak. *)
LEMMA TellingPlaces ==
  /\ Telling \subseteq Running /\ Speaking \subseteq Telling \cap Logging
  /\ Telling = Speaking \cup {"guard"} /\ "guard" \notin Speaking
  /\ Speaking \subseteq Deciding
  /\ "charge" \in Running /\ "run" \in Running /\ "policy" \in Running
BY DEF Telling, Speaking, Running, Asking, Approving, Rejecting, Logging, Deciding

(* What the words are, and what they say. *)
LEMMA WordsMean ==
  /\ DOMAIN Words = {"reject", "success", "failure", "query_budget"}
  /\ Words["reject"] = "rejected" /\ Words["success"] = "executed"
  /\ Words["failure"] = "failed" /\ Words["query_budget"] = "failed"
BY DEF Words

(* The line of a handler is a word exactly where it is to speak. *)
LEMMA SpokenLine ==
  ASSUME NEW r \in Requests, pc[r] \in Logging
  PROVE  /\ Line(r).event # "plan_generated" /\ Line(r).value \in DOMAIN Words
              <=> pc[r] \in Speaking
         /\ pc[r] \in Speaking => Line(r).plan = plan[r]
         /\ pc[r] \in {"over budget", "run failed"} => Words[Line(r).value] = "failed"
         /\ pc[r] = "digest" => Words[Line(r).value] = "executed"
         /\ pc[r] = "rejected" => Words[Line(r).value] = "rejected"
<1>1. CASE pc[r] \in {"question", "no plan", "planned", "validation", "policy", "approved", "guard"}
  BY <1>1, WordsMean DEF Line, Entry, Speaking
<1>2. CASE pc[r] = "over budget"
  BY <1>2, WordsMean DEF Line, Entry, Speaking
<1>3. CASE pc[r] = "run failed"
  BY <1>3, WordsMean DEF Line, Entry, Speaking
<1>4. CASE pc[r] = "digest"
  BY <1>4, WordsMean DEF Line, Entry, Speaking
<1>5. CASE pc[r] = "rejected"
  BY <1>5, WordsMean DEF Line, Entry, Speaking
<1> QED BY <1>1, <1>2, <1>3, <1>4, <1>5 DEF Logging

(* A line adds its position to the words on its plan, if it is a word. *)
LEMMA WordsOfAppend ==
  ASSUME TypeOK, NEW e \in EntryType, log' = Append(log, e), NEW p
  PROVE  WordsOn(p)' =
           WordsOn(p)
             \cup (IF e.plan = p /\ e.event # "plan_generated" /\ e.value \in DOMAIN Words
                   THEN {Len(log) + 1} ELSE {})
<1>1. PICK W : W = DOMAIN Words
  OBVIOUS
<1>2. WordsOn(p) =
        { n \in DOMAIN log : log[n].plan = p /\ log[n].event # "plan_generated" /\ log[n].value \in W }
  BY <1>1 DEF WordsOn
<1>3. WordsOn(p)' =
        { n \in DOMAIN log' : log'[n].plan = p /\ log'[n].event # "plan_generated" /\ log'[n].value \in W }
  BY <1>1 DEF WordsOn, Words
<1>4. /\ DOMAIN log = 1 .. Len(log) /\ Len(log) \in Nat
      /\ DOMAIN log' = 1 .. Len(log) + 1
      /\ log'[Len(log) + 1] = e
      /\ \A i \in 1 .. Len(log) : log'[i] = log[i]
  BY LineAdded
<1> QED BY <1>1, <1>2, <1>3, <1>4

(* The last word on a plan is one that the log has. *)
LEMMA LastIsThere ==
  ASSUME TypeOK, NEW p, WordsOn(p) # {}
  PROVE  Max(WordsOn(p)) \in WordsOn(p)
<1>1. Len(log) \in Nat /\ WordsOn(p) \in SUBSET (0 .. Len(log))
  BY DEF WordsOn, TypeOK, WorldOK
<1> QED BY <1>1, GreatestNumber

(* A line that is no word on a plan leaves the last one; a word is the last one. *)
LEMMA LastWordAfter ==
  ASSUME TypeOK, TypeOK', NEW e \in EntryType, log' = Append(log, e), NEW p
  PROVE  /\ ~(e.plan = p /\ e.event # "plan_generated" /\ e.value \in DOMAIN Words) =>
              LastWord(p)' = LastWord(p)
         /\ e.plan = p /\ e.event # "plan_generated" /\ e.value \in DOMAIN Words =>
              LastWord(p)' = Words[e.value]
<1>1. CASE ~(e.plan = p /\ e.event # "plan_generated" /\ e.value \in DOMAIN Words)
  <2>1. WordsOn(p)' = WordsOn(p)
    BY <1>1, WordsOfAppend
  <2>2. CASE WordsOn(p) = {}
    BY <1>1, <2>1, <2>2 DEF LastWord
  <2>3. CASE WordsOn(p) # {}
    <3>1. PICK m : m = Max(WordsOn(p))
      OBVIOUS
    <3>2. m \in DOMAIN log
      BY <2>3, <3>1, LastIsThere DEF WordsOn
    <3>3. log'[m] = log[m]
      BY <3>2, LineAdded
    <3>4. LastWord(p) = Words[log[m].value]
      BY <2>3, <3>1 DEF LastWord
    <3>5. LastWord(p)' = Words[log'[m].value]
      BY <2>1, <2>3, <3>1 DEF LastWord, Words
    <3> QED BY <1>1, <3>3, <3>4, <3>5
  <2> QED BY <2>2, <2>3
<1>2. CASE e.plan = p /\ e.event # "plan_generated" /\ e.value \in DOMAIN Words
  <2>1. PICK k : k = Len(log) + 1
    OBVIOUS
  <2>2. /\ WordsOn(p)' = WordsOn(p) \cup {k} /\ WordsOn(p) \subseteq 1 .. k - 1
        /\ k \in Nat /\ log'[k] = e /\ Len(log') = k
    BY <1>2, <2>1, WordsOfAppend, LineAdded DEF WordsOn
  <2>3. k \in WordsOn(p)' /\ \A n \in WordsOn(p)' : n <= k
    BY <2>2
  <2>4. WordsOn(p)' \in SUBSET (0 .. k)
    BY <2>2
  <2>5. PICK m : m = Max(WordsOn(p)')
    OBVIOUS
  <2>6. m \in WordsOn(p)' /\ \A n \in WordsOn(p)' : m >= n
    BY <2>2, <2>3, <2>4, <2>5, GreatestNumber
  <2>7. m = k
    BY <2>2, <2>3, <2>4, <2>6
  <2>8. LastWord(p)' = Words[log'[m].value]
    BY <2>3, <2>5 DEF LastWord, Words
  <2> QED BY <1>2, <2>2, <2>7, <2>8
<1> QED BY <1>1, <1>2

(* Telling agrees with the status. *)
ToldOf(place, said) ==
  /\ place \in {"over budget", "run failed"} => said = "failed"
  /\ place \in {"guard", "digest"} => said = "executed"
  /\ place = "rejected" => said = "rejected"

(* A handler sets the status of its plan and is to log why. *)
Sets(r) ==
  /\ pc[r] \in {"charge", "run"} \/ busy = NoOne
  /\ plan[r] \in Plans /\ plan'[r] = plan[r] /\ pc'[r] \in Telling
  /\ \E said : ToldOf(pc'[r], said) /\ status' = [status EXCEPT ![plan[r]] = said]
  /\ \A q \in Requests \ {r} : pc'[q] = pc[q] /\ plan'[q] = plan[q]
  /\ UNCHANGED log

(* The policy's decision is logged and the record made. *)
Rules(r) ==
  /\ pc[r] = "policy" /\ pc'[r] = "idle"
  /\ status' = [status EXCEPT ![plan[r]] = StatusOf(decision[plan[r]].allow)]
  /\ log' = Append(log, Line(r))
  /\ \A q \in Requests \ {r} : pc'[q] = pc[q] /\ plan'[q] = plan[q]

(* No status is set, and no handler begins to tell. *)
Keeps ==
  /\ status' = status
  /\ \A q \in Requests : pc'[q] \in Telling =>
       /\ plan'[q] = plan[q]
       /\ pc'[q] = pc[q] \/ (pc[q] = "guard" /\ pc'[q] = "digest")

(* A handler that ends, or goes on without telling, lets no other begin to tell. *)
LEMMA KeepsWhen ==
  ASSUME HandlersOK, NEW r \in Requests, status' = status
  PROVE  /\ Return(r) => Keeps
         /\ \A to : Goto(r, to) /\ (to \notin Telling \/ (pc[r] = "guard" /\ to = "digest"))
                      => Keeps
<1>1. "idle" \notin Telling
  BY DEF Telling
<1> QED BY <1>1 DEF HandlersOK, Return, Goto, Keeps

(* Every step sets a status and is to log why, or logs a decision and makes its record, *)
(* or sets none, or is a crash.                                                         *)
LEMMA StatusMoves ==
  ASSUME TypeOK, Planned, [Next]_vars
  PROVE  Keeps \/ (\E r \in Requests : Sets(r) \/ Rules(r)) \/ CrashAndRestart
<1>a. HandlersOK
  BY DEF TypeOK
<1>b. /\ {"schema", "no plan", "planned", "validation", "policy", "charge", "run", "question",
          "approve form", "reject form", "approved", "idle"} \cap Telling = {}
      /\ {"over budget", "run failed", "guard", "rejected"} \subseteq Telling
  BY DEF Telling
<1>1. ASSUME NEW r \in Requests, Ask(r)
      PROVE  Keeps \/ Rules(r)
  <2>1. CASE LogQuestion(r)
    BY <1>a, <1>b, <2>1, KeepsWhen DEF LogQuestion, LogsBetween, records
  <2>2. CASE AskNoSchema(r)
    BY <1>a, <2>2, KeepsWhen DEF AskNoSchema, records
  <2>3. CASE AskNoPlan(r)
    BY <1>a, <1>b, <2>3, KeepsWhen DEF AskNoPlan, records
  <2>4. CASE LogNoPlan(r)
    BY <1>a, <2>4, KeepsWhen DEF LogNoPlan, LogsLast, records
  <2>5. CASE AskPlanned(r)
    BY <1>a, <1>b, <2>5, KeepsWhen DEF AskPlanned
  <2>6. CASE LogPlanned(r)
    BY <1>a, <1>b, <2>6, KeepsWhen DEF LogPlanned, LogsBetween, records
  <2>7. CASE LogValidation(r)
    <3>1. status' = status
      BY <2>7 DEF LogValidation, records
    <3>2. Return(r) \/ \E to \in {"policy", "validation"} : Goto(r, to)
      BY <2>7 DEF LogValidation
    <3> QED BY <1>a, <1>b, <3>1, <3>2, KeepsWhen
  <2>8. CASE LogPolicy(r)
    <3>1. CASE status' = status
      BY <1>a, <2>8, <3>1, KeepsWhen DEF LogPolicy
    <3>2. CASE Logged(Line(r)) /\ status' = [status EXCEPT ![plan[r]] = StatusOf(decision[plan[r]].allow)]
      <4>1. pc'[r] = "idle" /\ \A q \in Requests \ {r} : pc'[q] = pc[q] /\ plan'[q] = plan[q]
        BY <1>a, <2>8 DEF LogPolicy, Return, HandlersOK
      <4> QED BY <2>8, <3>2, <4>1 DEF LogPolicy, At, Logged, Rules
    <3> QED BY <2>8, <3>1, <3>2 DEF LogPolicy
  <2> QED BY <1>1, <2>1, <2>2, <2>3, <2>4, <2>5, <2>6, <2>7, <2>8 DEF Ask
<1>c. ASSUME NEW r \in Requests, NEW to, Goto(r, to)
      PROVE  /\ pc'[r] = to /\ plan'[r] = plan[r]
             /\ \A q \in Requests \ {r} : pc'[q] = pc[q] /\ plan'[q] = plan[q]
  BY <1>a, <1>c DEF HandlersOK, Goto
<1>d. ASSUME NEW r \in Requests, pc[r] # "idle"
      PROVE  plan[r] \in Plans
  BY <1>a, <1>d DEF HandlersOK
<1>2. ASSUME NEW r \in Requests, Approve(r) \/ LogReject(r)
      PROVE  Keeps \/ Sets(r)
  <2>1. CASE LogApproval(r)
    BY <1>a, <1>b, <2>1, KeepsWhen DEF LogApproval
  <2>2. CASE Charge(r)
    <3>1. pc[r] = "charge" /\ UNCHANGED log
      BY <2>2 DEF Charge, At
    <3>2. CASE Goto(r, "run") /\ UNCHANGED status
      BY <1>a, <1>b, <3>2, KeepsWhen
    <3>3. CASE Goto(r, "over budget") /\ status' = [status EXCEPT ![plan[r]] = "failed"]
      <4>1. PICK to : to = "over budget"
        OBVIOUS
      <4>2. ToldOf(to, "failed") /\ to \in Telling
        BY <1>b, <4>1 DEF ToldOf
      <4>3. pc'[r] = to
        BY <1>c, <3>3, <4>1
      <4> QED BY <1>c, <1>d, <3>1, <3>3, <4>1, <4>2, <4>3 DEF Sets
    <3> QED BY <2>2, <3>2, <3>3 DEF Charge
  <2>3. CASE RunSucceeds(r)
    <3>1. /\ pc[r] = "run" /\ UNCHANGED log /\ Goto(r, "guard")
          /\ status' = [status EXCEPT ![plan[r]] = "executed"]
      BY <2>3 DEF RunSucceeds, At
    <3>2. ToldOf("guard", "executed")
      BY DEF ToldOf
    <3> QED BY <1>b, <1>c, <1>d, <3>1, <3>2 DEF Sets
  <2>4. CASE RunFails(r)
    <3>1. /\ pc[r] = "run" /\ UNCHANGED log /\ Goto(r, "run failed")
          /\ status' = [status EXCEPT ![plan[r]] = "failed"]
      BY <2>4 DEF RunFails, At
    <3>2. PICK to : to = "run failed"
      OBVIOUS
    <3>3. ToldOf(to, "failed") /\ to \in Telling
      BY <1>b, <3>2 DEF ToldOf
    <3>4. pc'[r] = to
      BY <1>c, <3>1, <3>2
    <3> QED BY <1>c, <1>d, <3>1, <3>3, <3>4 DEF Sets
  <2>5. CASE LogGuard(r)
    BY <1>a, <2>5, KeepsWhen DEF LogGuard, LogsBetween, At, records
  <2>6. CASE LogOverBudget(r) \/ LogRunFailed(r) \/ LogDigest(r) \/ LogReject(r)
    BY <1>a, <2>6, KeepsWhen DEF LogOverBudget, LogRunFailed, LogDigest, LogReject, LogsLast, records
  <2> QED BY <1>2, <2>1, <2>2, <2>3, <2>4, <2>5, <2>6 DEF Approve
<1>3. ASSUME NEW r \in Requests, Client(r)
      PROVE  Keeps \/ Sets(r)
  <2>1. ASSUME NEW p \in Plans, AskReceived(r, p)
        PROVE  Keeps
    BY <1>a, <1>b, <2>1 DEF AskReceived, HandlersOK, Keeps, records
  <2>2. ASSUME NEW p \in Plans, NEW form \in {"approve form", "reject form"}, Arrives(r, p, form)
        PROVE  Keeps
    BY <1>a, <1>b, <2>2 DEF Arrives, HandlersOK, Keeps, records
  <2>3. CASE AskEmpty(r) \/ \E p \in Plans : Refuse(r, p)
    BY <2>3 DEF AskEmpty, Refuse, vars, Keeps
  <2>4. CASE FormLost(r)
    BY <1>a, <2>4, KeepsWhen DEF FormLost, records
  <2>5. CASE ApproveResumes(r)
    BY <1>a, <1>b, <2>5 DEF ApproveResumes, HandlersOK, Keeps, records
  <2>6. CASE RejectResumes(r)
    <3>1. ToldOf("rejected", "rejected")
      BY DEF ToldOf
    <3> QED BY <1>a, <1>b, <1>d, <2>6, <3>1 DEF RejectResumes, HandlersOK, Sets
  <2> QED BY <1>3, <2>1, <2>2, <2>3, <2>4, <2>5, <2>6
          DEF Client, ApproveArrives, RejectArrives
<1>4. CASE UNCHANGED vars
  BY <1>4 DEF vars, Keeps
<1>5. CASE Relabel
  BY <1>5 DEF Relabel, records, handlers, Keeps
<1> QED BY <1>1, <1>2, <1>3, <1>4, <1>5 DEF Next, Continue

(* A new word is on a plan that the policy has allowed. *)
LEMMA WordsAllowed ==
  ASSUME TypeOK, Planned, Tracked, Authorising, WordsInv, [Next]_vars, NEW p \in Plans,
         WordsOn(p)' # {}
  PROVE  LinesOf(p, "policy_decision", "allow")' # {}
<1>1. CASE WordsOn(p)' = WordsOn(p)
  <2>1. LinesOf(p, "policy_decision", "allow") # {}
    BY <1>1 DEF WordsInv
  <2> QED BY <2>1, LinesStay
<1>2. ASSUME NEW r \in Requests, pc[r] \in Logging, log' = Append(log, Line(r))
      PROVE  LinesOf(p, "policy_decision", "allow")' # {}
  <2>1. Line(r) \in EntryType
    BY <1>2, LoggerTyped
  <2>2. CASE WordsOn(p) # {}
    <3>1. LinesOf(p, "policy_decision", "allow") # {}
      BY <2>2 DEF WordsInv
    <3> QED BY <3>1, LinesStay
  <2>3. CASE WordsOn(p) = {}
    <3>1. Line(r).plan = p /\ Line(r).event # "plan_generated" /\ Line(r).value \in DOMAIN Words
      BY <1>2, <2>1, <2>3, WordsOfAppend
    <3>2. pc[r] \in Deciding /\ plan[r] = p
      BY <1>2, <3>1, SpokenLine, TellingPlaces
    <3>3. status[p] \notin {"absent", "denied"}
      BY <3>2 DEF Tracked, TrackedAt
    <3>4. LinesOf(p, "policy_decision", "allow") # {}
      BY <3>3 DEF Authorising
    <3> QED BY <3>4, LinesStay
  <2> QED BY <2>2, <2>3
<1>3. log' = log \/ \E r \in Requests : pc[r] \in Logging /\ log' = Append(log, Line(r))
  <2>1. ASSUME NEW r \in Requests, Wrote(r) \/ Raised(r) \/ Executed(r) \/ Walked(r)
        PROVE  log' = log \/ (pc[r] \in Logging /\ log' = Append(log, Line(r)))
    BY <2>1 DEF Wrote, Raised, Executed, Walked
  <2>2. Stayed \/ CrashAndRestart => log' = log
    BY DEF Stayed, CrashAndRestart
  <2> QED BY <2>1, <2>2, Ledger
<1>4. log' = log => WordsOn(p)' = WordsOn(p)
  BY DEF WordsOn, Words
<1> QED BY <1>1, <1>2, <1>3, <1>4

(* Every step keeps the status that a handler tells of as it has set it. *)
LEMMA ToldStep ==
  ASSUME TypeOK, Planned, Tracked, WordsInv, [Next]_vars, NEW r \in Requests
  PROVE  ToldOf(pc[r], status[plan[r]])'
<1>1. \A q \in Requests : ToldOf(pc[q], status[plan[q]])
  BY DEF WordsInv, ToldOf
<1>a. \A place : place \notin Telling => \A said : ToldOf(place, said)
  BY DEF ToldOf, Telling
<1>b. \A said : ToldOf("guard", said) => ToldOf("digest", said)
  BY DEF ToldOf
<1>2. CASE Keeps
  <2>1. CASE pc'[r] \notin Telling
    BY <1>a, <2>1 DEF ToldOf
  <2>2. CASE pc'[r] \in Telling
    <3>1. /\ status' = status /\ plan'[r] = plan[r]
          /\ pc'[r] = pc[r] \/ (pc[r] = "guard" /\ pc'[r] = "digest")
      BY <1>2, <2>2 DEF Keeps
    <3>2. ToldOf(pc'[r], status[plan[r]])
      BY <1>1, <1>b, <3>1
    <3> QED BY <3>1, <3>2 DEF ToldOf
  <2> QED BY <2>1, <2>2
<1>3. ASSUME NEW q \in Requests, Sets(q)
      PROVE  ToldOf(pc[r], status[plan[r]])'
  <2>1. CASE r = q
    <3>1. PICK said : ToldOf(pc'[q], said) /\ status' = [status EXCEPT ![plan[q]] = said]
      BY <1>3 DEF Sets
    <3>2. status'[plan'[q]] = said
      BY <1>3, <3>1 DEF Sets, TypeOK, RecordsOK
    <3> QED BY <2>1, <3>1, <3>2 DEF ToldOf
  <2>2. CASE r # q
    <3>1. pc[r] \notin Running
      <4>1. CASE pc[q] \in {"charge", "run"}
        <5>1. pc[q] \in Running
          BY <4>1, TellingPlaces
        <5> QED BY <2>2, <5>1, LoneHandler
      <4>2. CASE busy = NoOne
        BY <4>2, NamesAreReal DEF TypeOK, HandlersOK
      <4> QED BY <1>3, <4>1, <4>2 DEF Sets
    <3>2. pc'[r] \notin Telling
      BY <1>3, <2>2, <3>1, TellingPlaces DEF Sets
    <3> QED BY <1>a, <3>2 DEF ToldOf
  <2> QED BY <2>1, <2>2
<1>4. ASSUME NEW q \in Requests, Rules(q)
      PROVE  ToldOf(pc[r], status[plan[r]])'
  <2>1. pc'[r] \notin Telling
    <3>1. CASE r = q
      BY <1>4, <3>1 DEF Rules, Telling
    <3>2. CASE r # q
      BY <1>4, <3>2, TellingPlaces, LoneHandler DEF Rules
    <3> QED BY <3>1, <3>2
  <2> QED BY <1>a, <2>1 DEF ToldOf
<1>5. CASE CrashAndRestart
  <2>1. pc'[r] \notin Telling
    BY <1>5 DEF CrashAndRestart, Die, Telling
  <2> QED BY <1>a, <2>1 DEF ToldOf
<1> QED BY <1>2, <1>3, <1>4, <1>5, StatusMoves

(* While no append raises, every step leaves the log the last word, or a handler to say it. *)
LEMMA LastWordStep ==
  ASSUME TypeOK, TypeOK', Planned, Tracked, Undecided, WordsInv, [Next]_vars,
         faults' = 0, NEW p \in Plans, status'[p] \notin {"absent", "denied"},
         \A q \in Requests : plan'[q] = p => pc'[q] \notin Telling
  PROVE  status'[p] = LastWord(p)'
<1>a. faults \in Nat
  BY DEF TypeOK, WorldOK
<1>b. faults = 0
  <2>1. faults' = faults \/ faults' = faults + 1
    BY Ledger DEF Wrote, Raised, Executed, Walked, Stayed, CrashAndRestart, Die
  <2> QED BY <1>a, <2>1
<1>1. CASE CrashAndRestart
  BY <1>1 DEF CrashAndRestart, Die
<1>2. ASSUME NEW r \in Requests, Sets(r)
      PROVE  status'[p] = LastWord(p)'
  <2>1. plan[r] # p
    BY <1>2 DEF Sets
  <2>2. status'[p] = status[p]
    BY <1>2, <2>1 DEF Sets, TypeOK, RecordsOK
  <2>3. ASSUME NEW q \in Requests, plan[q] = p
        PROVE  pc[q] \notin Telling
    BY <1>2, <2>1, <2>3 DEF Sets
  <2>4. log' = log /\ faults = 0
    BY <1>2, <1>b DEF Sets
  <2>5. status[p] = LastWord(p)
    BY <2>2, <2>3, <2>4 DEF WordsInv
  <2>6. LastWord(p)' = LastWord(p)
    BY <2>4 DEF LastWord, WordsOn, Words
  <2> QED BY <2>2, <2>5, <2>6
<1>3. ASSUME NEW r \in Requests, Rules(r)
      PROVE  status'[p] = LastWord(p)'
  <2>1. pc[r] \in Logging /\ pc[r] \notin Speaking /\ pc[r] \in Asking /\ pc[r] \in Running
    BY <1>3 DEF Rules, Logging, Speaking, Asking, Running
  <2>2. Line(r) \in EntryType /\ log' = Append(log, Line(r)) /\ plan[r] \in Plans
    BY <1>3, <2>1, LoggerTyped DEF Rules
  <2>3. LastWord(p)' = LastWord(p)
    BY <2>1, <2>2, SpokenLine, LastWordAfter
  <2>4. CASE plan[r] = p
    <3>1. VerdictOf(p) = "none"
      BY <2>1, <2>4 DEF Undecided
    <3>2. LinesOf(p, "policy_decision", "allow") = {}
      BY <3>1 DEF VerdictOf
    <3>3. LastWord(p) = "pending"
      BY <3>2 DEF WordsInv, LastWord
    <3>4. status'[p] = "pending"
      BY <1>3, <2>2, <2>4 DEF Rules, StatusOf, TypeOK, RecordsOK
    <3> QED BY <2>3, <3>3, <3>4
  <2>5. CASE plan[r] # p
    <3>1. status'[p] = status[p]
      BY <1>3, <2>5 DEF Rules, TypeOK, RecordsOK
    <3>2. \A q \in Requests : pc[q] \in Running => q = r
      BY <2>1, LoneHandler
    <3>3. \A q \in Requests : plan[q] = p => pc[q] \notin Telling
      BY <2>5, <3>2, TellingPlaces
    <3>4. faults = 0
      BY <1>b
    <3>5. status[p] = LastWord(p)
      BY <3>1, <3>3, <3>4 DEF WordsInv
    <3> QED BY <2>3, <3>1, <3>5
  <2> QED BY <2>4, <2>5
<1>4. CASE Keeps /\ ~CrashAndRestart
  <2>1. status' = status
    BY <1>4 DEF Keeps
  <2>2. ASSUME NEW r \in Requests, Wrote(r)
        PROVE  status'[p] = LastWord(p)'
    <3>1. /\ pc[r] \in Logging /\ log' = Append(log, Line(r)) /\ faults' = faults /\ Alone(r)
      BY <2>2 DEF Wrote
    <3>2. Line(r) \in EntryType
      BY <3>1, LoggerTyped
    <3>3. pc[r] \in Running /\ \A q \in Requests : pc[q] \in Running => q = r
      BY <3>1, LoneHandler, OwedPlaces
    <3>4. ToldOf(pc[r], status[plan[r]])
      BY DEF WordsInv, ToldOf
    <3>5. CASE pc[r] \in Speaking /\ plan[r] = p
      <4>1. /\ Line(r).plan = p /\ Line(r).event # "plan_generated"
            /\ Line(r).value \in DOMAIN Words
        BY <3>1, <3>5, SpokenLine
      <4>2. LastWord(p)' = Words[Line(r).value]
        BY <3>1, <3>2, <4>1, LastWordAfter
      <4>3. Words[Line(r).value] = status[p]
        BY <3>1, <3>4, <3>5, SpokenLine DEF ToldOf, Speaking
      <4> QED BY <2>1, <4>2, <4>3
    <3>6. CASE ~(pc[r] \in Speaking /\ plan[r] = p)
      <4>1. LastWord(p)' = LastWord(p)
        BY <3>1, <3>2, <3>6, SpokenLine, LastWordAfter
      <4>2. ASSUME NEW q \in Requests, plan[q] = p
            PROVE  pc[q] \notin Telling
        <5>1. CASE q # r
          BY <3>3, <5>1, TellingPlaces
        <5>2. CASE q = r /\ pc[r] = "guard"
          BY <2>2, <4>2, <5>2, OwedPlaces DEF Wrote, LastLines, LogEdges, Telling
        <5>3. CASE q = r /\ pc[r] # "guard"
          BY <3>6, <4>2, <5>3, TellingPlaces
        <5> QED BY <5>1, <5>2, <5>3
      <4>3. status[p] = LastWord(p)
        BY <2>1, <3>1, <4>2 DEF WordsInv
      <4> QED BY <2>1, <4>1, <4>3
    <3> QED BY <3>5, <3>6
  <2>3. ASSUME NEW r \in Requests, Raised(r)
        PROVE  FALSE
    BY <1>a, <2>3 DEF Raised
  <2>4. ASSUME NEW r \in Requests, Executed(r)
        PROVE  FALSE
    <3>1. pc[r] = "run" /\ pc'[r] \in Telling
      BY <2>4 DEF Executed, Telling
    <3> QED BY <1>4, <3>1 DEF Keeps, Telling
  <2>5. ASSUME log' = log, faults' = faults,
               \A q \in Requests : pc[q] \in Telling => pc'[q] = pc[q] /\ plan'[q] = plan[q]
        PROVE  status'[p] = LastWord(p)'
    <3>1. \A q \in Requests : plan[q] = p => pc[q] \notin Telling
      BY <2>5
    <3>2. status[p] = LastWord(p)
      BY <2>1, <2>5, <3>1 DEF WordsInv
    <3>3. LastWord(p)' = LastWord(p)
      BY <2>5 DEF LastWord, WordsOn, Words
    <3> QED BY <2>1, <3>2, <3>3
  <2>6. ASSUME NEW r \in Requests, Walked(r)
        PROVE  status'[p] = LastWord(p)'
    <3>1. pc[r] \notin Telling
      BY <2>6 DEF Walked, SilentEdges, Telling
    <3> QED BY <2>5, <2>6, <3>1 DEF Walked, Alone
  <2>7. CASE Stayed
    BY <2>5, <2>7 DEF Stayed
  <2> QED BY <1>4, <2>2, <2>3, <2>4, <2>6, <2>7, Ledger
<1> QED BY <1>1, <1>2, <1>3, <1>4, StatusMoves

(* The words are kept by every step. *)
LEMMA WordsStep ==
  WordsInv /\ IndInv /\ IndInv' /\ [Next]_vars => WordsInv'
<1> SUFFICES ASSUME WordsInv, IndInv, IndInv', [Next]_vars
             PROVE  WordsInv'
  OBVIOUS
<1>1. TypeOK /\ Planned /\ Tracked /\ Authorising /\ Undecided /\ TypeOK'
  BY DEF IndInv, SafetyInv
<1>2. \A p \in Plans : WordsOn(p)' # {} => LinesOf(p, "policy_decision", "allow")' # {}
  BY <1>1, WordsAllowed
<1>3. \A r \in Requests : ToldOf(pc[r], status[plan[r]])'
  BY <1>1, ToldStep
<1>4. ASSUME faults' = 0, NEW p \in Plans, status'[p] \notin {"absent", "denied"},
             \A q \in Requests : plan'[q] = p => pc'[q] \notin Telling
      PROVE  status'[p] = LastWord(p)'
  BY <1>1, <1>4, LastWordStep
<1> QED BY <1>2, <1>3, <1>4 DEF WordsInv, ToldOf, Telling

(***************************************************************************)
(* The page of a plan and the audit trail agree (main.py sets a status     *)
(* right before it logs why): however decisions overlap, while no append   *)
(* has raised and no handler is at work, a plan that was allowed has the   *)
(* status that the last outcome or rejection in the log says, and is       *)
(* pending when there is none.                                             *)
(***************************************************************************)
THEOREM StatusCorrect == Spec => []StatusIsTheLastWord
<1>1. Init => WordsInv
  <2> SUFFICES ASSUME Init
               PROVE  WordsInv
    OBVIOUS
  <2>1. DOMAIN log = {}
    BY DEF Init
  <2>2. \A p : WordsOn(p) = {}
    BY <2>1 DEF WordsOn
  <2> QED BY <2>2 DEF Init, WordsInv
<1>2. WordsInv /\ TypeOK => StatusIsTheLastWord
  <2> SUFFICES ASSUME WordsInv, TypeOK, busy = NoOne, faults = 0, NEW p \in Plans,
                      status[p] \notin {"absent", "denied"}
               PROVE  status[p] = LastWord(p)
    BY DEF StatusIsTheLastWord
  <2>1. \A r \in Requests : pc[r] \notin Telling
    BY TellingPlaces, NamesAreReal DEF TypeOK, HandlersOK
  <2> QED BY <2>1 DEF WordsInv
<1>3. IndInv => TypeOK
  BY DEF IndInv, SafetyInv
<1> QED BY <1>1, <1>2, <1>3, WordsStep, FullInvariance, PTL DEF Spec

-----------------------------------------------------------------------------
(***************************************************************************)
(* While decisions on a plan do not overlap.                               *)
(***************************************************************************)
(* The places of a request whose plan is still pending. *)
FreshPlaces == {"approve form", "reject form", "approved", "charge", "run"}

(* A request settles what becomes of its plan. *)
Settles(r) ==
  /\ pc[r] \in {"charge", "run", "reject form"}
  /\ pc'[r] \notin FreshPlaces \cup Asking
  /\ \A q \in Requests \ {r} : pc'[q] = pc[q] /\ plan'[q] = plan[q]
  /\ known' = known
  /\ \/ /\ status' = [status EXCEPT ![plan[r]] = "failed"]
        /\ UNCHANGED << result, approver, runs >>
     \/ /\ pc[r] = "run"
        /\ status' = [status EXCEPT ![plan[r]] = "failed"]
        /\ runs' = Append(runs, RunOf(r, NoLabel))
        /\ UNCHANGED << result, approver >>
     \/ /\ pc[r] = "run"
        /\ status' = [status EXCEPT ![plan[r]] = "executed"]
        /\ \E l : /\ l = ResultLabel(program[plan[r]], Schema)
                  /\ result' = [result EXCEPT ![plan[r]] = l]
                  /\ runs' = Append(runs, RunOf(r, l))
        /\ UNCHANGED approver
     \/ /\ pc[r] = "reject form"
        /\ status' = [status EXCEPT ![plan[r]] = "rejected"]
        /\ approver' = [approver EXCEPT ![plan[r]] = r]
        /\ UNCHANGED << result, runs >>

(* What a step does to the records, the settling ones told apart. *)
LEMMA Settlements ==
  ASSUME TypeOK, Planned, [Next]_vars
  PROVE  \/ Quiet
         \/ \E r \in Requests : Asks(r) \/ GetsPlan(r) \/ Decides(r) \/ Arrived(r)
                                \/ Approves(r) \/ Settles(r)
         \/ CrashAndRestart
<1> DEFINE Told(r) == Asks(r) \/ GetsPlan(r) \/ Decides(r) \/ Arrived(r) \/ Approves(r)
<1>a. HandlersOK
  BY DEF TypeOK
<1>0. PICK over, failed : over = "over budget" /\ failed = "run failed"
  OBVIOUS
<1>b. /\ over \notin FreshPlaces \cup Asking /\ failed \notin FreshPlaces \cup Asking
      /\ "guard" \notin FreshPlaces \cup Asking /\ "rejected" \notin FreshPlaces \cup Asking
  BY <1>0 DEF FreshPlaces, Asking
<1>c. ASSUME NEW r \in Requests, Quiet \/ Effect(r), pc[r] \notin {"charge", "run", "reject form"}
      PROVE  Quiet \/ Told(r)
  BY <1>c DEF Effect, Resolves
<1>d. ASSUME NEW r \in Requests, NEW to, Goto(r, to)
      PROVE  /\ pc'[r] = to
             /\ \A q \in Requests \ {r} : pc'[q] = pc[q] /\ plan'[q] = plan[q]
  BY <1>a, <1>d DEF HandlersOK, Goto
<1>1. ASSUME NEW r \in Requests, Ask(r)
      PROVE  Quiet \/ Told(r)
  <2>1. pc[r] \in Asking
    BY <1>1 DEF Ask, LogQuestion, AskNoSchema, AskNoPlan, LogNoPlan, AskPlanned, LogPlanned,
                LogValidation, LogPolicy, LogsBetween, LogsLast, At, Asking
  <2>2. pc[r] \notin {"charge", "run", "reject form"}
    BY <2>1 DEF Asking
  <2> QED BY <1>1, <1>c, <2>2, AskEffects
<1>2. ASSUME NEW r \in Requests, Approve(r) \/ LogReject(r)
      PROVE  Quiet \/ Told(r) \/ Settles(r)
  <2>1. CASE \/ LogApproval(r) \/ LogOverBudget(r) \/ LogRunFailed(r) \/ LogGuard(r)
             \/ LogDigest(r) \/ LogReject(r)
    <3>1. pc[r] \in {"approved", over, failed, "guard", "digest", "rejected"}
      BY <1>0, <2>1 DEF LogApproval, LogOverBudget, LogRunFailed, LogGuard, LogDigest, LogReject,
                  LogsBetween, LogsLast, At
    <3>2. pc[r] \notin {"charge", "run", "reject form"}
      <4>1. PICK form : form = "reject form"
        OBVIOUS
      <4>2. over \notin {"charge", "run", form} /\ failed \notin {"charge", "run", form}
        BY <1>0, <4>1
      <4>3. {"approved", "guard", "digest", "rejected"} \cap {"charge", "run", form} = {}
        BY <4>1
      <4>4. pc[r] \notin {"charge", "run", form}
        BY <3>1, <4>2, <4>3
      <4> QED BY <4>1, <4>4
    <3> QED BY <1>2, <1>c, <3>2, ApproveEffects
  <2>2. CASE Charge(r)
    <3>1. pc[r] = "charge" /\ UNCHANGED << program, decision, result, approver, known, runs >>
      BY <2>2 DEF Charge, At, ghosts
    <3>2. CASE Goto(r, "run") /\ UNCHANGED status
      <4>1. \A q \in Requests : Follows(q)
        BY <1>a, <3>1, <3>2, GotoFollows DEF Edges
      <4> QED BY <3>1, <3>2, <4>1 DEF Quiet
    <3>3. CASE Goto(r, over) /\ status' = [status EXCEPT ![plan[r]] = "failed"]
      BY <1>b, <1>d, <3>1, <3>3 DEF Settles
    <3> QED BY <1>0, <2>2, <3>2, <3>3 DEF Charge
  <2>3. CASE RunSucceeds(r)
    <3>1. PICK l : l = ResultLabel(program[plan[r]], Schema)
      OBVIOUS
    <3>2. /\ pc[r] = "run" /\ Goto(r, "guard") /\ known' = known
          /\ status' = [status EXCEPT ![plan[r]] = "executed"]
          /\ result' = [result EXCEPT ![plan[r]] = l]
          /\ runs' = Append(runs, RunOf(r, l)) /\ UNCHANGED approver
      BY <2>3, <3>1 DEF RunSucceeds, At, ghosts
    <3> QED BY <1>b, <1>d, <3>1, <3>2 DEF Settles
  <2>4. CASE RunFails(r)
    <3>1. /\ pc[r] = "run" /\ Goto(r, failed) /\ known' = known
          /\ status' = [status EXCEPT ![plan[r]] = "failed"]
          /\ runs' = Append(runs, RunOf(r, NoLabel)) /\ UNCHANGED << result, approver >>
      BY <1>0, <2>4 DEF RunFails, At, ghosts
    <3> QED BY <1>b, <1>d, <3>1 DEF Settles
  <2> QED BY <1>2, <2>1, <2>2, <2>3, <2>4 DEF Approve
<1>3. ASSUME NEW r \in Requests, Client(r)
      PROVE  Quiet \/ Told(r) \/ Settles(r)
  <2>1. CASE FormLost(r)
    <3>1. \A q \in Requests : Follows(q)
      BY <1>a, <2>1, ReturnFollows DEF FormLost
    <3> QED BY <2>1, <3>1 DEF FormLost, Quiet, records, ghosts
  <2>2. CASE RejectResumes(r)
    <3>1. /\ pc[r] = "reject form" /\ pc'[r] = "rejected" /\ known' = known
          /\ \A q \in Requests \ {r} : pc'[q] = pc[q] /\ plan'[q] = plan[q]
          /\ status' = [status EXCEPT ![plan[r]] = "rejected"]
          /\ approver' = [approver EXCEPT ![plan[r]] = r]
          /\ UNCHANGED << result, runs >>
      BY <1>a, <2>2 DEF RejectResumes, ghosts, HandlersOK
    <3> QED BY <1>b, <3>1 DEF Settles
  <2>3. CASE ~FormLost(r) /\ ~RejectResumes(r)
    <3>1. pc[r] \in {"idle", "approve form"} \/ UNCHANGED vars
      BY <1>3, <2>3 DEF Client, AskReceived, AskEmpty, ApproveArrives, RejectArrives, Arrives,
                        Refuse, ApproveResumes
    <3>2. CASE UNCHANGED vars
      BY <3>2 DEF vars, Quiet, Follows
    <3>3. CASE pc[r] \in {"idle", "approve form"}
      <4>1. pc[r] \notin {"charge", "run", "reject form"}
        BY <3>3
      <4> QED BY <1>3, <1>c, <4>1, ClientEffects
    <3> QED BY <3>1, <3>2, <3>3
  <2> QED BY <2>1, <2>2, <2>3
<1>4. CASE UNCHANGED vars
  BY <1>4 DEF vars, Quiet, Follows
<1>5. CASE Relabel
  BY <1>5 DEF Relabel, records, handlers, Quiet, Follows
<1> QED BY <1>1, <1>2, <1>3, <1>4, <1>5 DEF Next, Continue

(* What the page of one plan tells. *)
OutcomeAt(p) ==
  /\ Cardinality(RunsOf(p)) <= 1
  /\ result[p] # NoLabel <=> status[p] = "executed"
  /\ status[p] = "executed" => \E i \in RunsOf(p) : runs[i].by = approver[p]
  /\ status[p] \in {"pending", "rejected"} => RunsOf(p) = {}

(* A plan that is still to be asked for, or being asked for. *)
BeforeDecision(p) ==
  p \notin known \/ \E r \in Requests : pc[r] \in Asking /\ plan[r] = p

(* A request on its way to a decision has its plan pending, and its approval there. *)
FreshAt(r) ==
  /\ pc[r] \in FreshPlaces => status[plan[r]] = "pending"
  /\ pc[r] \in {"charge", "run"} => approver[plan[r]] = r

(* The invariant, plan by plan and request by request. *)
LEMMA SerialParts ==
  SerialInv <=>
    /\ \A p \in Plans : OutcomeAt(p) /\ (BeforeDecision(p) => RunsOf(p) = {})
    /\ \A r \in Requests : FreshAt(r)
BY DEF SerialInv, RunsAtMostOnce, StatusTellsOutcome, FreshUntilRun, OutcomeAt, BeforeDecision,
       FreshAt, FreshPlaces

(* What a run adds to the runs of its plan. *)
LEMMA RunsOfGrow ==
  ASSUME TypeOK, NEW run, runs' = Append(runs, run), NEW p
  PROVE  /\ run.plan # p => RunsOf(p)' = RunsOf(p)
         /\ run.plan = p => RunsOf(p)' = RunsOf(p) \cup {Len(runs) + 1}
         /\ \A i \in RunsOf(p) : runs'[i] = runs[i]
         /\ runs'[Len(runs) + 1] = run
BY DEF TypeOK, WorldOK, RunsOf

(* A plan whose record and runs stay tells what it told. *)
LEMMA OutcomeStays ==
  ASSUME TypeOK, NEW p, OutcomeAt(p), RunsOf(p)' = RunsOf(p),
         \A i \in RunsOf(p) : runs'[i] = runs[i],
         status'[p] = status[p], result'[p] = result[p],
         approver'[p] = approver[p] \/ status[p] # "executed"
  PROVE  OutcomeAt(p)'
<1>1. Cardinality(RunsOf(p)') = Cardinality(RunsOf(p))
  OBVIOUS
<1> QED BY <1>1 DEF OutcomeAt

(* A request that settles its plan is the only one that was on the way to. *)
LEMMA SettlesItsOwn ==
  ASSUME TypeOK, Planned, Tracked, DenyIsFinal, DecidedWhenAsked, DecisionsDoNotOverlap, SerialInv,
         NEW r \in Requests, Settles(r)
  PROVE  /\ plan[r] \in Plans /\ status[plan[r]] = "pending" /\ plan[r] \in known
         /\ RunsOf(plan[r]) = {} /\ result[plan[r]] = NoLabel
         /\ \A q \in Requests \ {r} : pc[q] \in Deciding \cup Asking => plan[q] # plan[r]
<1>1. pc[r] \in FreshPlaces /\ pc[r] \in Deciding /\ pc[r] # "idle"
  BY DEF Settles, FreshPlaces, Deciding, Approving
<1>2. plan[r] \in Plans /\ status[plan[r]] = "pending"
  BY <1>1, SerialParts DEF FreshAt, TypeOK, HandlersOK
<1>3. RunsOf(plan[r]) = {} /\ result[plan[r]] = NoLabel
  BY <1>2, SerialParts DEF OutcomeAt
<1>4. plan[r] \in known
  BY <1>2 DEF Tracked
<1>5. ASSUME NEW q \in Requests \ {r}, pc[q] \in Deciding \cup Asking
      PROVE  plan[q] # plan[r]
  BY <1>1, <1>2, <1>5 DEF DecisionsDoNotOverlap, Tracked, TrackedAt
<1> QED BY <1>2, <1>3, <1>4, <1>5

(* A settled plan's page tells what became of it. *)
LEMMA SettledOutcome ==
  ASSUME TypeOK, Planned, Tracked, DenyIsFinal, DecidedWhenAsked, DecisionsDoNotOverlap, SerialInv,
         NEW r \in Requests, Settles(r), NEW p \in Plans
  PROVE  /\ OutcomeAt(p)'
         /\ p # plan[r] => RunsOf(p)' = RunsOf(p)
<1>1. /\ plan[r] \in Plans /\ status[plan[r]] = "pending" /\ RunsOf(plan[r]) = {}
      /\ result[plan[r]] = NoLabel
  BY SettlesItsOwn
<1>2. OutcomeAt(p)
  BY SerialParts
<1>3. Cardinality({}) = 0 /\ \A n : Cardinality({n}) = 1
  BY FS_EmptySet, FS_Singleton
<1>4. /\ status \in [Plans -> Statuses] /\ result \in [Plans -> ResultLabels \cup {NoLabel}]
      /\ approver \in [Plans -> Requests \cup {NoOne}]
  BY DEF TypeOK, RecordsOK
<1>5. CASE p # plan[r]
  <2>1. status'[p] = status[p] /\ result'[p] = result[p] /\ approver'[p] = approver[p]
    BY <1>1, <1>4, <1>5 DEF Settles
  <2>2. RunsOf(p)' = RunsOf(p) /\ \A i \in RunsOf(p) : runs'[i] = runs[i]
    <3>1. CASE runs' = runs
      BY <3>1 DEF RunsOf
    <3>2. ASSUME NEW l, runs' = Append(runs, RunOf(r, l))
          PROVE  RunsOf(p)' = RunsOf(p) /\ \A i \in RunsOf(p) : runs'[i] = runs[i]
      <4>1. PICK run : run = RunOf(r, l)
        OBVIOUS
      <4>2. run.plan # p
        BY <1>5, <4>1 DEF RunOf
      <4> QED BY <3>2, <4>1, <4>2, RunsOfGrow
    <3> QED BY <3>1, <3>2 DEF Settles
  <2> QED BY <1>2, <1>5, <2>1, <2>2, OutcomeStays
<1>6. CASE p = plan[r]
  <2>1. ASSUME NEW l, runs' = Append(runs, RunOf(r, l))
        PROVE  /\ Cardinality(RunsOf(p)') = 1
               /\ \E i \in RunsOf(p)' : runs'[i].by = r
    <3>1. PICK run : run = RunOf(r, l)
      OBVIOUS
    <3>2. run.plan = p /\ run.by = r
      BY <1>6, <3>1 DEF RunOf
    <3>3. RunsOf(p)' = {Len(runs) + 1} /\ runs'[Len(runs) + 1] = run
      BY <1>1, <1>6, <2>1, <3>1, <3>2, RunsOfGrow
    <3> QED BY <1>3, <3>2, <3>3
  <2>2. runs' = runs => RunsOf(p)' = {}
    BY <1>1, <1>6 DEF RunsOf
  <2>3. CASE /\ status' = [status EXCEPT ![plan[r]] = "failed"]
             /\ UNCHANGED << result, approver, runs >>
    BY <1>1, <1>3, <1>4, <1>6, <2>2, <2>3 DEF OutcomeAt
  <2>4. CASE /\ status' = [status EXCEPT ![plan[r]] = "failed"]
             /\ runs' = Append(runs, RunOf(r, NoLabel))
             /\ UNCHANGED << result, approver >>
    <3>1. Cardinality(RunsOf(p)') = 1
      BY <2>1, <2>4
    <3> QED BY <1>1, <1>4, <1>6, <2>4, <3>1 DEF OutcomeAt
  <2>5. ASSUME NEW l, pc[r] = "run",
               status' = [status EXCEPT ![plan[r]] = "executed"],
               l = ResultLabel(program[plan[r]], Schema),
               result' = [result EXCEPT ![plan[r]] = l],
               runs' = Append(runs, RunOf(r, l)),
               approver' = approver
        PROVE  OutcomeAt(p)'
    <3>1. Cardinality(RunsOf(p)') = 1 /\ \E i \in RunsOf(p)' : runs'[i].by = r
      BY <2>1, <2>5
    <3>2. l # NoLabel
      BY <2>5, LabelsAreReal
    <3>3. approver'[p] = r
      BY <1>6, <2>5, SerialParts DEF FreshAt
    <3>4. status'[p] = "executed" /\ result'[p] = l
      BY <1>1, <1>4, <1>6, <2>5
    <3> QED BY <3>1, <3>2, <3>3, <3>4 DEF OutcomeAt
  <2>6. CASE /\ status' = [status EXCEPT ![plan[r]] = "rejected"]
             /\ UNCHANGED << result, runs >>
    BY <1>1, <1>3, <1>4, <1>6, <2>2, <2>6 DEF OutcomeAt
  <2> QED BY <1>6, <2>3, <2>4, <2>5, <2>6 DEF Settles
<1> QED BY <1>5, <1>6

(* A request that follows its handler's edges comes from where it can stand. *)
LEMMA FollowsTo ==
  ASSUME NEW q \in Requests, Follows(q)
  PROVE  /\ pc'[q] \in FreshPlaces => pc[q] \in FreshPlaces /\ plan'[q] = plan[q]
         /\ pc'[q] \in {"charge", "run"} => pc[q] \in {"charge", "run"}
         /\ pc'[q] \in Asking => pc[q] \in Asking /\ plan'[q] = plan[q]
<1>1. \A a, b : << a, b >> \in Edges =>
        /\ b \in FreshPlaces => a \in FreshPlaces
        /\ b \in {"charge", "run"} => a \in {"charge", "run"}
        /\ b \in Asking => a \in Asking
  BY DEF Edges, FreshPlaces, Asking
<1>2. CASE pc'[q] = "idle"
  BY <1>2 DEF FreshPlaces, Asking
<1>3. CASE plan'[q] = plan[q] /\ (pc'[q] = pc[q] \/ << pc[q], pc'[q] >> \in Edges)
  BY <1>1, <1>3
<1> QED BY <1>2, <1>3 DEF Follows

(* Every step but a crash keeps a request on its way to a decision fresh. *)
LEMMA FreshStep ==
  ASSUME TypeOK, Planned, Tracked, DenyIsFinal, DecidedWhenAsked, DecisionsDoNotOverlap, SerialInv,
         [Next]_vars, ~CrashAndRestart, NEW q \in Requests
  PROVE  FreshAt(q)'
<1>a. FreshAt(q) /\ (pc[q] \in FreshPlaces => pc[q] \in Deciding /\ pc[q] # "idle")
  BY SerialParts DEF FreshPlaces, Deciding, Approving
<1>b. /\ {"charge", "run"} \subseteq FreshPlaces
      /\ status \in [Plans -> Statuses] /\ approver \in [Plans -> Requests \cup {NoOne}]
      /\ pc[q] \in FreshPlaces => plan[q] \in Plans
  BY <1>a DEF FreshPlaces, TypeOK, RecordsOK, HandlersOK
<1>1. ASSUME Follows(q), pc[q] \in FreshPlaces => status'[plan[q]] = status[plan[q]],
             pc[q] \in {"charge", "run"} => approver'[plan[q]] = approver[plan[q]]
      PROVE  FreshAt(q)'
  BY <1>a, <1>b, <1>1, FollowsTo DEF FreshAt
<1>2. CASE Quiet
  BY <1>1, <1>2 DEF Quiet
<1>3. ASSUME NEW r \in Requests, Asks(r) \/ GetsPlan(r) \/ Arrived(r)
      PROVE  FreshAt(q)'
  <2>1. status' = status /\ approver' = approver /\ OthersFollow(r)
    BY <1>3 DEF Asks, GetsPlan, Arrived
  <2>2. CASE q # r
    BY <1>1, <2>1, <2>2 DEF OthersFollow
  <2>3. CASE q = r /\ (Asks(r) \/ GetsPlan(r))
    BY <2>3 DEF Asks, GetsPlan, FreshAt, FreshPlaces
  <2>4. CASE q = r /\ Arrived(r)
    BY <2>4 DEF Arrived, FreshAt
  <2> QED BY <1>3, <2>2, <2>3, <2>4
<1>4. ASSUME NEW r \in Requests, Decides(r)
      PROVE  FreshAt(q)'
  <2>1. /\ pc[r] = "policy" /\ pc'[r] = "idle" /\ approver' = approver /\ OthersFollow(r)
        /\ \E st : status' = [status EXCEPT ![plan[r]] = st]
    BY <1>4 DEF Decides
  <2>2. CASE q = r
    BY <2>1, <2>2 DEF FreshAt, FreshPlaces
  <2>3. CASE q # r
    <3>1. status[plan[r]] = "absent"
      BY <2>1 DEF Tracked, TrackedAt, Asking
    <3>2. pc[q] \in FreshPlaces => plan[q] # plan[r]
      BY <1>a, <3>1 DEF FreshAt
    <3> QED BY <1>1, <1>b, <2>1, <2>3, <3>2 DEF OthersFollow
  <2> QED BY <2>2, <2>3
<1>5. ASSUME NEW r \in Requests, Approves(r)
      PROVE  FreshAt(q)'
  <2>1. /\ pc[r] = "approved" /\ pc'[r] = "charge" /\ plan'[r] = plan[r] /\ status' = status
        /\ approver' = [approver EXCEPT ![plan[r]] = r] /\ OthersFollow(r)
    BY <1>5 DEF Approves
  <2>2. CASE q = r
    <3>1. pc[q] \in FreshPlaces
      BY <2>1, <2>2 DEF FreshPlaces
    <3> QED BY <1>a, <1>b, <2>1, <2>2, <3>1 DEF FreshAt
  <2>3. CASE q # r
    <3>1. pc[r] \in Deciding
      BY <2>1 DEF Deciding, Approving
    <3>2. pc[q] \in FreshPlaces => plan[q] # plan[r]
      BY <1>a, <2>3, <3>1 DEF DecisionsDoNotOverlap
    <3> QED BY <1>1, <1>b, <2>1, <2>3, <3>2 DEF OthersFollow
  <2> QED BY <2>2, <2>3
<1>6. ASSUME NEW r \in Requests, Settles(r)
      PROVE  FreshAt(q)'
  <2>1. CASE q = r
    BY <1>6, <1>b, <2>1 DEF Settles, FreshAt
  <2>2. CASE q # r
    <3>1. pc'[q] = pc[q] /\ plan'[q] = plan[q]
      BY <1>6, <2>2 DEF Settles
    <3>2. pc[q] \in FreshPlaces => plan[q] # plan[r]
      BY <1>a, <1>6, <2>2, SettlesItsOwn
    <3>3. pc[q] \in FreshPlaces =>
            status'[plan[q]] = status[plan[q]] /\ approver'[plan[q]] = approver[plan[q]]
      BY <1>6, <1>b, <3>2 DEF Settles
    <3> QED BY <1>a, <1>b, <3>1, <3>3 DEF FreshAt
  <2> QED BY <2>1, <2>2
<1> QED BY <1>2, <1>3, <1>4, <1>5, <1>6, Settlements

(* Every step but a crash keeps what each plan's page tells, and runs only what was decided. *)
LEMMA OutcomeStep ==
  ASSUME TypeOK, Planned, Tracked, DenyIsFinal, DecidedWhenAsked, DecisionsDoNotOverlap, SerialInv,
         [Next]_vars, ~CrashAndRestart, NEW p \in Plans
  PROVE  OutcomeAt(p)' /\ ((BeforeDecision(p) => RunsOf(p) = {})')
<1>a. OutcomeAt(p) /\ (BeforeDecision(p) => RunsOf(p) = {})
  BY SerialParts
<1>b. /\ status \in [Plans -> Statuses] /\ approver \in [Plans -> Requests \cup {NoOne}]
      /\ \A r \in Requests : pc[r] # "idle" => plan[r] \in Plans
  BY DEF TypeOK, RecordsOK, HandlersOK
<1>c. runs' = runs => RunsOf(p)' = RunsOf(p)
  BY DEF RunsOf
<1>1. ASSUME NEW r \in Requests, OthersFollow(r), known \subseteq known',
             pc'[r] \in Asking /\ plan'[r] = p => BeforeDecision(p), BeforeDecision(p)'
      PROVE  BeforeDecision(p)
  <2>1. CASE p \notin known'
    BY <1>1, <2>1 DEF BeforeDecision
  <2>2. ASSUME NEW q \in Requests, pc'[q] \in Asking, plan'[q] = p
        PROVE  BeforeDecision(p)
    BY <1>1, <2>2, FollowsTo DEF OthersFollow, BeforeDecision
  <2> QED BY <1>1, <2>1, <2>2 DEF BeforeDecision
<1>2. CASE Quiet
  <2>1. UNCHANGED << status, result, approver, runs, known >> /\ \A q \in Requests : Follows(q)
    BY <1>2 DEF Quiet
  <2>2. OutcomeAt(p)'
    BY <1>a, <1>c, <2>1, OutcomeStays
  <2>3. BeforeDecision(p)' => BeforeDecision(p)
    BY <2>1, FollowsTo DEF BeforeDecision
  <2> QED BY <1>a, <1>c, <2>1, <2>2, <2>3
<1>3. ASSUME NEW r \in Requests, Asks(r) \/ GetsPlan(r) \/ Arrived(r)
      PROVE  OutcomeAt(p)' /\ ((BeforeDecision(p) => RunsOf(p) = {})')
  <2>1. UNCHANGED << status, result, approver, runs >> /\ OthersFollow(r) /\ known \subseteq known'
    BY <1>3 DEF Asks, GetsPlan, Arrived
  <2>2. OutcomeAt(p)'
    BY <1>a, <1>c, <2>1, OutcomeStays
  <2>3. pc'[r] \in Asking /\ plan'[r] = p => BeforeDecision(p)
    <3>1. CASE Asks(r)
      BY <3>1 DEF Asks, BeforeDecision
    <3>2. CASE GetsPlan(r)
      BY <3>2 DEF GetsPlan, BeforeDecision, Asking
    <3>3. CASE Arrived(r)
      BY <3>3 DEF Arrived, Asking
    <3> QED BY <1>3, <3>1, <3>2, <3>3
  <2>4. BeforeDecision(p)' => BeforeDecision(p)
    BY <1>1, <2>1, <2>3
  <2> QED BY <1>a, <1>c, <2>1, <2>2, <2>4
<1>4. ASSUME NEW r \in Requests, Decides(r)
      PROVE  OutcomeAt(p)' /\ ((BeforeDecision(p) => RunsOf(p) = {})')
  <2>1. /\ pc[r] = "policy" /\ pc'[r] = "idle" /\ OthersFollow(r)
        /\ \E st \in {"pending", "denied"} : status' = [status EXCEPT ![plan[r]] = st]
        /\ UNCHANGED << result, approver, known, runs >>
    BY <1>4 DEF Decides, StatusOf
  <2>2. OutcomeAt(p)'
    <3>1. CASE p # plan[r]
      <4>1. status'[p] = status[p]
        BY <1>b, <2>1, <3>1
      <4> QED BY <1>a, <1>c, <2>1, <4>1, OutcomeStays
    <3>2. CASE p = plan[r]
      <4>1. BeforeDecision(p) /\ status[p] = "absent"
        BY <2>1, <3>2 DEF BeforeDecision, Asking, Tracked, TrackedAt
      <4>2. RunsOf(p)' = {} /\ Cardinality(RunsOf(p)') = 0
        BY <1>a, <1>c, <2>1, <4>1, FS_EmptySet
      <4>3. result'[p] = NoLabel /\ status'[p] \in {"pending", "denied"}
        BY <1>a, <1>b, <2>1, <3>2, <4>1 DEF OutcomeAt
      <4> QED BY <4>2, <4>3 DEF OutcomeAt
    <3> QED BY <3>1, <3>2
  <2>3. BeforeDecision(p)' => BeforeDecision(p)
    BY <1>1, <2>1 DEF Asking
  <2> QED BY <1>a, <1>c, <2>1, <2>2, <2>3
<1>5. ASSUME NEW r \in Requests, Approves(r)
      PROVE  OutcomeAt(p)' /\ ((BeforeDecision(p) => RunsOf(p) = {})')
  <2>1. /\ pc[r] = "approved" /\ pc'[r] = "charge" /\ OthersFollow(r)
        /\ approver' = [approver EXCEPT ![plan[r]] = r]
        /\ UNCHANGED << status, result, known, runs >>
    BY <1>5 DEF Approves
  <2>2. FreshAt(r) /\ pc[r] \in FreshPlaces
    BY <2>1, SerialParts DEF FreshPlaces
  <2>3. approver'[p] = approver[p] \/ status[p] # "executed"
    BY <1>b, <2>1, <2>2 DEF FreshAt
  <2>4. OutcomeAt(p)'
    BY <1>a, <1>c, <2>1, <2>3, OutcomeStays
  <2>5. BeforeDecision(p)' => BeforeDecision(p)
    BY <1>1, <2>1 DEF Asking
  <2> QED BY <1>a, <1>c, <2>1, <2>4, <2>5
<1>6. ASSUME NEW r \in Requests, Settles(r)
      PROVE  OutcomeAt(p)' /\ ((BeforeDecision(p) => RunsOf(p) = {})')
  <2>1. OutcomeAt(p)' /\ (p # plan[r] => RunsOf(p)' = RunsOf(p))
    BY <1>6, SettledOutcome
  <2>2. OthersFollow(r) /\ known' = known /\ pc'[r] \notin Asking
    BY <1>6 DEF Settles, OthersFollow, Follows
  <2>3. BeforeDecision(p)' => BeforeDecision(p)
    BY <1>1, <2>2
  <2>4. BeforeDecision(p) => p # plan[r]
    <3>1. /\ plan[r] \in known
          /\ \A q \in Requests \ {r} : pc[q] \in Asking => plan[q] # plan[r]
      BY <1>6, SettlesItsOwn
    <3>2. pc[r] \notin Asking
      <4>1. pc[r] \in FreshPlaces
        BY <1>6 DEF Settles, FreshPlaces
      <4> QED BY <4>1 DEF FreshPlaces, Asking
    <3> QED BY <3>1, <3>2 DEF BeforeDecision
  <2> QED BY <1>a, <2>1, <2>3, <2>4
<1> QED BY <1>2, <1>3, <1>4, <1>5, <1>6, Settlements

(* While decisions do not overlap, every step keeps SerialInv. *)
LEMMA SerialStep ==
  LedgerInv /\ DecisionsDoNotOverlap /\ SerialInv /\ [Next]_vars => SerialInv'
<1> SUFFICES ASSUME LedgerInv, DecisionsDoNotOverlap, SerialInv, [Next]_vars
             PROVE  SerialInv'
  OBVIOUS
<1>1. TypeOK /\ Planned /\ Tracked /\ DenyIsFinal /\ DecidedWhenAsked
  BY DEF LedgerInv, IndInv, SafetyInv
<1>2. (SerialInv <=>
         /\ \A p \in Plans : OutcomeAt(p) /\ (BeforeDecision(p) => RunsOf(p) = {})
         /\ \A r \in Requests : FreshAt(r))'
  BY SerialParts, PTL
<1>3. CASE CrashAndRestart
  <2>1. /\ \A p \in Plans : status'[p] = "absent" /\ result'[p] = NoLabel
        /\ \A r \in Requests : pc'[r] = "idle"
        /\ runs' = runs /\ known' = known
    BY <1>3 DEF CrashAndRestart, Die
  <2>2. \A r \in Requests : FreshAt(r)'
    BY <2>1 DEF FreshAt, FreshPlaces
  <2>3. ASSUME NEW p \in Plans
        PROVE  OutcomeAt(p)' /\ ((BeforeDecision(p) => RunsOf(p) = {})')
    <3>1. OutcomeAt(p) /\ (BeforeDecision(p) => RunsOf(p) = {}) /\ RunsOf(p)' = RunsOf(p)
      BY <2>1, SerialParts DEF RunsOf
    <3>2. BeforeDecision(p)' => BeforeDecision(p)
      BY <2>1 DEF BeforeDecision, Asking
    <3>3. Cardinality(RunsOf(p)') <= 1
      BY <3>1 DEF OutcomeAt
    <3> QED BY <2>1, <3>1, <3>2, <3>3 DEF OutcomeAt
  <2> QED BY <1>2, <2>2, <2>3
<1>4. CASE ~CrashAndRestart
  <2>1. \A r \in Requests : FreshAt(r)'
    BY <1>1, <1>4, FreshStep
  <2>2. \A p \in Plans : OutcomeAt(p)' /\ ((BeforeDecision(p) => RunsOf(p) = {})')
    BY <1>1, <1>4, OutcomeStep
  <2> QED BY <1>2, <2>1, <2>2
<1> QED BY <1>3, <1>4

(* SerialInv holds when nothing has happened. *)
LEMMA SerialInit ==
  Init => SerialInv
<1> SUFFICES ASSUME Init
             PROVE  SerialInv
  OBVIOUS
<1>a. DOMAIN << >> = {} /\ Cardinality({}) = 0
  BY FS_EmptySet
<1>1. \A p \in Plans : RunsOf(p) = {} /\ status[p] = "absent" /\ result[p] = NoLabel
  BY <1>a DEF Init, RunsOf
<1>2. \A p \in Plans : OutcomeAt(p)
  <2>1. \A p \in Plans : Cardinality(RunsOf(p)) <= 1
    BY <1>a, <1>1
  <2> QED BY <1>1, <2>1 DEF OutcomeAt
<1>3. \A r \in Requests : FreshAt(r)
  BY DEF Init, FreshAt, FreshPlaces
<1> QED BY <1>1, <1>2, <1>3, SerialParts

LEMMA SerialKept == Spec /\ []DecisionsDoNotOverlap => []SerialInv
BY SerialInit, SerialStep, LedgerKept, PTL DEF Spec

(***************************************************************************)
(* A plan runs at most once, however many requests there are, over failed  *)
(* appends, relabellings and crashes, as long as no two of them are        *)
(* deciding on the same plan at a time: the overlap of two decisions,      *)
(* which approve and reject do not exclude (they await the form after they *)
(* look at the status), is the only thing that makes it run again.         *)
(***************************************************************************)
THEOREM RunsOnce == Spec /\ []DecisionsDoNotOverlap => []RunsAtMostOnce
BY SerialKept, PTL DEF SerialInv

(***************************************************************************)
(* Under the same condition a plan's page tells what became of it: its     *)
(* status, its result and its runs agree.                                  *)
(***************************************************************************)
THEOREM StatusTells == Spec /\ []DecisionsDoNotOverlap => []StatusTellsOutcome
BY SerialKept, PTL DEF SerialInv

-----------------------------------------------------------------------------
(***************************************************************************)
(* How a handler with the loop comes to its end.                           *)
(***************************************************************************)
(* Whoever has the loop has steps left, and not many. *)
LEMMA LeftIsBounded ==
  TypeOK => \A r \in Requests : busy = r => StepsLeft(r) \in 1 .. MaxAttempts + 4
<1> SUFFICES ASSUME TypeOK, NEW r \in Requests
             PROVE  StepsLeft(r) \in 1 .. MaxAttempts + 4
  OBVIOUS
<1>1. /\ MaxAttempts \in Nat \ {0} /\ todo[r] \in 0 .. MaxAttempts
      /\ pc[r] \in {"planned", "validation"} => todo[r] > 0
  BY NumbersAreNatural DEF TypeOK, HandlersOK
<1> QED BY <1>1 DEF StepsLeft

(* r gives the loop back, or keeps it and has fewer steps left. *)
Nearer(r) == busy' = NoOne \/ (busy' = r /\ StepsLeft(r)' < StepsLeft(r))

(* What a handler that goes to a place, or ends, has left depends on that place only, or on todo. *)
LEMMA GoesTo ==
  ASSUME HandlersOK, NEW r \in Requests, NEW from, NEW to, At(r, from),
         Goto(r, to) \/ Return(r)
  PROVE  \/ busy' = NoOne
         \/ busy' = r /\ pc[r] = from /\ pc'[r] = to
BY DEF HandlersOK, At, Goto, Return

LEMMA LogsLastEnds ==
  ASSUME NEW r, NEW from, LogsLast(r, from)
  PROVE  busy' = NoOne
BY DEF LogsLast, Return

LEMMA AskNearer ==
  ASSUME TypeOK, NEW r \in Requests, Ask(r)
  PROVE  Nearer(r)
<1>a. /\ HandlersOK /\ MaxAttempts \in Nat \ {0} /\ todo[r] \in 0 .. MaxAttempts
      /\ pc[r] \in {"planned", "validation"} => todo[r] > 0
  BY NumbersAreNatural DEF TypeOK, HandlersOK
<1>1. CASE LogQuestion(r)
  <2>1. busy' = NoOne \/ (busy' = r /\ pc[r] = "question" /\ pc'[r] = "schema")
    BY <1>1, <1>a, GoesTo DEF LogQuestion, LogsBetween
  <2> QED BY <1>a, <2>1 DEF Nearer, StepsLeft
<1>2. CASE AskNoSchema(r)
  BY <1>2 DEF AskNoSchema, Return, Nearer
<1>3. CASE AskNoPlan(r)
  <2>1. PICK to : to = "no plan"
    OBVIOUS
  <2>2. to \notin {"question", "schema", "planned", "validation", "approved", "charge", "run", "guard"}
    BY <2>1
  <2>3. busy' = NoOne \/ (busy' = r /\ pc[r] = "schema" /\ pc'[r] = to)
    BY <1>3, <1>a, <2>1, GoesTo DEF AskNoPlan
  <2>4. pc[r] = "schema" => StepsLeft(r) = MaxAttempts + 3
    BY DEF StepsLeft
  <2>5. pc'[r] = to => StepsLeft(r)' = 1
    BY <2>2 DEF StepsLeft
  <2> QED BY <1>a, <2>3, <2>4, <2>5 DEF Nearer
<1>4. CASE LogNoPlan(r)
  BY <1>4, LogsLastEnds DEF LogNoPlan, Nearer
<1>5. CASE AskPlanned(r)
  <2>1. busy' = NoOne \/ (busy' = r /\ pc[r] = "schema" /\ pc'[r] = "planned")
    BY <1>5, <1>a, GoesTo DEF AskPlanned
  <2>2. todo'[r] \in 1 .. MaxAttempts
    BY <1>5, <1>a DEF AskPlanned, HandlersOK
  <2> QED BY <1>a, <2>1, <2>2 DEF Nearer, StepsLeft
<1>6. CASE LogPlanned(r)
  <2>1. busy' = NoOne \/ (busy' = r /\ pc[r] = "planned" /\ pc'[r] = "validation")
    BY <1>6, <1>a, GoesTo DEF LogPlanned, LogsBetween
  <2>2. busy' = NoOne \/ todo' = todo
    BY <1>6 DEF LogPlanned, LogsBetween, Return
  <2> QED BY <1>a, <2>1, <2>2 DEF Nearer, StepsLeft
<1>7. CASE LogValidation(r)
  <2>1. PICK to : to = IF todo[r] = 1 THEN "policy" ELSE "validation"
    OBVIOUS
  <2>2. busy' = NoOne \/ (busy' = r /\ pc[r] = "validation" /\ pc'[r] = to)
    BY <1>7, <1>a, <2>1, GoesTo DEF LogValidation
  <2>3. busy' = NoOne \/ todo'[r] = todo[r] - 1
    BY <1>7, <1>a DEF LogValidation, Return, HandlersOK
  <2> QED BY <1>a, <2>1, <2>2, <2>3 DEF Nearer, StepsLeft
<1>8. CASE LogPolicy(r)
  BY <1>8 DEF LogPolicy, Return, Nearer
<1> QED BY <1>1, <1>2, <1>3, <1>4, <1>5, <1>6, <1>7, <1>8 DEF Ask

LEMMA ApproveNearer ==
  ASSUME TypeOK, NEW r \in Requests, Approve(r)
  PROVE  Nearer(r)
<1>a. HandlersOK
  BY DEF TypeOK
<1>1. CASE LogApproval(r)
  <2>1. busy' = NoOne \/ (busy' = r /\ pc[r] = "approved" /\ pc'[r] = "charge")
    BY <1>1, <1>a, GoesTo DEF LogApproval
  <2> QED BY <2>1 DEF Nearer, StepsLeft
<1>2. CASE Charge(r)
  <2>1. PICK to : to = IF ChargeOf(r).ok THEN "run" ELSE "over budget"
    OBVIOUS
  <2>2. to = "run"
          \/ to \notin {"question", "schema", "planned", "validation", "approved", "charge", "run", "guard"}
    BY <2>1
  <2>3. busy' = NoOne \/ (busy' = r /\ pc[r] = "charge" /\ pc'[r] = to)
    BY <1>2, <1>a, <2>1, GoesTo DEF Charge
  <2>4. pc[r] = "charge" => StepsLeft(r) = 4
    BY DEF StepsLeft
  <2>5. pc'[r] = to => StepsLeft(r)' \in {1, 3}
    BY <2>2 DEF StepsLeft
  <2> QED BY <2>3, <2>4, <2>5 DEF Nearer
<1>3. CASE LogOverBudget(r)
  BY <1>3, LogsLastEnds DEF LogOverBudget, Nearer
<1>4. CASE RunSucceeds(r)
  <2>1. busy' = NoOne \/ (busy' = r /\ pc[r] = "run" /\ pc'[r] = "guard")
    BY <1>4, <1>a, GoesTo DEF RunSucceeds
  <2> QED BY <2>1 DEF Nearer, StepsLeft
<1>5. CASE RunFails(r)
  <2>1. PICK to : to = "run failed"
    OBVIOUS
  <2>2. to \notin {"question", "schema", "planned", "validation", "approved", "charge", "run", "guard"}
    BY <2>1
  <2>3. busy' = NoOne \/ (busy' = r /\ pc[r] = "run" /\ pc'[r] = to)
    BY <1>5, <1>a, <2>1, GoesTo DEF RunFails
  <2>4. pc[r] = "run" => StepsLeft(r) = 3
    BY DEF StepsLeft
  <2>5. pc'[r] = to => StepsLeft(r)' = 1
    BY <2>2 DEF StepsLeft
  <2> QED BY <2>3, <2>4, <2>5 DEF Nearer
<1>6. CASE LogRunFailed(r)
  BY <1>6, LogsLastEnds DEF LogRunFailed, Nearer
<1>7. CASE LogGuard(r)
  <2>1. busy' = NoOne \/ (busy' = r /\ pc[r] = "guard" /\ pc'[r] = "digest")
    BY <1>7, <1>a, GoesTo DEF LogGuard, LogsBetween
  <2> QED BY <2>1 DEF Nearer, StepsLeft
<1>8. CASE LogDigest(r)
  BY <1>8, LogsLastEnds DEF LogDigest, Nearer
<1> QED BY <1>1, <1>2, <1>3, <1>4, <1>5, <1>6, <1>7, <1>8 DEF Approve

(* Nobody else does anything while r has the loop, but for the source and a crash. *)
LEMMA NearerStep ==
  ASSUME TypeOK, Next, NEW r \in Requests, busy = r, source' = source
  PROVE  Nearer(r)
<1>a. r # NoOne
  BY NamesAreReal
<1>1. ASSUME NEW q \in Requests, Client(q)
      PROVE  FALSE
  BY <1>1, <1>a DEF Client, AskReceived, AskEmpty, ApproveArrives, RejectArrives, Arrives, Refuse,
       ApproveResumes, RejectResumes, FormLost
<1>2. ASSUME NEW q \in Requests, Continue(q)
      PROVE  q = r
  <2>1. busy = q
    BY <1>2 DEF Continue, Ask, Approve, LogQuestion, AskNoSchema, AskNoPlan, LogNoPlan, AskPlanned,
         LogPlanned, LogValidation, LogPolicy, LogApproval, Charge, LogOverBudget, RunSucceeds,
         RunFails, LogRunFailed, LogGuard, LogDigest, LogReject, LogsBetween, LogsLast, At
  <2> QED BY <2>1
<1>3. CASE Continue(r)
  <2>1. LogReject(r) => busy' = NoOne
    BY LogsLastEnds DEF LogReject
  <2> QED BY <1>3, <2>1, AskNearer, ApproveNearer DEF Continue, Nearer
<1>4. CASE Relabel
  BY <1>4 DEF Relabel
<1>5. CASE CrashAndRestart
  BY <1>5 DEF CrashAndRestart, Die, Nearer
<1> QED BY <1>1, <1>2, <1>3, <1>4, <1>5 DEF Next

(***************************************************************************)
(* A handler gives the loop back after at most MaxAttempts + 4 of its own  *)
(* steps, whoever else has been asking, whatever raises and whatever the   *)
(* source does meanwhile: each step leaves it fewer, and one is left as    *)
(* long as it has the loop.  That it takes them is fairness (main.py's     *)
(* handlers; what is bounded by MaxAttempts is the lines of ask's trace).   *)
(***************************************************************************)
THEOREM LoopIsGivenBack ==
  Spec => /\ [](\A r \in Requests : busy = r => StepsLeft(r) \in 1 .. MaxAttempts + 4)
          /\ GetsOn
<1>1. TypeOK /\ [Next]_vars =>
        [ \A r \in Requests : busy = r /\ source' = source =>
            busy' = NoOne \/ (busy' = r /\ StepsLeft(r)' < StepsLeft(r)) ]_vars
  BY NearerStep DEF Nearer
<1> QED BY <1>1, LeftIsBounded, TypeCorrect, PTL DEF Spec, GetsOn

=============================================================================
