------------------------------ MODULE Gateway ------------------------------
(***************************************************************************)
(* The approval loop of api/main.py: a question becomes a labelled plan,   *)
(* the policy allows or denies it, a human approves or rejects it, and     *)
(* only then does it run against the data source; each stage is written to *)
(* the audit log.                                                          *)
(*                                                                         *)
(* The handlers are coroutines of one event loop.  A handler gives the     *)
(* loop up in one place only, when it awaits the request's form; between   *)
(* two awaits it has the loop to itself (busy).  Each handler is a         *)
(* sequence of steps here because other things do happen between them: the *)
(* process may die, an append to the audit log may raise (the exception    *)
(* leaves the handler: a 500), and the data source is relabelled by people *)
(* who do not ask the program.                                             *)
(*                                                                         *)
(* A request is a slot: whoever uses it sends one request at a time.  Its  *)
(* name stands for the approver's name.                                    *)
(***************************************************************************)
EXTENDS Policy, Guards

CONSTANTS
  Plans,          \* plan ids; assemble_plan never gives one out twice
  Requests,       \* concurrent requests
  Sessions,       \* session ids a cookie, or a fresh uuid, can name
  Programs,       \* the validated step sequences the planner can return
  Sources,        \* the annotated catalogues the data source can have
  Clearance,      \* FONDACO_EGRESS_CLEARANCE, any string
  QueryLimit,     \* FONDACO_QUERY_BUDGET, as parsed
  MaxAttempts,    \* planner attempts, the repair round included
  MaxFaults,      \* bound: audit appends that raise
  MaxLives,       \* bound: lives of the process (crashes + 1)
  MaxRelabels     \* bound: changes of the source's annotations

NoPlan == "no plan"
NoOne == "no one"
NoLabel == "no label"
NoSession == "no session"

Limit == BudgetLimitOf(QueryLimit)

ASSUME NamesAreReal ==
  NoPlan \notin Plans /\ NoOne \notin Requests /\ NoSession \notin Sessions

ASSUME NumbersAreNatural == QueryLimit \in Int /\ MaxAttempts \in Nat \ {0}

(* A validated plan has at least one step, and what a query reads is a list of names. *)
ASSUME ProgramsAreSequences ==
  \A steps \in Programs :
    /\ Len(steps) \in Nat \ {0}
    /\ DOMAIN steps = 1 .. Len(steps)
    /\ \A i \in DOMAIN steps :
         steps[i].type = "query" => steps[i].template.refs \in Seq(STRING)

VARIABLES
  (* PlanRecord, by plan id; status "absent" where plans has no such key. *)
  program,    \* the plan's steps
  decision,   \* the policy's decision
  status,
  result,     \* the label of the stored result, or NoLabel
  approver,
  (* The coroutines. *)
  busy,       \* the request that has the event loop, or NoOne
  pc,         \* where each request's handler stands
  plan,       \* the plan it works on
  todo,       \* validation results it still has to log
  sid,        \* the session it charges
  (* The rest of the process, and what outlives it. *)
  used,       \* QueryBudget._used
  log,        \* the lines of the audit log, oldest first
  source,     \* the annotations of the data source
  (* Observation only: no action's guard reads these, bounds apart. *)
  runs,       \* the executions so far
  known,      \* plan ids given out so far
  asked,      \* relabels seen when the plan's schema was read
  relabels, faults, life

records == << program, decision, status, result, approver >>
handlers == << busy, pc, plan, todo, sid >>
ghosts == << known, asked, relabels, faults, life >>

vars == << program, decision, status, result, approver,
           busy, pc, plan, todo, sid, used, log, source,
           runs, known, asked, relabels, faults, life >>

Statuses == {"absent", "pending", "denied", "executed", "rejected", "failed"}

(* The states of a handler; the first three do not hold the loop. *)
Waiting == {"idle", "approve form", "reject form"}
Asking == {"question", "schema", "no plan", "planned", "validation", "policy"}
Approving == {"approved", "charge", "over budget", "run", "run failed", "guard", "digest"}
Rejecting == {"rejected"}
Running == Asking \cup Approving \cup Rejecting

(* The states of a handler that is about to append a line. *)
Logging ==
  {"question", "no plan", "planned", "validation", "policy", "approved", "over budget",
   "run failed", "guard", "digest", "rejected"}

(* The states of a handler that has found its plan pending. *)
Deciding == {"approve form", "reject form"} \cup Approving \cup Rejecting

QuerySteps(steps) == { i \in DOMAIN steps : steps[i].type = "query" }

NQueries(steps) == Cardinality(QuerySteps(steps))

(* The labels of the source as the policy and the executor read them. *)
Schema == SchemaLabels(ReadSchema(source))

(* Mutant of Entry: the approver is not written down. *)
EntryAnonymous(event, p, value, by, n) ==
  [event |-> event, plan |-> p, value |-> value, by |-> NoOne, n |-> n]

(* What a line says; n is the number of attempts, or of queries used. *)
Entry(event, p, value, by, n) ==
  [event |-> event, plan |-> p, value |-> value, by |-> by, n |-> n]

(* The line that a handler appends where it stands. *)
Line(r) ==
  LET p == plan[r] IN
  CASE pc[r] = "question"    -> Entry("question_received", NoPlan, "", NoOne, 0)
    [] pc[r] = "no plan"     -> Entry("plan_generated", NoPlan, "failure", NoOne, 0)
    [] pc[r] = "planned"     -> Entry("plan_generated", p, "success", NoOne, todo[r])
    [] pc[r] = "validation"  -> Entry("validation_result", p,
                                      IF todo[r] = 1 THEN "valid" ELSE "invalid", NoOne, 0)
    [] pc[r] = "policy"      -> Entry("policy_decision", p,
                                      IF decision[p].allow THEN "allow" ELSE "deny", NoOne, 0)
    [] pc[r] = "approved"    -> Entry("approval", p, "approve", r, 0)
    [] pc[r] = "rejected"    -> Entry("approval", p, "reject", r, 0)
    [] pc[r] = "over budget" -> Entry("guard_decision", p, "query_budget", NoOne, used[sid[r]])
    [] pc[r] = "run failed"  -> Entry("execution_digest", p, "failure", NoOne, 0)
    [] pc[r] = "guard"       -> Entry("guard_decision", p, "k_threshold", NoOne, used[sid[r]])
    [] pc[r] = "digest"      -> Entry("execution_digest", p, "success", NoOne, 0)

-----------------------------------------------------------------------------
Init ==
  /\ program = [p \in Plans |-> << >>]
  /\ decision = [p \in Plans |-> Deny("none")]
  /\ status = [p \in Plans |-> "absent"]
  /\ result = [p \in Plans |-> NoLabel]
  /\ approver = [p \in Plans |-> NoOne]
  /\ busy = NoOne
  /\ pc = [r \in Requests |-> "idle"]
  /\ plan = [r \in Requests |-> NoPlan]
  /\ todo = [r \in Requests |-> 0]
  /\ sid = [r \in Requests |-> NoSession]
  /\ used = [s \in Sessions |-> 0]
  /\ log = << >>
  /\ source \in Sources
  /\ runs = << >>
  /\ known = {}
  /\ asked = [p \in Plans |-> 0]
  /\ relabels = 0
  /\ faults = 0
  /\ life = 1

(***************************************************************************)
(* The building blocks of a handler's step.                                *)
(***************************************************************************)
At(r, label) == busy = r /\ pc[r] = label

Goto(r, label) ==
  /\ pc' = [pc EXCEPT ![r] = label]
  /\ UNCHANGED << busy, plan, sid >>

(* Mutant of Return: the loop is not given back. *)
ReturnHolding(r) ==
  /\ pc' = [pc EXCEPT ![r] = "idle"]
  /\ UNCHANGED << busy, plan, todo, sid >>

(* The handler ends, with a response or with an exception. *)
Return(r) ==
  /\ pc' = [pc EXCEPT ![r] = "idle"]
  /\ plan' = [plan EXCEPT ![r] = NoPlan]
  /\ todo' = [todo EXCEPT ![r] = 0]
  /\ sid' = [sid EXCEPT ![r] = NoSession]
  /\ busy' = NoOne

(* audit.append returned: the line is in the file and synced. *)
Logged(entry) == log' = Append(log, entry) /\ UNCHANGED faults

(* audit.append raised: before the write, or after it (a failed sync). *)
AppendRaised(entry) ==
  /\ faults < MaxFaults
  /\ faults' = faults + 1
  /\ log' \in {log, Append(log, entry)}

(* A line is logged on the way from one place to the next; an append that raises ends it. *)
LogsBetween(r, from, to) ==
  /\ At(r, from)
  /\ \/ Logged(Line(r)) /\ Goto(r, to) /\ UNCHANGED todo
     \/ AppendRaised(Line(r)) /\ Return(r)
  /\ UNCHANGED << records, used, source, runs, known, asked, relabels, life >>

(* A line is the last thing a handler does. *)
LogsLast(r, from) ==
  /\ At(r, from)
  /\ Logged(Line(r)) \/ AppendRaised(Line(r))
  /\ Return(r)
  /\ UNCHANGED << records, used, source, runs, known, asked, relabels, life >>

-----------------------------------------------------------------------------
(***************************************************************************)
(* POST /ask.  Everything after the form is one stretch of the event loop, *)
(* the planner's HTTP calls included: they are synchronous.                *)
(* The id assemble_plan will give the plan is picked with the question, so *)
(* the ids bound the questions.                                            *)
(***************************************************************************)
AskReceived(r, p) ==
  /\ busy = NoOne
  /\ pc[r] = "idle"
  /\ p \notin known
  /\ known' = known \cup {p}
  /\ plan' = [plan EXCEPT ![r] = p]
  /\ pc' = [pc EXCEPT ![r] = "question"]
  /\ busy' = r
  /\ UNCHANGED << records, todo, sid, used, log, source, runs, asked, relabels, faults, life >>

(* An empty question is sent back, and a body that cannot be read raises: no trace of either. *)
AskEmpty(r) ==
  /\ busy = NoOne
  /\ pc[r] = "idle"
  /\ UNCHANGED vars

LogQuestion(r) == LogsBetween(r, "question", "schema")

(* The schema cannot be read, or the planner raises what ask does not catch: a 500. *)
AskNoSchema(r) ==
  /\ At(r, "schema")
  /\ Return(r)
  /\ UNCHANGED << records, used, log, source, runs, ghosts >>

(* The planner gives up: unreachable, malformed or out of attempts. *)
AskNoPlan(r) ==
  /\ At(r, "schema")
  /\ Goto(r, "no plan")
  /\ UNCHANGED << records, todo, used, log, source, runs, ghosts >>

LogNoPlan(r) == LogsLast(r, "no plan")

(***************************************************************************)
(* The schema is read and the planner returns a validated plan, with a     *)
(* trace of its attempts, the last of them valid.  The schema is not read  *)
(* again in this handler, so what evaluate will say of the plan is settled *)
(* here; the record itself appears with its status, in LogPolicy.          *)
(***************************************************************************)
AskPlanned(r) ==
  LET p == plan[r] IN
  /\ At(r, "schema")
  /\ \E steps \in Programs, n \in 1 .. MaxAttempts :
       /\ todo' = [todo EXCEPT ![r] = n]
       /\ program' = [program EXCEPT ![p] = steps]
       /\ decision' = [decision EXCEPT ![p] = Evaluate(steps, Schema, Clearance)]
  /\ asked' = [asked EXCEPT ![p] = relabels]
  /\ Goto(r, "planned")
  /\ UNCHANGED << status, result, approver, used, log, source, runs, known,
                  relabels, faults, life >>

LogPlanned(r) == LogsBetween(r, "planned", "validation")

(* Mutant of LogValidation: an append that raises is swallowed. *)
LogValidationBestEffort(r) ==
  /\ At(r, "validation")
  /\ Logged(Line(r)) \/ AppendRaised(Line(r))
  /\ todo' = [todo EXCEPT ![r] = @ - 1]
  /\ Goto(r, IF todo[r] = 1 THEN "policy" ELSE "validation")
  /\ UNCHANGED << records, used, source, runs, known, asked, relabels, life >>

(* One line for each attempt; only the last one, todo = 1, was valid. *)
LogValidation(r) ==
  /\ At(r, "validation")
  /\ \/ /\ Logged(Line(r))
        /\ todo' = [todo EXCEPT ![r] = @ - 1]
        /\ Goto(r, IF todo[r] = 1 THEN "policy" ELSE "validation")
     \/ AppendRaised(Line(r)) /\ Return(r)
  /\ UNCHANGED << records, used, source, runs, known, asked, relabels, life >>

StatusOf(allow) == IF allow THEN "pending" ELSE "denied"

(* Mutant of LogPolicy: the record is made whether its decision is logged or not. *)
LogPolicyLast(r) ==
  LET p == plan[r] IN
  /\ At(r, "policy")
  /\ Logged(Line(r)) \/ AppendRaised(Line(r))
  /\ status' = [status EXCEPT ![p] = StatusOf(decision[p].allow)]
  /\ Return(r)
  /\ UNCHANGED << program, decision, result, approver, used, source, runs,
                  known, asked, relabels, life >>

(* The decision is logged first; only a logged plan gets a record. *)
LogPolicy(r) ==
  LET p == plan[r] IN
  /\ At(r, "policy")
  /\ \/ Logged(Line(r)) /\ status' = [status EXCEPT ![p] = StatusOf(decision[p].allow)]
     \/ AppendRaised(Line(r)) /\ UNCHANGED status
  /\ Return(r)
  /\ UNCHANGED << program, decision, result, approver, used, source, runs,
                  known, asked, relabels, life >>

-----------------------------------------------------------------------------
(***************************************************************************)
(* POST /plans/{id}/approve and /reject.  Both look at the status, then    *)
(* await the form, and do not look at the status again.                    *)
(***************************************************************************)
(* Mutant of Arrives: any plan with a record will do, whatever its status. *)
ArrivesUnchecked(r, p, form) ==
  /\ busy = NoOne
  /\ pc[r] = "idle"
  /\ status[p] # "absent"
  /\ plan' = [plan EXCEPT ![r] = p]
  /\ pc' = [pc EXCEPT ![r] = form]
  /\ UNCHANGED << records, busy, todo, sid, used, log, source, runs, ghosts >>

Arrives(r, p, form) ==
  /\ busy = NoOne
  /\ pc[r] = "idle"
  /\ status[p] = "pending"
  /\ plan' = [plan EXCEPT ![r] = p]
  /\ pc' = [pc EXCEPT ![r] = form]
  /\ UNCHANGED << records, busy, todo, sid, used, log, source, runs, ghosts >>

ApproveArrives(r, p) == Arrives(r, p, "approve form")

RejectArrives(r, p) == Arrives(r, p, "reject form")

(* 404 for an unknown plan, 409 for one that is not pending. *)
Refuse(r, p) ==
  /\ busy = NoOne
  /\ pc[r] = "idle"
  /\ status[p] # "pending"
  /\ UNCHANGED vars

(* The form never comes or cannot be parsed: the handler ends before acting. *)
FormLost(r) ==
  /\ busy = NoOne
  /\ pc[r] \in {"approve form", "reject form"}
  /\ Return(r)
  /\ UNCHANGED << records, used, log, source, runs, ghosts >>

(* The form is in, and the cookie names the session. *)
ApproveResumes(r) ==
  /\ busy = NoOne
  /\ pc[r] = "approve form"
  /\ \E s \in Sessions : sid' = [sid EXCEPT ![r] = s]
  /\ busy' = r
  /\ pc' = [pc EXCEPT ![r] = "approved"]
  /\ UNCHANGED << records, plan, todo, used, log, source, runs, ghosts >>

(* Mutant of LogApproval: an append that raises is swallowed. *)
LogApprovalBestEffort(r) ==
  /\ At(r, "approved")
  /\ Logged(Line(r)) \/ AppendRaised(Line(r))
  /\ approver' = [approver EXCEPT ![plan[r]] = r]
  /\ Goto(r, "charge")
  /\ UNCHANGED << program, decision, status, result, todo, used, source, runs,
                  known, asked, relabels, life >>

(* The approval is logged before anything else is done. *)
LogApproval(r) ==
  /\ At(r, "approved")
  /\ \/ /\ Logged(Line(r))
        /\ approver' = [approver EXCEPT ![plan[r]] = r]
        /\ Goto(r, "charge")
        /\ UNCHANGED todo
     \/ AppendRaised(Line(r)) /\ Return(r) /\ UNCHANGED approver
  /\ UNCHANGED << program, decision, status, result, used, source, runs,
                  known, asked, relabels, life >>

ChargeOf(r) == Consume(used[sid[r]], NQueries(program[plan[r]]), Limit)

(* Mutant of Charge: over budget, the handler waits for room holding the loop. *)
ChargeOrWait(r) ==
  /\ At(r, "charge")
  /\ used' = [used EXCEPT ![sid[r]] = ChargeOf(r).used]
  /\ Goto(r, IF ChargeOf(r).ok THEN "run" ELSE "charge")
  /\ UNCHANGED << records, todo, log, source, runs, ghosts >>

(* Mutant of Charge: a plan that is refused stays as it is. *)
ChargeSilently(r) ==
  /\ At(r, "charge")
  /\ used' = [used EXCEPT ![sid[r]] = ChargeOf(r).used]
  /\ Goto(r, IF ChargeOf(r).ok THEN "run" ELSE "over budget")
  /\ UNCHANGED << records, todo, log, source, runs, ghosts >>

(* The budget is charged before the plan runs, for all its queries or none. *)
Charge(r) ==
  /\ At(r, "charge")
  /\ used' = [used EXCEPT ![sid[r]] = ChargeOf(r).used]
  /\ IF ChargeOf(r).ok
     THEN Goto(r, "run") /\ UNCHANGED status
     ELSE Goto(r, "over budget") /\ status' = [status EXCEPT ![plan[r]] = "failed"]
  /\ UNCHANGED << program, decision, result, approver, todo, log, source, runs,
                  ghosts >>

LogOverBudget(r) == LogsLast(r, "over budget")

(* The label a plan's result carries: the executor's, from today's source. *)
ResultLabel(steps, schema) == NameOf(StepLabels(steps, schema)[Len(steps)])

RunOf(r, label) ==
  [ plan |-> plan[r], by |-> r, session |-> sid[r], label |-> label,
    at |-> Len(log), life |-> life, relabels |-> relabels ]

RunSucceeds(r) ==
  LET p     == plan[r]
      label == ResultLabel(program[p], Schema) IN
  /\ At(r, "run")
  /\ status' = [status EXCEPT ![p] = "executed"]
  /\ result' = [result EXCEPT ![p] = label]
  /\ runs' = Append(runs, RunOf(r, label))
  /\ Goto(r, "guard")
  /\ UNCHANGED << program, decision, approver, todo, used, log, source, ghosts >>

(* Mutant of RunFails: a failed run is tried again. *)
RunFailsAndRetries(r) ==
  /\ At(r, "run")
  /\ runs' = Append(runs, RunOf(r, NoLabel))
  /\ UNCHANGED << records, handlers, used, log, source, ghosts >>

(* Any ExecutorError: the source may have been read, but nothing comes back. *)
RunFails(r) ==
  /\ At(r, "run")
  /\ status' = [status EXCEPT ![plan[r]] = "failed"]
  /\ runs' = Append(runs, RunOf(r, NoLabel))
  /\ Goto(r, "run failed")
  /\ UNCHANGED << program, decision, result, approver, todo, used, log, source,
                  ghosts >>

(* Mutant of LogRunFailed: a failed run leaves no digest. *)
ForgetRunFailed(r) ==
  /\ At(r, "run failed")
  /\ Return(r)
  /\ UNCHANGED << records, used, log, source, runs, ghosts >>

LogRunFailed(r) == LogsLast(r, "run failed")

(* Mutant of LogGuard: the handler is done once the guard is logged. *)
LogGuardOnly(r) == LogsLast(r, "guard")

LogGuard(r) == LogsBetween(r, "guard", "digest")

(* Mutant of LogDigest: the handler is not done once the digest is logged. *)
LogDigestAgain(r) == LogsBetween(r, "digest", "digest")

LogDigest(r) == LogsLast(r, "digest")

(* A rejection changes the record before the log. *)
RejectResumes(r) ==
  /\ busy = NoOne
  /\ pc[r] = "reject form"
  /\ status' = [status EXCEPT ![plan[r]] = "rejected"]
  /\ approver' = [approver EXCEPT ![plan[r]] = r]
  /\ busy' = r
  /\ pc' = [pc EXCEPT ![r] = "rejected"]
  /\ UNCHANGED << program, decision, result, plan, todo, sid, used, log, source,
                  runs, ghosts >>

LogReject(r) == LogsLast(r, "rejected")

-----------------------------------------------------------------------------
(* Somebody edits the comments of the data source. *)
Relabel ==
  /\ relabels < MaxRelabels
  /\ relabels' = relabels + 1
  /\ source' \in Sources \ {source}
  /\ UNCHANGED << records, handlers, used, log, runs, known, asked, faults, life >>

(* The process dies with all it has in memory: plans, budgets and handlers. *)
Die ==
  /\ life < MaxLives
  /\ life' = life + 1
  /\ program' = [p \in Plans |-> << >>]
  /\ decision' = [p \in Plans |-> Deny("none")]
  /\ status' = [p \in Plans |-> "absent"]
  /\ result' = [p \in Plans |-> NoLabel]
  /\ approver' = [p \in Plans |-> NoOne]
  /\ busy' = NoOne
  /\ pc' = [r \in Requests |-> "idle"]
  /\ plan' = [r \in Requests |-> NoPlan]
  /\ todo' = [r \in Requests |-> 0]
  /\ sid' = [r \in Requests |-> NoSession]
  /\ used' = [s \in Sessions |-> 0]
  /\ UNCHANGED << source, runs, known, asked, relabels, faults >>

(***************************************************************************)
(* The process dies and a new one starts: the audit log is on disk.  (That *)
(* the line being written may be torn, and that a log that does not verify *)
(* stops the new process, is in Service.)                                  *)
(***************************************************************************)
CrashAndRestart == Die /\ UNCHANGED log

-----------------------------------------------------------------------------
Ask(r) ==
  \/ LogQuestion(r) \/ AskNoSchema(r) \/ AskNoPlan(r) \/ LogNoPlan(r) \/ AskPlanned(r)
  \/ LogPlanned(r) \/ LogValidation(r) \/ LogPolicy(r)

Approve(r) ==
  \/ LogApproval(r) \/ Charge(r) \/ LogOverBudget(r) \/ RunSucceeds(r) \/ RunFails(r)
  \/ LogRunFailed(r) \/ LogGuard(r) \/ LogDigest(r)

(* A step of the handler that has the loop. *)
Continue(r) == Ask(r) \/ Approve(r) \/ LogReject(r)

(* A step that depends on a client. *)
Client(r) ==
  \/ \E p \in Plans : AskReceived(r, p) \/ ApproveArrives(r, p)
                      \/ RejectArrives(r, p) \/ Refuse(r, p)
  \/ AskEmpty(r) \/ ApproveResumes(r) \/ RejectResumes(r) \/ FormLost(r)

Next ==
  \/ \E r \in Requests : Client(r) \/ Continue(r)
  \/ Relabel
  \/ CrashAndRestart

Spec == Init /\ [][Next]_vars

(***************************************************************************)
(* A handler with the loop always gets on: what it waits for inside a step *)
(* is bounded by a timeout (60 s for the planner, 10 s to connect and 30 s *)
(* per statement for the source).  Nothing is assumed of clients.          *)
(***************************************************************************)
LiveSpec == Spec /\ \A r \in Requests : WF_vars(Continue(r))

-----------------------------------------------------------------------------
(***************************************************************************)
(*                               Properties                                *)
(***************************************************************************)
Decisions ==
  {Deny("none")} \cup
  { Evaluate(steps, SchemaLabels(ReadSchema(src)), Clearance)
      : steps \in Programs, src \in Sources }

ResultLabels ==
  { ResultLabel(steps, SchemaLabels(ReadSchema(src)))
      : steps \in Programs, src \in Sources }

EntryType ==
  [ event : {"question_received", "plan_generated", "validation_result",
             "policy_decision", "approval", "guard_decision", "execution_digest"},
    plan  : Plans \cup {NoPlan},
    value : {"", "success", "failure", "valid", "invalid", "allow", "deny", "approve",
             "reject", "query_budget", "k_threshold"},
    by    : Requests \cup {NoOne},
    n     : Nat ]

RunType ==
  [ plan : Plans, by : Requests, session : Sessions,
    label : ResultLabels \cup {NoLabel}, at : Nat, life : Nat, relabels : Nat ]

RecordsOK ==
  /\ program \in [Plans -> Programs \cup {<< >>}]
  /\ decision \in [Plans -> Decisions]
  /\ status \in [Plans -> Statuses]
  /\ result \in [Plans -> ResultLabels \cup {NoLabel}]
  /\ approver \in [Plans -> Requests \cup {NoOne}]

(* A working request has its locals, and only one past its form has the loop. *)
HandlersOK ==
  /\ busy \in Requests \cup {NoOne}
  /\ pc \in [Requests -> Waiting \cup Running]
  /\ plan \in [Requests -> Plans \cup {NoPlan}]
  /\ todo \in [Requests -> 0 .. MaxAttempts]
  /\ sid \in [Requests -> Sessions \cup {NoSession}]
  /\ \A r \in Requests :
       /\ pc[r] # "idle" => plan[r] \in Plans
       /\ pc[r] \in Approving => sid[r] \in Sessions
       /\ pc[r] \in {"planned", "validation"} => todo[r] > 0
       /\ pc[r] \in Running <=> busy = r

WorldOK ==
  /\ used \in [Sessions -> 0 .. Limit]
  /\ log \in Seq(EntryType)
  /\ source \in Sources
  /\ runs \in Seq(RunType)
  /\ known \subseteq Plans
  /\ asked \in [Plans -> Nat]
  /\ relabels \in Nat
  /\ faults \in Nat
  /\ life \in Nat

(* Every variable has its type, and the budget never exceeds its limit. *)
TypeOK == RecordsOK /\ HandlersOK /\ WorldOK

(* The lines of the log with this event and value about plan p. *)
LinesOf(p, event, value) ==
  { i \in DOMAIN log : log[i].event = event /\ log[i].plan = p /\ log[i].value = value }

RunsOf(p) == { i \in DOMAIN runs : runs[i].plan = p }

(* The policy allowed p, and then r approved it, before line n of the log. *)
Authorised(p, r, n) ==
  \E a, b \in 1 .. n :
    /\ a < b
    /\ b <= Len(log)
    /\ a \in LinesOf(p, "policy_decision", "allow")
    /\ b \in LinesOf(p, "approval", "approve")
    /\ log[b].by = r

(***************************************************************************)
(* Whatever runs was allowed by the policy and then approved by the very   *)
(* request that runs it, and both are in the log before the source is      *)
(* touched: across overlapping requests, failed appends and crashes.       *)
(***************************************************************************)
RunsAreAuthorised ==
  \A i \in DOMAIN runs : Authorised(runs[i].plan, runs[i].by, runs[i].at)

(* The approvals of p by r in the log, and the runs of p by r. *)
ApprovalsOf(p, r) == { i \in LinesOf(p, "approval", "approve") : log[i].by = r }
RunsBy(p, r) == { i \in RunsOf(p) : runs[i].by = r }

(***************************************************************************)
(* One logged approval buys at most one execution: no retry of a request,  *)
(* and no overlap of two, runs a plan on the strength of an approval that  *)
(* has already been used, over failed appends and crashes.                 *)
(***************************************************************************)
OneRunPerApproval ==
  \A p \in Plans, r \in Requests :
    Cardinality(RunsBy(p, r)) <= Cardinality(ApprovalsOf(p, r))

(* The runs of p that came back with a result, and those that did not. *)
Successes(p) == { i \in RunsOf(p) : runs[i].label # NoLabel }
Failures(p) == { i \in RunsOf(p) : runs[i].label = NoLabel }

(***************************************************************************)
(* A digest in the log is of an execution of its own, and says how it      *)
(* ended: executions are never digested twice, nor a failure as a success. *)
(***************************************************************************)
DigestsAreOfRuns ==
  \A p \in Plans :
    /\ Cardinality(LinesOf(p, "execution_digest", "success")) <= Cardinality(Successes(p))
    /\ Cardinality(LinesOf(p, "execution_digest", "failure")) <= Cardinality(Failures(p))

(***************************************************************************)
(* "A policy deny can never be overridden by a human" (main.py, approve):  *)
(* a denied plan keeps its status whatever requests are in flight for it,  *)
(* and nobody is ever its approver.                                        *)
(***************************************************************************)
DenyIsFinal ==
  \A p \in Plans :
    /\ status[p] # "absent" /\ ~decision[p].allow =>
         status[p] = "denied" /\ result[p] = NoLabel /\ approver[p] = NoOne
    /\ status[p] = "denied" => ~decision[p].allow

(***************************************************************************)
(* The trail of a decision is whole and unbroken: the lines before a       *)
(* policy decision are the planner's success, then one validation line per *)
(* attempt of which only the last is valid.  No other request's line gets  *)
(* in between, and a decision never follows an incomplete trail.           *)
(***************************************************************************)
TrailIsUnbroken ==
  \A i \in DOMAIN log : log[i].event = "policy_decision" =>
    \E g \in 2 .. i - 2 :
      /\ g \in LinesOf(log[i].plan, "plan_generated", "success")
      /\ i = g + log[g].n + 1
      /\ log[g - 1].event = "question_received"
      /\ \A v \in g + 1 .. i - 1 :
           v \in LinesOf(log[i].plan, "validation_result",
                        IF v = i - 1 THEN "valid" ELSE "invalid")

(***************************************************************************)
(* Only what the log shows is kept: each record of a plan is of the one    *)
(* decision the log has of it, and says the same.  A question whose append *)
(* raised anywhere, or that ended in an exception of the planner's that    *)
(* ask does not catch, leaves no record that could be approved, and the    *)
(* records in memory are never more than the decisions on disk.            *)
(***************************************************************************)
RecordsAreLogged ==
  \A p \in Plans : status[p] # "absent" =>
    /\ Cardinality(LinesOf(p, "policy_decision",
                           IF status[p] = "denied" THEN "deny" ELSE "allow")) = 1
    /\ LinesOf(p, "policy_decision", IF status[p] = "denied" THEN "allow" ELSE "deny") = {}

ChargedRuns(s) ==
  { i \in DOMAIN runs : runs[i].life = life /\ runs[i].session = s }

(* The query steps that were run for s in this life, and those about to be. *)
Spent(s) == UNION { {i} \X QuerySteps(program[runs[i].plan]) : i \in ChargedRuns(s) }

Reserved(s) ==
  UNION { {r} \X QuerySteps(program[plan[r]]) :
            r \in { q \in Requests : pc[q] = "run" /\ sid[q] = s } }

(***************************************************************************)
(* A session's count is exactly the queries of the plans it ran in this    *)
(* life of the process, plus those of the one it is about to run: the      *)
(* charge comes first, a refused plan costs nothing, and the count is      *)
(* within the limit.                                                       *)
(***************************************************************************)
BudgetIsExact ==
  \A s \in Sessions :
    /\ used[s] <= Limit
    /\ used[s] = Cardinality(Spent(s)) + Cardinality(Reserved(s))

(***************************************************************************)
(* A result above the clearance was cleared under older annotations: as    *)
(* long as nobody relabels the source between the question and the run,    *)
(* what is shown is what the policy cleared.                               *)
(***************************************************************************)
ClearedUnlessRelabelled ==
  \A i \in DOMAIN runs :
    LET run == runs[i] IN
    run.label # NoLabel /\ run.life = life /\ run.relabels = asked[run.plan] =>
      /\ Levels[run.label] <= Levels[Clearance]
      /\ run.label = decision[run.plan].plan_label

(***************************************************************************)
(* Every logged approval has an outcome in the log, a digest or a budget   *)
(* refusal, but for at most one per raised append and one per crash (and   *)
(* the one being worked on).                                               *)
(***************************************************************************)
ApprovalLines == { i \in DOMAIN log : log[i].event = "approval" /\ log[i].value = "approve" }

OutcomeLines ==
  { i \in DOMAIN log : log[i].event = "execution_digest" \/ log[i].value = "query_budget" }

ApprovalsAreAccountedFor ==
  Cardinality(ApprovalLines) <= Cardinality(OutcomeLines) + faults + (life - 1)
                                  + (IF busy = NoOne THEN 0 ELSE 1)

(* The outcomes of p's approvals in the log: digests, and refusals for the budget. *)
OutcomesOf(p) ==
  LinesOf(p, "execution_digest", "success") \cup LinesOf(p, "execution_digest", "failure")
    \cup LinesOf(p, "guard_decision", "query_budget")

(***************************************************************************)
(* Whoever reads the log from its beginning finds the policy's allow       *)
(* before each approval, and for each outcome of a plan an approval of its *)
(* own before it: nothing is reported that had not been approved by then.  *)
(***************************************************************************)
ReadsInOrder ==
  \A p \in Plans, n \in DOMAIN log :
    /\ n \in LinesOf(p, "approval", "approve") =>
         \E a \in LinesOf(p, "policy_decision", "allow") : a < n
    /\ Cardinality(OutcomesOf(p) \cap 1 .. n) <=
         Cardinality(LinesOf(p, "approval", "approve") \cap 1 .. n)

(***************************************************************************)
(* A result that the page of a plan shows is in the audit trail, once the  *)
(* handler that stored it is done (README: "with nothing crossing the      *)
(* boundary unlogged").                                                    *)
(***************************************************************************)
ShownIsLogged ==
  \A p \in Plans :
    result[p] # NoLabel =>
      \/ LinesOf(p, "execution_digest", "success") # {}
      \/ \E r \in Requests : plan[r] = p /\ pc[r] \in {"guard", "digest"}

(* A plan runs at most once (test_api.py, a second approval gets a 409). *)
RunsAtMostOnce == \A p \in Plans : Cardinality(RunsOf(p)) <= 1

(***************************************************************************)
(* The page of a plan tells what became of it: a result is there exactly   *)
(* for an executed plan, its approver is whoever ran it, and a rejected    *)
(* plan was never run and never will be (plan.html, test_api.py).          *)
(***************************************************************************)
StatusTellsOutcome ==
  \A p \in Plans :
    /\ result[p] # NoLabel <=> status[p] = "executed"
    /\ status[p] = "executed" => \E i \in RunsOf(p) : runs[i].by = approver[p]
    /\ status[p] \in {"pending", "rejected"} => RunsOf(p) = {}

(* What a line of the log says became of its plan. *)
Words ==
  [reject |-> "rejected", success |-> "executed", failure |-> "failed", query_budget |-> "failed"]

WordsOn(p) ==
  { n \in DOMAIN log :
      log[n].plan = p /\ log[n].event # "plan_generated" /\ log[n].value \in DOMAIN Words }

LastWord(p) ==
  IF WordsOn(p) = {} THEN "pending" ELSE Words[log[Max(WordsOn(p))].value]

(***************************************************************************)
(* Decisions on one plan may overlap, and then its page does not tell all  *)
(* that became of it.  But page and audit trail agree: when no append has  *)
(* raised and no handler is at work, the status is what the last outcome   *)
(* or rejection in the log says, and "pending" when there is neither.      *)
(***************************************************************************)
StatusIsTheLastWord ==
  busy = NoOne /\ faults = 0 =>
    \A p \in Plans : status[p] \notin {"absent", "denied"} => status[p] = LastWord(p)

(* The steps that a handler with the loop has left at most: a failed append ends it earlier. *)
StepsLeft(r) ==
  CASE pc[r] = "question"   -> MaxAttempts + 4
    [] pc[r] = "schema"     -> MaxAttempts + 3
    [] pc[r] = "planned"    -> todo[r] + 2
    [] pc[r] = "validation" -> todo[r] + 1
    [] pc[r] = "approved"   -> 5
    [] pc[r] = "charge"     -> 4
    [] pc[r] = "run"        -> 3
    [] pc[r] = "guard"      -> 2
    [] OTHER                -> 1

(***************************************************************************)
(* Whoever has the loop is on its way to giving it back: with each step    *)
(* but an edit of the source it has fewer left, or has given it back, and  *)
(* nobody takes the loop from it.                                          *)
(***************************************************************************)
GetsOn ==
  [][ \A r \in Requests : busy = r /\ source' = source =>
        busy' = NoOne \/ (busy' = r /\ StepsLeft(r)' < StepsLeft(r)) ]_vars

(* The loop is always given back. *)
LoopIsFreed == \A r \in Requests : busy = r ~> busy # r

(***************************************************************************)
(* Each approval that is in the log is answered in the log, when no append *)
(* raises and the process lives: its plan runs, fails or is over budget,   *)
(* and the trail says which, approval by approval.                         *)
(***************************************************************************)
ApprovalIsAnswered ==
  \A p \in Plans, n \in 1 .. Cardinality(Requests) :
    Cardinality(LinesOf(p, "approval", "approve")) >= n
      ~> Cardinality(OutcomesOf(p)) >= n

(***************************************************************************)
(* The loop keeps the promise of Boundary.  The trail is the log's, the    *)
(* runs are the executor's, and an approval stands while the request that  *)
(* gave it is on its way to run the plan.                                  *)
(***************************************************************************)
VerdictOf(p) ==
  IF LinesOf(p, "policy_decision", "allow") # {} THEN "allow"
  ELSE IF LinesOf(p, "policy_decision", "deny") # {} THEN "deny" ELSE "none"

Verdicts == [p \in Plans |-> VerdictOf(p)]

Given == [x \in Plans \X Requests |-> Cardinality(ApprovalsOf(x[1], x[2]))]

Standing ==
  { x \in Plans \X Requests : plan[x[2]] = x[1] /\ pc[x[2]] \in {"charge", "run"} }

Ran == [x \in Plans \X Requests |-> Cardinality(RunsBy(x[1], x[2]))]

B == INSTANCE Boundary
       WITH verdict <- Verdicts, given <- Given, standing <- Standing, ran <- Ran

(***************************************************************************)
(* Seen from the audit trail and the data source, every step of the        *)
(* handlers, of a crash or of a failed append is a decision, an approval,  *)
(* a run that uses up an approval, approvals that lapse, or nothing.       *)
(***************************************************************************)
KeepsThePromise == B!Spec

-----------------------------------------------------------------------------
(***************************************************************************)
(* The inductive invariants, proved in GatewayProofs: SafetyInv stands     *)
(* behind DenyIsFinal and RunsAreAuthorised, IndInv behind                 *)
(* KeepsThePromise, LedgerInv behind what the log adds up to, WordsInv     *)
(* behind StatusIsTheLastWord, and SerialInv behind what holds while       *)
(* decisions do not overlap.                                               *)
(***************************************************************************)
(* A plan with a record, or past the planner, has the planner's steps. *)
Planned ==
  /\ \A p \in Plans : status[p] # "absent" => program[p] \in Programs
  /\ \A r \in Requests :
       pc[r] \notin {"idle", "question", "schema", "no plan"} => program[plan[r]] \in Programs

(***************************************************************************)
(* A plan being asked for has no record yet; a request for a decision has  *)
(* found its plan pending, so that plan will never be denied.              *)
(***************************************************************************)
TrackedAt(r) ==
  /\ pc[r] \in Asking => plan[r] \in known /\ status[plan[r]] = "absent"
  /\ pc[r] \in Deciding => status[plan[r]] \notin {"absent", "denied"}

Tracked ==
  /\ \A p \in Plans \ known : status[p] = "absent"
  /\ \A p \in Plans : status[p] = "absent" => result[p] = NoLabel /\ approver[p] = NoOne
  /\ \A r \in Requests : TrackedAt(r)

(* The log authorises what is about to run, and what may still be approved. *)
Authorising ==
  /\ \A p \in Plans :
       status[p] \notin {"absent", "denied"} => LinesOf(p, "policy_decision", "allow") # {}
  /\ \A r \in Requests :
       pc[r] \in {"charge", "run"} => Authorised(plan[r], r, Len(log))

SafetyInv == TypeOK /\ Planned /\ Tracked /\ DenyIsFinal /\ Authorising /\ RunsAreAuthorised

(* A plan that has not been decided has no decision in the log, so it is decided once. *)
Undecided ==
  \A p \in Plans :
    p \notin known \/ (\E r \in Requests : pc[r] \in Asking /\ plan[r] = p) =>
      VerdictOf(p) = "none"

IndInv == SafetyInv /\ Undecided

(* What the policy says of p's steps when the source is annotated like this. *)
DecidedOn(p, src) ==
  decision[p] = Evaluate(program[p], SchemaLabels(ReadSchema(src)), Clearance)

(***************************************************************************)
(* A plan with a record, or on its way to one, was decided on what the     *)
(* source was when its question was asked, and is so still unless somebody *)
(* relabelled the source since.                                            *)
(***************************************************************************)
DecidedWhenAsked ==
  \A p \in Plans :
    \/ status[p] # "absent"
    \/ \E r \in Requests : plan[r] = p /\ pc[r] \in {"planned", "validation", "policy"}
    => /\ \E src \in Sources : DecidedOn(p, src)
       /\ asked[p] = relabels => DecidedOn(p, source)

(* No question is asked in the future; nor is a plan run, and its record stays for its life. *)
NothingAhead ==
  /\ \A p \in Plans : asked[p] <= relabels
  /\ \A i \in DOMAIN runs :
       /\ runs[i].life <= life
       /\ runs[i].life = life => status[runs[i].plan] \notin {"absent", "denied"}

(* Whether a handler for p stands at one of these places, as a number. *)
Pending(p, places) ==
  IF \E r \in Requests : plan[r] = p /\ pc[r] \in places THEN 1 ELSE 0

(* A run whose digest is still to be written has none in the log. *)
DigestsFollow ==
  \A p \in Plans :
    /\ Cardinality(LinesOf(p, "execution_digest", "success")) + Pending(p, {"guard", "digest"})
          <= Cardinality(Successes(p))
    /\ Cardinality(LinesOf(p, "execution_digest", "failure")) + Pending(p, {"run failed"})
          <= Cardinality(Failures(p))

(* The approval that has no outcome yet is of the handler past its own approval's line. *)
OutcomesFollow ==
  Cardinality(ApprovalLines) <= Cardinality(OutcomeLines) + faults + (life - 1)
    + (IF \E r \in Requests : pc[r] \in Approving \ {"approved"} THEN 1 ELSE 0)

(* The outcome that a handler past its approval's line has still to log has an approval. *)
OutcomesApproved ==
  \A p \in Plans :
    Cardinality(OutcomesOf(p)) + Pending(p, Approving \ {"approved"})
      <= Cardinality(LinesOf(p, "approval", "approve"))

(***************************************************************************)
(* The log ends with the planner's success on p, after a question, and the *)
(* validation lines of all its attempts but the last "left".               *)
(***************************************************************************)
EndsInTrail(p, left) ==
  \E g \in 2 .. Len(log) :
    /\ g \in LinesOf(p, "plan_generated", "success")
    /\ log[g - 1].event = "question_received"
    /\ log[g].n = Len(log) - g + left
    /\ left = 0 => g < Len(log)
    /\ \A v \in g + 1 .. Len(log) :
         v \in LinesOf(p, "validation_result",
                      IF left = 0 /\ v = Len(log) THEN "valid" ELSE "invalid")

(* What the end of the log is for the handler that asks. *)
TrailFollows ==
  \A r \in Requests :
    /\ pc[r] \in {"schema", "planned"} =>
         log # << >> /\ log[Len(log)].event = "question_received"
    /\ pc[r] = "validation" => EndsInTrail(plan[r], todo[r])
    /\ pc[r] = "policy" => EndsInTrail(plan[r], 0)

(* No append has raised, so what is shown is in the log or about to be. *)
ShownFollows == faults = 0 => ShownIsLogged

LedgerInv ==
  /\ IndInv /\ RecordsAreLogged /\ BudgetIsExact
  /\ DecidedWhenAsked /\ NothingAhead /\ ClearedUnlessRelabelled
  /\ DigestsFollow /\ OutcomesFollow /\ OutcomesApproved /\ ReadsInOrder
  /\ TrailFollows /\ TrailIsUnbroken /\ ShownFollows

(* A handler that has set the status but not yet logged why. *)
Telling == {"over budget", "run failed", "guard", "digest", "rejected"}

(***************************************************************************)
(* The log speaks of allowed plans only; a handler that is telling finds   *)
(* the status it has set; and of a plan that none is telling about, the    *)
(* log has the last word.                                                  *)
(***************************************************************************)
WordsInv ==
  /\ \A p \in Plans :
       WordsOn(p) # {} => LinesOf(p, "policy_decision", "allow") # {}
  /\ \A r \in Requests :
       /\ pc[r] \in {"over budget", "run failed"} => status[plan[r]] = "failed"
       /\ pc[r] \in {"guard", "digest"} => status[plan[r]] = "executed"
       /\ pc[r] = "rejected" => status[plan[r]] = "rejected"
  /\ faults = 0 =>
       \A p \in Plans :
         \/ status[p] \in {"absent", "denied"}
         \/ \E r \in Requests : plan[r] = p /\ pc[r] \in Telling
         \/ status[p] = LastWord(p)

(* No two requests are deciding on the same plan. *)
DecisionsDoNotOverlap ==
  \A q, r \in Requests :
    pc[q] \in Deciding /\ pc[r] \in Deciding /\ plan[q] = plan[r] => q = r

(***************************************************************************)
(* While decisions on a plan do not overlap, a plan is pending until it is *)
(* run or rejected, and a plan that is not decided has not been run.       *)
(***************************************************************************)
FreshUntilRun ==
  /\ \A p \in Plans :
       p \notin known \/ (\E r \in Requests : pc[r] \in Asking /\ plan[r] = p) => RunsOf(p) = {}
  /\ \A r \in Requests :
       /\ pc[r] \in {"approve form", "reject form", "approved", "charge", "run"} =>
            status[plan[r]] = "pending"
       /\ pc[r] \in {"charge", "run"} => approver[plan[r]] = r

SerialInv == RunsAtMostOnce /\ StatusTellsOutcome /\ FreshUntilRun

=============================================================================
