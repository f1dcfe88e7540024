# Fondaco in TLA+

Fondaco puts a boundary between a language model and a company's data: the
model sees the annotated schema and a question, answers with a *plan*, and the
plan is validated, labelled, decided on by a policy, approved by a human and
only then run on a read-only role, with every stage in a hash-chained audit log.
This directory holds a TLA+ model of that program, the TLC runs that check it
on small instances, two specifications of what the program promises with the
refinements that show it keeps them, and TLAPS proofs: that both refinements
hold, and every safety invariant of the passing runs, for every size of the
instance.

Paths are those of the repository. `PROJECT.json` maps each definition to the
lines it stands for.

1. [The system](#1-the-system)
2. [What is hard about it](#2-what-is-hard-about-it)
3. [The modules](#3-the-modules)
4. [The runs](#4-the-runs)
5. [Bounds and fairness](#5-bounds-and-fairness)
6. [The proofs](#6-the-proofs)
7. [Where the code and its documents disagree](#7-where-the-code-and-its-documents-disagree)
8. [What is not modelled](#8-what-is-not-modelled)
9. [The plan](#9-the-plan)

## 1. The system

| Component | State it keeps | Operations | What makes it correct |
|---|---|---|---|
| Approval loop, `api/main.py` | `plans` (a `PlanRecord` each: steps, decision, status, result, approver), the query budget, the open audit log; all but the log die with the process | `ask`, `approve`, `reject`; pages that only read | nothing runs that was not allowed and then approved, in the log, first; a deny is final; a plan runs once per approval; the trail is whole; the page tells the truth |
| Audit log, `boundary/audit.py` | the file; in memory the next number and the last hash | constructor, `append`, `verify`, `entries` | a log that verifies is complete and genuine; damage shows and stays |
| Egress policy, `boundary/policy.py` | none | `query_label`, `step_labels`, `evaluate` | the label covers all that the presented step reads; stricter annotations never allow more |
| Plan validator, `boundary/validator.py`, `plan_schema.json` | none | `validate_plan` | a valid plan can be run to its end |
| Guards, `boundary/guards.py` | the budget's counts by session | `suppress_small_groups`, `QueryBudget.consume`, `config_from_env` | no small group leaves; a charge is all or nothing; configuration cannot switch a guard off |
| Executor, `executor/runner.py` | the results so far, within one call | `run_plan`, `_aggregate` | rows are backed by k rows, none vanishes unreported, a failure gives no result |
| Postgres adapter, `executor/adapters/postgres.py`, `contract.py` | none (a connection for each call) | `capabilities`, `get_schema`, `execute` | labels and rows belong together; every error ends the run |
| Planner client, `planner/client.py` | conversation and attempts, within one call | `generate_plan`, `_complete` | what returns is valid; the loop ends; the trace is what happened |
| Demo planner, `planner/demo.py`, over the annotations of `demo/dataset` | ten fixture plans | `generate_plan` | a fixture is validated as a model's answer is; each scripted question comes out as `demo/scenarios.md` says |

How they interact: `ask` reads the schema through the adapter, calls the planner
(which calls the validator), appends one line for each validation, evaluates
the policy, appends the decision and creates the record. `approve` appends the
approval, charges the budget, calls `run_plan` (which validates again, and asks
the adapter for labels and rows), stores the result in the record and appends
the guard's decision and the digest. `reject` appends the rejection. The audit
page verifies and lists the file from a thread of its own.

All handlers but the pages are coroutines of one event loop. Planner, executor
and log are called synchronously, so a handler keeps the loop except where it
awaits the request's form (`main.py:257`, `:333`). The data source's
annotations are edited by people at any time.

## 2. What is hard about it

The full list, with the line where each thing bites and the properties aimed at
it, is under `hazards` in `PROJECT.json`. In short:

- **Overlap.** `approve` and `reject` test the status, await the form, and do
  not test it again. Two decisions about one plan can both be past the test.
- **Order of effects and log lines.** Every `append` can raise, between any two
  effects. What has been done by then stays done: a result may be stored whose
  digest is never logged; an approval may be logged that nothing follows.
- **Crash.** Records and budgets are lost, the log is not.
- **Stale annotations.** The policy decides with the annotations of the
  question; the adapter labels with those of the run, in a statement that is not
  the one that reads the rows.
- **Torn lines.** A write that raises or dies half way leaves part of a line,
  or a whole one without its newline, or a whole one that the process does not
  know of.
- **The guard's corner cases.** Aggregates of aggregates (whose groups count
  groups, not rows), aggregates of nothing, nulls, thresholds of zero.
- **The model.** It may answer anything at any attempt.

## 3. The modules

```
Labels    what the adapter reads of the annotations, and labels' names
  Policy      the policy's labels and decision          EXTENDS Labels
    PlanDSL     the validator                           EXTENDS Policy
      PolicyProofs                                      of both
      Planner     generate_plan, client and demo        EXTENDS PlanDSL
        Demo        the fixtures and the demo's tables  EXTENDS Planner
          PlannerProofs                                 of both
      Annotations the policy while annotations change   EXTENDS PlanDSL
        AnnotationsProofs
      Executor    run_plan and the adapter              EXTENDS PlanDSL, Aggregation
        ExecutorProofs
    Gateway     ask, approve, reject                    EXTENDS Policy, Guards; Boundary by INSTANCE
      GatewayProofs
      Service     Gateway on the file of AuditLog       EXTENDS Gateway; AuditLog by INSTANCE
        ServiceProofs                                   GatewayProofs, and AuditLogProofs by INSTANCE
Guards    k-threshold, budget, configuration
  Aggregation _aggregate with its guard                 EXTENDS Guards
Boundary  the promise of the approval loop, and what follows from it
AuditLog  the file, its writer and its readers          Trail by INSTANCE
  AuditLogProofs
Trail     the promise of the audit log
MC*       small instances for TLC
```

A plan is a sequence of step records. A query's template is a record of what the
program finds in it: `refs`, the words after FROM and JOIN in order (`Opaque` for
a subquery or a name that cannot be resolved),
whether there is a comma after FROM, and what the validator's lexical checks
say. The regular expressions themselves are not modelled; every outcome of
theirs is. Labels are 0..3 as in `Label`, names are what the wire and the
database use.

`ReadSchema` is what the adapter makes of the annotations: a table without columns
is not in the schema (the inner join of `postgres.py:44-50`; `Catalogued`), whatever
its own annotation says, and so is restricted to the policy.

**Gateway** has one variable for each of the fields of `PlanRecord` that decide
anything: the steps (`program`), `decision`, `status`, `result` and `approver`. The
others (`question`, `labels`, `created`, `error`) are for the page only and have
none; of a result its label is kept. There is one variable for the budget, the log
is a sequence of lines, and there are the source's annotations, and for each request
a program counter and the handler's locals. `busy` is the event loop's holder:
a handler's action needs it, except for those that start or resume one. Each
handler is split where something else can get in between: at each append, at the
await, and at the run. `Line(r)` is the line that handler `r` appends where it
stands; `LogsBetween` and `LogsLast` append it and go on or end, or raise, which
ends the handler with what it has done so far. `CrashAndRestart` loses all but
log and source. `runs`, `known`, `asked` and the counters are observations: no
guard reads them, bounds and `known` (plan ids are never given out twice) apart.
The composition with the executor is by its outcome: `RunSucceeds` takes the
label from the policy's function over the annotations of that moment (which
`LabelIsThePolicys`, proved of `Executor`, justifies), `RunFails` any error.

**Boundary** is what the loop promises, in terms of the trail alone: a plan is
decided once, only an allowed plan is approved, each run uses up an approval of
its own, and an approval may come to nothing. It knows no handlers, no loop, no
pages. Gateway's mapping to it reads the verdicts (`VerdictOf`) and the approvals
(`Given`) off the log, takes the handlers between approval and run for the
approvals that stand (`Standing`), and counts `runs` (`Ran`); a crash is then a
`Lapse` of what stood, a raising append a stutter or a void approval.

**AuditLog** represents a hash by what is hashed, so that two entries have one
hash only if they are the same entry after the same history. `ts` is the
timestamp: time is counted in appends, so that two entries with one content and
one number still differ, as they do in the code. A write is two steps, with part
of the line (`Junk`) in the file between them; `Abandoned` is all that a write
that was not finished can leave. `Tamper` is what the module's documentation says
must be detected: edits, deletions, swaps, truncation. The page's `verify` reads
a line per step while the writer goes on, and `entries` after it; the page prints
CHAIN BROKEN for every verdict that is not *ok* (`SaysBroken`), a line that cannot be
read included.

**Trail** is what the audit log promises: a trail grows by an entry at a time, a
confirmed entry stays for good with all before it, an unconfirmed last one may be
lost, and once the log is spoilt nothing makes it sound again, later appends and
restarts included. AuditLog's trail is the part of the file that verifies
(`SoundPart`), with a line in the middle of its write left out (`Settled`); it
is confirmed if an append that returned wrote it, and spoilt if anything
follows that does not verify.

**Service** puts the two together: each line of Gateway is an append of AuditLog,
which starts (`LineStarts`) and then returns (`LineReturns`), raises
(`LineRaises`, with the line left in the file or not) or is refused before it
writes (`LineRefused`). The process dies (`Dies`) at any point of that, and comes
up again only if the file verifies (`Starts`, `OpenRefused`). Gateway's `log` is
there what it stands for elsewhere: the lines of which all bytes were written;
`FileIsTheTrail` compares it with the file.

**Executor** runs a plan a step at a time. A query step is two actions,
`ReadLabels` and `ReadRows`, because the adapter sends two statements and under
Postgres's default isolation each has a snapshot of its own. Each row carries a
weight, the number of rows of the query's result it was computed from, which the
code does not have: it is what `BackedByK` is about. That property reads the
threshold off the configuration by itself (the number if it is one and at least 1,
the default otherwise), not through the guard's own fall-back. The adapter refuses
parameters that do not convert (`Converts`, of `PlanDSL`), cannot connect, times
out or fails in either statement, and refuses results above the limit; each is
an error code of its own (`AdapterErrors`), and `run_plan` first asks what the
adapter is capable of (`Capabilities`).

**Planner** is the repair loop around an external model. The messages carry
which errors they are about, so that the conversation can be compared with the
attempts. The question is longer than the plan schema admits, or not (`long`): then
no answer becomes a valid plan, whatever its steps. **Demo** gives it the ten scripted plans as fixtures, and the demo's
tables with their annotations, over which the policy decides.

**Annotations** has one action for each way in which the catalogue can change
and compares decisions before and after: policy monotonicity over behaviours
instead of over pairs of catalogues.

## 4. The runs

| Run | Asks |
|---|---|
| `gateway_overlap` | two requests overlap on two plans, two sessions, a budget of two queries. One execution per logged approval, never two on one (`OneRunPerApproval`); as many digests as there were runs at most (`DigestsAreOfRuns`); a deny is final though its test precedes an await (`DenyIsFinal`); a session has been charged exactly what its runs cost (`BudgetIsExact`); what the page shows is logged (`ShownIsLogged`) and its status is the last word of the log on that plan (`StatusIsTheLastWord`), both for as long as no append raises; the loop is freed and each approval answered in the log |
| `gateway_failures` | two requests overlap on one plan, with a repair round, two raising appends, two crashes and two changes of the annotations: what ran was authorised by two earlier lines of the log (`RunsAreAuthorised`); the lines before a decision are its own trail, whole (`TrailIsUnbroken`); read from its beginning, the log has the *allow* before each approval of a plan and never more outcomes of it than approvals (`ReadsInOrder`); a plan has a record only once its decision is logged, whatever the planner raised (`RecordsAreLogged`); approvals and outcomes in the log differ by the failures and crashes at most (`ApprovalsAreAccountedFor`); nothing above the clearance without a relabel (`ClearedUnlessRelabelled`); `LedgerInv`, the inductive invariant of the proofs; the handlers implement Boundary (`KeepsThePromise`) |
| `service` | the loop on the file, with two plans, appends that fail before, within and after the write and processes that die in it: a file that verifies is Gateway's log line by line (`FileIsTheTrail`), what runs has its decision and its approval, in this order, synced in the file (`RunsAreOnFile`), and no line of one question or decision gets into the trail of another, failed or torn lines in between included (`TrailIsUnbroken`); the loop implements Boundary here too, where a death can leave a decision or an approval in the file and nothing of it in memory (`KeepsThePromise`) |
| `audit_log` | raising appends, crashes inside a write, restarts and an edit by others, a page read alongside: a verifying log holds what was acknowledged (`VerifiedMeansComplete`) and nothing else than the program wrote (`VerifiedMeansGenuine`), the memory is the file's (`MemoryMatchesFile`), a page that says *verified* lists everything acknowledged when it was asked for (`ViewIsComplete`), a page that says CHAIN BROKEN of an undamaged log was read while an entry was being written, and stopped at that entry (`FalseBreakIsInProgress`); the file implements Trail (`KeepsTheTrail`) |
| `annotations` | tables and columns are annotated, added and dropped, a table's last column included: stricter never allows (`StricterNeverAllows`), what is allowed reads only annotated columns within the clearance, of tables that the adapter reports (`AllowedIsCovered`) |
| `planner` | three attempts over every kind of answer, and the demo's fixtures: what returns can be run to its end (`ReturnedIsRunnable`), the scripted questions come out as promised and whatever reads the customers, the salaries, a table that the dataset does not have or one that cannot be told is denied (`ScenariosHold`), the trace is the history (`TraceIsHistory`), each repair speaks of the answer before it (`RepairsMatchAttempts`), termination |
| `executor` | plans with none, one and two aggregations over tables of up to five rows, with each kind of adapter error and adapters of other capabilities: `BackedByK`, `NothingDroppedSilently`, `UnreachableIsUnreachable`, `LabelIsThePolicys`, termination |
| `gateway_double_approve`, `gateway_rejected_runs`, `gateway_unlogged_result`, `audit_skipped`, `executor_snapshot` | counterexamples; see section 7 |

`RunsAtMostOnce` and `StatusTellsOutcome` hold while decisions on a plan do not
overlap, which is what the repository's tests exercise: that is proved (`RunsOnce`,
`StatusTells`). The counterexamples of `gateway_double_approve` and
`gateway_rejected_runs` show that overlap breaks both. What remains with overlap is
checked in `gateway_overlap`: every run has an approval of its own
(`OneRunPerApproval`), and the status is what the last outcome or rejection in the log
says (`StatusIsTheLastWord`).

The runs of Planner and AuditLog do not check `TypeOK`: it is part of the
invariants proved in section 6. The same goes for `GetsOn`, in Gateway, Planner
and Executor, of which the runs check what it is for (`LoopIsFreed`, `Terminates`).

Every property has a mutant in `PROJECT.json`: a change of one definition such
as the code could have had by mistake, which breaks that property in that run.
The mutants' definitions stand before what they change.

## 5. Bounds and fairness

- *Gateway.* Two requests: the races are between two decisions about one plan,
  or a question and a decision. Two plans in `gateway_overlap` and `service`, so that
  a question, or another plan's decision, gets between; one in `gateway_failures`,
  whose failures and crashes meet every step of two handlers on that plan. Programs
  with one and two queries against a budget of two: exactly spent, refused, and
  refused in part. `MaxFaults` and `MaxLives` bound raising appends and crashes: two
  failures, one that leaves something behind and one that hits what comes after, and
  three lives, so that a process which came up after a crash crashes too.
  `MaxRelabels` bounds changes of annotations: two, so that they can be changed and
  changed back between question and run. No bound but the number of plan ids stops
  a handler.
- *Service.* One request: what overlaps with a write is the crash, not another
  handler, since a handler that logs has the loop. Two failures and two crashes,
  so that a line is left behind, a later one lands on it, and a process comes up
  over it. `MaxAppends` is above what two plans can log.
- *AuditLog.* Three entries: one before, one damaged, one after. Two payloads,
  so that an entry can differ from another in content only. One restart, two
  failures (one leaves something behind, one hits what comes after) and one edit.
- *Executor.* K = 2 with groups of 0, 1 and 2 rows and more, over two regions
  and null; four rows are `MaxRows`, a table of five is above it. The configured
  threshold (`RawK`) is zero, so that the fall-back to the default is part of what
  is checked.
- *Planner.* Three attempts: a first, a repair of it and a repair of the repair.
- *Annotations.* Two tables, one of which may be without columns, two column names,
  three comments (one of which is no label), two clearances; plans with joins, unresolvable names, commas and
  dangling inputs.

Fairness. `LiveSpec` in Gateway is weak fairness of each handler that has the
loop (`Continue`): the calls a handler makes all end, since the adapter connects
with a timeout of 10 s and sets a `statement_timeout` of 30 s, and the planner's
HTTP client has one of 60 s. Nothing is assumed of clients: a form may never
arrive, a question never be asked. Liveness is checked without failures,
because an append that raises, or a crash, ends the handler and nothing takes
the work up again; `ApprovalsAreAccountedFor` bounds what is lost then. Executor
and Planner have weak fairness of the loop for the same reason. AuditLog makes no
liveness claim.

Deadlock is checked in every run but `annotations`, where all tables may have
been dropped and there is nothing left to change.

## 6. The proofs

Each theorem is about the module's `Spec` and holds for every value of its
constants: any number of plans, requests, sessions, payloads, steps, rows,
attempts, failures and lives. `PROJECT.json` lists them under `theorems`.

| Module | Proves | From |
|---|---|---|
| `GatewayProofs` | `TypeCorrect`, `DenyCorrect`, `RunsCorrect` | `SafetyInv` |
| | `PromiseKept`: Gateway implements Boundary; `RunsWithinApprovals`, with Boundary's `RunsAreBought` | `IndInv` |
| | `RecordsLogged`, `BudgetCorrect`, `DigestsCorrect`, `ApprovalsCorrect`, `TrailCorrect`, `ShownCorrect`, `ClearedCorrect` | `LedgerInv` (`LedgerKept`) |
| | `ReadsCorrect`: the order in which the log reads | `LedgerInv` |
| | `StatusCorrect`: the status is the log's last word | `WordsInv` |
| | `LoopIsGivenBack`: the steps that a handler has left | `TypeOK` |
| | `RunsOnce`, `StatusTells`, while decisions on a plan do not overlap | `LedgerInv`, `SerialInv` |
| `AuditLogProofs` | `Typed`, `Genuine`, `Complete`, `MemoryMatches`, `ViewComplete`, `FalseAlarmExplained` | `SafetyInv` |
| | `TrailKept`: the file implements Trail; `NothingUndone`, what follows | `SafetyInv` |
| `ServiceProofs` | `FileCorrect`, `RunsOnFile` | `ServiceInv` |
| | `LedgerOnFile`, `PromiseOnFile`: Gateway's ledger and its refinement, on the file | `ServiceInv`, `LedgerInv` |
| | `TrailOnFile`: AuditLog's refinement, under the loop | `ServiceInv` |
| `AnnotationsProofs` | `AllowedCovered`, `StricterAllowsNoMore` | lemmas of `PolicyProofs` |
| `PlannerProofs` | `PlannerTypes`, `TraceIsTheHistory`, `RepairsMatch`, `ReturnedRuns`, `ScenariosComeOut`, `PlannerEnds` | `PlannerInv` |
| `ExecutorProofs` | `ExecutorTypes`, `GroupsAreBacked`, `NothingIsDropped`, `LabelsAgree`, `ValidPlansRun`, `ExecutorEnds` | `ExecutorInv` |

Two theorems have a hypothesis. `RunsOnce` and `StatusTells` assume
`[]DecisionsDoNotOverlap`: no two requests are deciding on one plan at a time.
The code does not enforce that, and the runs `gateway_double_approve` and
`gateway_rejected_runs` show what happens without it. It is weaker than one request
at a time: decisions on other plans, and questions, may overlap as they like,
appends may fail and processes die. `ShownCorrect` is `faults = 0 =>
ShownIsLogged`, since the run `gateway_unlogged_result` shows the violation when
an append has raised.

### Gateway

`RunsAreAuthorised` is not inductive: that a request may run follows from where
its handler stands. `SafetyInv` adds what each stage relies on:

- `Planned`: a plan with a record, or past the planner, has the planner's steps
  (so that a charge is of a natural number of queries);
- `Tracked`: a plan being asked for has no record yet, and a request past the
  test of the status is about a plan that is not denied, *though its status may
  have changed since*: the statuses that a second decision sets are never
  `denied` or `absent`, except by a crash, which ends the handlers too;
- `Authorising`: for a plan with a record that is not denied the log holds the
  policy's *allow*, and for a request about to charge or run it holds the *allow*
  and, after it, that request's own approval.

The refinement of Boundary needs `Undecided` besides (`IndInv`): the log has no
decision about a plan that was never given out or is still being asked for.
Without it the decision that a handler is about to log could be the second one,
which Boundary does not allow.

`LedgerInv` ties the log to the records and handlers by counting:

- `DigestsFollow`: a plan's success digests, and one more for a handler between
  its run and its digest, are at most as many as the runs that came back; the
  same for failures. This is `DigestsAreOfRuns` with the handlers that still owe
  a line;
- `OutcomesFollow`: the approvals are at most as many as the outcomes, the failed
  appends and the crashes together, and one more for the handler that is past its
  approval's line. There is one such handler at most because it holds the loop;
- `OutcomesApproved`: a plan's outcomes, and one more for a handler that still owes
  its line, are at most as many as the approvals of that plan. Where
  `OutcomesFollow` is about the whole log, this is plan by plan, and it is what
  the next line relies on when it is an outcome;
- `ReadsInOrder` itself, since it is about every beginning of the log and not only
  about all of it: a line that is added leaves what holds of the shorter ones;
- `BudgetIsExact`: a session was charged for the queries of runs it made (`Spent`)
  and for those of approved requests that are yet to run (`Reserved`), in one life;
- `TrailFollows`: for the handler of a question, the log *ends* in what it has
  logged so far (`EndsInTrail`), which holds since it keeps the loop;
- `DecidedWhenAsked`: a record's decision was computed from annotations that the
  source had when the question was asked;
- `NothingAhead`: no question and no run is of a later catalogue or life than the
  present one, and a plan that ran in this life has its record still.

`WordsInv` is behind `StatusIsTheLastWord`. A handler that has set a status and not
yet logged why (it is `Telling`) finds the status it set, since it has the loop;
of a plan that no handler is telling about, the last word in the log is the status;
and the log has words on allowed plans only, so that a record is made *pending*
before there are any. `Keeps`, `Sets` and `Rules` are the three things a step can do
to a status.

`SerialInv` adds that a plan is pending from the test of its status until it is
run or rejected, and has not run before (`FreshUntilRun`). Only there is the
overlap hypothesis used.

`LoopIsGivenBack` is what the liveness of the loop rests on. `StepsLeft` counts the
steps that a handler with the loop has left at most (the attempts it has yet to
log among them); each of its steps leaves fewer, no other request takes a step,
and as long as it has the loop there is one left. That it takes them is fairness
and stays with TLC. `PlannerEnds` and `ExecutorEnds` say the same of the repair
loop (two steps an attempt) and of a run (two steps a step, since a query is two
statements).

The step lemmas are in layers. `TypeStep` shows typing action by action.
`Effects` reduces the twenty-odd actions to seven kinds of step (a question
planned, a record made, a decision arriving, an approval logged, a plan run, a
status set, a crash) and quiet ones; `Kinds` reduces them to three, by what the
mapping to Boundary can see. The lemmas about each conjunct go by kind.
Cardinalities of sets of positions (`LinesOf`, `ApprovalsCount`, `RunsCount`)
change by what one more line or run adds.

### AuditLog

The hash is a history, so the chain is a first-order fact: two readable lines
with one hash have one prefix. `SafetyInv` has:

- `Provenance`: a readable line is one that `append` wrote, its payload perhaps
  edited by others;
- `Clock`: timestamps tell entries apart, and what is being written from all that
  was acknowledged. A number does not: after a sync that raises, two entries have
  the same;
- `AckedInPlace`: unless a line was damaged, what was acknowledged is where its
  number says, in order, which with `Provenance` gives `VerifiedMeansComplete`;
- `AckedFit`: acknowledged entries have lines of their own, that have ended. It
  is what keeps an append that lands on a torn line from being counted for one of
  them;
- `MemoryFollows`, `Pristine`: the number and hash in memory are the file's until
  something failed;
- `ReaderFollows`: the page's place in the file is before its end, and the hash
  it has is that of the line before; for a reader that runs beside the writer.

Implementing Trail is then shown by what a step does to the settled part of the
file: nothing, growing by the line in progress (`Write`), becoming one that does
not verify (`Spoil`, where the last line can be lost, but no confirmed one), or an
edit (`Rewrite`). Boundary's and Trail's own consequences are proved from the
promises alone (`RunsAreBought`, `PromiseUndoesNothing`).

### Service

`ServiceInv` is both components' `SafetyInv` and what ties them together:

- `LineInProgress`: what is being written is the line of the handler that is at
  it;
- `SettledIsTheTrail`: what is settled in the file, if it verifies, is Gateway's
  log;
- `SyncedFirst`: the decision on each plan that may still be approved, and all
  that a request about to charge or run goes by, is acknowledged, not only logged.

`LedgerInv` holds on the file too (`LedgerOnFile`), but not because it does in
Gateway: a death in the middle of a line is no step of Gateway's, for the line may
be in the file and nothing of it in memory. `HowItDies` takes it for what it is:
the handler's append and then a crash (`DiesIn`), with the handler's step left out
that would have made the record, the approver or the budget follow the line. What
`LedgerInv` says holds of that as well, since it bounds what is in memory by what
is in the log and never the other way round (`DeathForgets`, `DeathCounted`). In
the promise a death is a decision or an approval with what stood lapsing, or
nothing (`DeathPromised`).

`TrailOnFile` is AuditLog's refinement of Trail for the log that the loop writes.
A refused append, which is no step of AuditLog's, leaves the trail alone.

The parts are proved once and used here: `AuditLogProofs` is instantiated for the
log (`EntriesAreReal` is the instance of its assumption), `GatewayProofs` is
extended. `ServiceKinds` says which actions are steps of both. A refused append is
the one that is none of AuditLog's, a death in the middle of a line the one that
is none of Gateway's: of that line the log has all or nothing, and no handler
goes by it.

### Policy, Annotations, Planner, Executor

These compute with recursive functions (`StepLabels`, the query behind a step, the
sums of weights) and with folds. The library's induction theorems take an operator
as a parameter, which the provers cannot instantiate, so induction is done in set
form: `LeastNumber` (a non-empty set of naturals has a least element) is proved
from the well-foundedness of < on the naturals, and with it `AllNumbers` and
`AllPositions` (a set of positions that has the first, and with one the next, has
all). That a recursive function or a fold is what its equation says is proved from
the existence of a function that satisfies it up to n (`LabelsExist`,
`RoundsExist`, `FoldsExist`, `BehindsExist`, `FilterExists`).

- *Policy.* A step's label is at least that of each table and column that it
  reads, and a stricter catalogue gives no lower one (`QueryLabelRises`,
  `StepLabelsRise`). `AllowedCovered` and `StricterAllowsNoMore` are this for
  every change of the catalogue, for plans of any length.
- *Validator.* A valid plan numbers its steps, reads earlier ones only, and has
  parameters that convert (`ValidPlans`); each aggregation has one query behind
  it (`OneQueryBehind`).
- *Planner.* `PlannerInv` says what the loop's place means for messages, attempts
  and trace (`InStep`) and that an answer that was let through was checked
  (`Checked`). `ScenariosComeOut` is about every plan that a model can answer with,
  not only the ten that are scripted: a valid plan presents what comes from one query
  (`OneQueryBehind`), its label is that query's (`LabelOfQuery`), and a query is within
  internal exactly when it reads nothing but the four open tables (`DemoQuery`).
- *Executor.* `ExecutorInv`: the steps run in order (`InOrder`); each result is
  well formed, and an aggregate's rows have a weight of K or more (`Results`); while
  no group has been dropped, a result's weights add up to the rows of the query
  behind it (`Complete`); while nobody relabels, its label is the policy's for that
  step (`Labelled`); what comes out is the presented result or an error with
  nothing (`Ended`). `GroupsAreBacked` rests on groups being a partition: the weights of a
  group's rows add up to at least its size (`WeightAtLeast`), so a group with k
  rows or more has at least k of the query's rows behind it, also when it is a group
  of groups; `NothingIsDropped` on the weights of all groups adding up to the
  weight of what was grouped (`WeightOfGroups`).

### Assumptions

All are named, stand in the module that declares the constant and are evaluated
by TLC in that module's runs.

| Assumption | Says | Why |
|---|---|---|
| `NamesAreReal` | the place-holders are no plan, request or session | place-holders |
| `NumbersAreNatural` | the query limit is an integer, and at least one attempt is made | `config_from_env`; `client.py:134` |
| `ProgramsAreSequences` | a program is a non-empty sequence of steps | `plan_schema.json`: `minItems` |
| `PayloadsAreReal`, `EntriesAreReal` | the place-holder is no payload | place-holder |
| `PlansAreNumbered` | a plan that the policy decides on is a non-empty list, its steps numbered from 1, and each template refers to a list of names | `main.py` evaluates validated plans only; the names are what a regular expression finds |
| `OutputsAreLists` | answers and fixtures are lists of steps; a template refers to names, and what the lexical checks say of it is among their codes | JSON; the regular expressions of `policy.py` and `validator.py` |
| `LimitIsNumber` | the configured number of attempts is an integer | `int(...)` |
| `PlansAreLists`, `RowsAreRows` | plans, groupings and operations are lists; a row that the database returns has a cell for each column, and stands for itself | JSON; the database driver |
| `RawIsNumber`, `DefaultIsPositive` | a raw threshold is read as an integer; the built-in default is positive | `guards.py` |

### What is model-checked only

- Liveness (`LoopIsFreed`, `ApprovalIsAnswered`, `Terminates`): fairness and
  ENABLED are out of the prover's reach. What is proved is that each step leaves
  fewer of a bounded number (`LoopIsGivenBack`, `PlannerEnds`, `ExecutorEnds`);
  what is left to TLC is that one can be taken, and is.
- The five counterexamples of section 7, which are traces.
- That the templates' regular expressions match what their comments say is neither
  checked nor proved; their outcomes are inputs.


## 7. Where the code and its documents disagree

Five are runs with a counterexample (`findings` in `PROJECT.json`):

- `gateway_double_approve`: two overlapping approvals run one plan twice.
- `gateway_rejected_runs`: an approval and a rejection of one plan overlap; both
  found it pending, neither tests the status again after its await
  (`main.py:331-335`), and the plan is rejected and run, in either order, although
  its page says "Rejected plans are never executed" (`plan.html:59`).
- `gateway_unlogged_result`: an append that raises after the run leaves a
  result on the plan's page that the log has no digest of.
- `audit_skipped`: after a torn write, the next append returns, but its entry
  shares the torn line and cannot be read.
- `executor_snapshot`: labels and rows come from two snapshots, against the
  comment in `postgres.py` that says they cannot.

Others were seen while modelling and have no run of their own:

- A result's label may differ from the decision's when the source is relabelled
  between question and approval (`design/label-model.md:58`: "cannot disagree");
  `ClearedUnlessRelabelled` is what holds.
- A second approval that is over budget sets `FAILED` on an executed plan, whose
  result stays (`main.py:271`). That breaks `StatusTellsOutcome` too; the log has
  both outcomes, and the status is the later one (`StatusIsTheLastWord`).
- The audit page can say CHAIN BROKEN of an undamaged log, when `verify` meets a
  line that is still being written: the page shows it for every verdict that is not
  *ok* (`audit.html:8-9`), and when the append returns before `entries` reads, with
  a complete list under it (`audit.py:108`: "report the first broken entry").
  `FalseBreakIsInProgress` is what holds.
- A raising write leaves a partial line (`audit.py:79`: "Raises AuditError
  instead of logging partially"), and a running process extends a log that was
  edited under it (`audit.py:10-12`: "refuses to extend").
- A response whose content is null ends `generate_plan` with an
  `AttributeError` (`client.py:107`; `:162`: "Return a validated plan or raise
  PlannerError"): `NotText` in Planner, `AskNoSchema` in Gateway.
- When the attempts run out their validations are not logged, since
  `PlannerError` carries no attempts (`client.py:52`: "Full attempt history, for
  the audit log").

## 8. What is not modelled

- The text of SQL: what the validator's and the policy's regular expressions
  match is an input, in every combination the later code can tell apart.
- Postgres: rows, and when it fails, are external. The sanitising of messages is
  left out, and so are result digests.
- JSON shapes that the plan schema refuses: one case, `SchemaAdmits`.
- Configuration from the environment beyond the guards' numbers.
- Rewriting the whole chain of the log, which its documentation leaves out too.
- The demo dataset's rows and grants; its annotations are in Demo.
- The pages' layout, the health endpoint, the prompts, the container files: no
  logic of their own.

## 9. The plan

Done: the modules of section 3; the promises, implemented by Gateway and AuditLog
and proved so, each for itself and both in Service; the safety invariants, the action
properties and the refinements of all runs proved; the steps of the loop, of the
repair loop and of a run bounded.

Next, in this order:

1. *An abstract run* (all or nothing, labelled, guarded) that Executor
   implements, and Gateway's `RunSucceeds` and `RunFails` instantiate.
2. Service's file byte by byte: `TrailOnFile` says that its trail only grows, by a
   line at a time, and nothing yet of the torn line that may be at its end.
3. Lemmas on the order of the log between plans, so that the page's list of a
   plan's events is shown to be in the order in which they happened.
