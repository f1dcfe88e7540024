------------------------------- MODULE Planner -------------------------------
(***************************************************************************)
(* The planner: planner/client.py's repair loop around a language model,   *)
(* and planner/demo.py's fixtures, up to the trace that the API writes to  *)
(* the audit log.  Whatever the model answers, the boundary makes the      *)
(* envelope (assemble_plan) and runs the validator on it.                  *)
(*                                                                         *)
(* The model is external: it may answer anything, at any attempt.  An      *)
(* answer is                                                               *)
(*   "unreachable"  no response, or one with an error status;              *)
(*   "malformed"    a response without the text of a first choice;         *)
(*   "not_text"     a first choice whose content is null or no string;     *)
(*   "not_json"     a text that is no JSON object with a list of steps;    *)
(*   or steps.                                                             *)
(***************************************************************************)
EXTENDS PlanDSL, SequencesExt

CONSTANTS
  Outputs,      \* the lists of steps the model can answer
  Fixtures,     \* the lists of steps of the demo planner
  AttemptLimit  \* FONDACO_LLM_MAX_ATTEMPTS, as parsed

(* The client's own floor on its attempts. *)
Attempts == IF AttemptLimit >= 1 THEN AttemptLimit ELSE 1

(* A list of steps; a template refers to names, and has no lexical faults but those there are. *)
ASSUME OutputsAreLists ==
  \A steps \in Outputs \cup Fixtures :
    /\ Len(steps) \in Nat /\ DOMAIN steps = 1 .. Len(steps)
    /\ \A i \in DOMAIN steps :
         steps[i].type = "query" => /\ steps[i].template.refs \in Seq(STRING)
                                    /\ steps[i].template.lexical \subseteq LexicalCodes

ASSUME LimitIsNumber == AttemptLimit \in Int

VARIABLES
  long,      \* the question has more characters than the plan schema allows
  pc,        \* "call", "answer", "demo" or "done"
  calls,     \* completions asked of the model
  answer,    \* its last answer: a kind, and the steps if there are any
  messages,  \* the conversation, one [role, about] for each message
  attempts,  \* generate_plan's attempts: what is wrong with each
  outcome,   \* how generate_plan ended
  trace      \* the attempts that its caller gets to see

vars == << long, pc, calls, answer, messages, attempts, outcome, trace >>

Answer(kind, steps) == [kind |-> kind, steps |-> steps]

NoAnswer == Answer("none", << >>)

(* What a message is about: codes of validation errors, or none. *)
Message(role, topic, codes) == [role |-> role, topic |-> topic, codes |-> codes]

Prompt ==
  << Message("system", "prompt", {}), Message("user", "schema and question", {}) >>

Unparsed == {"not_json"}

Init ==
  /\ long \in BOOLEAN
  /\ pc \in {"call", "demo"}
  /\ calls = 0
  /\ answer = NoAnswer
  /\ messages = Prompt
  /\ attempts = << >>
  /\ outcome = "none"
  /\ trace = << >>

(***************************************************************************)
(* The envelope around the steps is made here.  Its version and id are the *)
(* program's own, but the question is the user's: if it is too long, the   *)
(* plan is not admitted whatever its steps are.  (A scripted question may  *)
(* be too long as well, since the demo planner ignores repeated spaces.)   *)
(***************************************************************************)
AssemblePlan(steps) == IF long THEN {"schema_violation"} ELSE ValidationCodes(steps)

(* generate_plan ends by an exception, which carries no trace. *)
Raise(code) ==
  /\ pc' = "done"
  /\ outcome' = code
  /\ UNCHANGED trace

(* Out of attempts the loop ends, otherwise it goes round. *)
GoOn ==
  IF calls < Attempts
  THEN pc' = "call" /\ UNCHANGED << outcome, trace >>
  ELSE Raise("attempts_exhausted")

-----------------------------------------------------------------------------
(* The model answers one completion. *)
Complete ==
  /\ pc = "call"
  /\ calls' = calls + 1
  /\ answer' \in { Answer(kind, << >>) : kind \in {"unreachable", "malformed", "not_text", "not_json"} }
                 \cup { Answer("steps", steps) : steps \in Outputs }
  /\ pc' = "answer"
  /\ UNCHANGED << messages, attempts, outcome, trace >>

(* Transport failures end the loop at once: they are no attempts. *)
CompletionFails ==
  /\ pc = "answer"
  /\ \/ answer.kind = "unreachable" /\ Raise("llm_unreachable")
     \/ answer.kind = "malformed" /\ Raise("llm_bad_response")
  /\ UNCHANGED << calls, answer, messages, attempts >>

(* _extract_steps strips its text first, which null has no method for. *)
NotText ==
  /\ pc = "answer"
  /\ answer.kind = "not_text"
  /\ Raise("AttributeError")
  /\ UNCHANGED << calls, answer, messages, attempts >>

Repair(topic, codes) ==
  messages' = messages \o << Message("assistant", "answer", {}), Message("user", topic, codes) >>

(* Mutant of NotJson: a text that cannot be parsed does not count as an attempt. *)
NotJsonUncounted ==
  /\ pc = "answer"
  /\ answer.kind = "not_json"
  /\ Repair("format", {})
  /\ GoOn
  /\ UNCHANGED << calls, answer, attempts >>

NotJson ==
  /\ pc = "answer"
  /\ answer.kind = "not_json"
  /\ attempts' = Append(attempts, Unparsed)
  /\ Repair("format", {})
  /\ GoOn
  /\ UNCHANGED << calls, answer >>

(* Mutant of Invalid: the errors of all attempts are sent, not the last one's. *)
InvalidResent ==
  LET codes == AssemblePlan(answer.steps) IN
  /\ pc = "answer"
  /\ answer.kind = "steps"
  /\ codes # {}
  /\ attempts' = Append(attempts, codes)
  /\ Repair("errors", codes \cup UNION Range(attempts))
  /\ GoOn
  /\ UNCHANGED << calls, answer >>

(* Mutant of Invalid: a plan that fails is repaired without end. *)
InvalidEndless ==
  LET codes == AssemblePlan(answer.steps) IN
  /\ pc = "answer"
  /\ answer.kind = "steps"
  /\ codes # {}
  /\ pc' = "call"
  /\ calls' = 0
  /\ UNCHANGED << answer, messages, attempts, outcome, trace >>

(* A plan that fails validation: the codes, and nothing else, go back. *)
Invalid ==
  LET codes == AssemblePlan(answer.steps) IN
  /\ pc = "answer"
  /\ answer.kind = "steps"
  /\ codes # {}
  /\ attempts' = Append(attempts, codes)
  /\ Repair("errors", codes)
  /\ GoOn
  /\ UNCHANGED << calls, answer >>

Valid ==
  /\ pc = "answer"
  /\ answer.kind = "steps"
  /\ AssemblePlan(answer.steps) = {}
  /\ attempts' = Append(attempts, {})
  /\ trace' = Append(attempts, {})
  /\ outcome' = "plan"
  /\ pc' = "done"
  /\ UNCHANGED << calls, answer, messages >>

(* The demo planner: a fixture, or none for this question. *)
DemoUnknown ==
  /\ pc = "demo"
  /\ Raise("demo_unknown_question")
  /\ UNCHANGED << calls, answer, messages, attempts >>

DemoFixture ==
  /\ pc = "demo"
  /\ \E steps \in Fixtures :
       LET codes == AssemblePlan(steps) IN
       /\ answer' = Answer("steps", steps)
       /\ IF codes = {}
          THEN pc' = "done" /\ outcome' = "plan" /\ trace' = << codes >>
          ELSE Raise("demo_fixture_invalid")
  /\ UNCHANGED << calls, messages, attempts >>

(* The caller has what it gets. *)
Done == pc = "done" /\ UNCHANGED vars

Generate ==
  /\ \/ Complete \/ CompletionFails \/ NotText \/ NotJson \/ Invalid \/ Valid
     \/ DemoUnknown \/ DemoFixture
  /\ UNCHANGED long

Next == Generate \/ Done

(* Each completion is answered or times out (timeout_s); the rest is computation. *)
Spec == Init /\ [][Next]_vars /\ WF_vars(Generate)

-----------------------------------------------------------------------------
(***************************************************************************)
(*                               Properties                                *)
(***************************************************************************)
PlannerErrors ==
  {"llm_unreachable", "llm_bad_response", "attempts_exhausted",
   "demo_unknown_question", "demo_fixture_invalid"}

(* Every variable has its type. *)
TypeOK ==
  /\ long \in BOOLEAN
  /\ pc \in {"call", "answer", "demo", "done"}
  /\ calls \in 0 .. Attempts
  /\ answer.steps \in Outputs \cup Fixtures \cup {<< >>}
  /\ outcome \in PlannerErrors \cup {"none", "plan", "AttributeError"}
  /\ pc = "done" <=> outcome # "none"

(* The plan that was returned. *)
Returned == answer.steps

(***************************************************************************)
(* A plan that is returned can be run: each step reads a result that is    *)
(* there by then, exactly the last step presents one, what is presented    *)
(* comes from one query, and the driver's conversion of each parameter     *)
(* succeeds (a date is a day; a timestamp may be a day).                   *)
(***************************************************************************)
ReturnedIsRunnable ==
  outcome = "plan" =>
    /\ \A i \in DOMAIN Returned :
         /\ Returned[i].type = "present" <=> i = Len(Returned)
         /\ Returned[i].type # "query" => InputOf(Returned, i) \in 1 .. i - 1
         /\ Cardinality({ j \in Uses(Returned, i) : Returned[j].type = "query" }) = 1
         /\ Returned[i].type = "query" =>
              \A name \in DOMAIN Returned[i].params : Converts(Returned[i].params[name])

(***************************************************************************)
(* The trace of a returned plan has one attempt for each completion, all   *)
(* of them failed but the last: what the API then logs, one validation     *)
(* line each, is the history of the loop.                                  *)
(***************************************************************************)
TraceIsHistory ==
  outcome = "plan" =>
    /\ Len(trace) = (IF calls = 0 THEN 1 ELSE calls)
    /\ \A n \in DOMAIN trace : trace[n] = {} <=> n = Len(trace)

(***************************************************************************)
(* What goes back to the model, attempt after attempt, is its own answer   *)
(* and what was wrong with that very answer; no other message is added.    *)
(***************************************************************************)
RepairsMatchAttempts ==
  /\ SubSeq(messages, 1, 2) = Prompt
  /\ \A n \in DOMAIN attempts :
       attempts[n] # {} =>
         /\ Len(messages) >= 2 * n + 2
         /\ messages[2 * n + 1] = Message("assistant", "answer", {})
         /\ messages[2 * n + 2] = IF attempts[n] = Unparsed
                                  THEN Message("user", "format", {})
                                  ELSE Message("user", "errors", attempts[n])

(* The steps that are left at most: each completion is asked for and then dealt with. *)
StepsLeft ==
  CASE pc = "call"   -> 2 * (Attempts - calls)
    [] pc = "answer" -> 2 * (Attempts - calls) + 1
    [] pc = "demo"   -> 1
    [] OTHER         -> 0

(***************************************************************************)
(* There are fewer steps left after each, whatever the model answers: no   *)
(* answer puts the end of the loop off.                                    *)
(***************************************************************************)
GetsOn == [][ StepsLeft' < StepsLeft ]_vars

(* The loop ends, whatever the model answers. *)
Terminates == <>(pc = "done")

=============================================================================
