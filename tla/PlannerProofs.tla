---------------------------- MODULE PlannerProofs ----------------------------
(***************************************************************************)
(* Proofs about Planner: for every list of steps that a model can answer,  *)
(* every fixture and every limit on the attempts.                          *)
(***************************************************************************)
EXTENDS Demo, PolicyProofs

Lists == Outputs \cup Fixtures

(* What an attempt can have wrong with it. *)
Verdicts ==
  { ValidationCodes(steps) : steps \in Lists } \cup {{"schema_violation"}} \cup {Unparsed}

Roles == {"system", "user", "assistant"}
Topics == {"prompt", "schema and question", "answer", "format", "errors"}

Messages == [role : Roles, topic : Topics, codes : Verdicts \cup {{}}]

-----------------------------------------------------------------------------
(***************************************************************************)
(* The inductive invariant.                                                *)
(***************************************************************************)
(* Attempts, messages and the answer are what they can be. *)
Typed ==
  /\ attempts \in Seq(Verdicts)
  /\ messages \in Seq(Messages)
  /\ answer.kind = "steps" => answer.steps \in Lists

(* While the loop goes on, each completion was one failed attempt, and two messages. *)
InStep ==
  /\ pc = "call" => /\ calls < Attempts
                    /\ Len(attempts) = calls
                    /\ Len(messages) = 2 * calls + 2
  /\ pc = "answer" => /\ calls >= 1
                      /\ Len(attempts) = calls - 1
                      /\ Len(messages) = 2 * calls
  /\ pc \in {"call", "answer"} => \A n \in DOMAIN attempts : attempts[n] # {}
  /\ pc = "demo" => calls = 0 /\ attempts = << >>

(* A plan that is returned is a valid one. *)
Checked == outcome = "plan" => answer.steps \in Lists /\ ValidPlan(answer.steps)

PlannerInv == TypeOK /\ Typed /\ InStep /\ Checked /\ TraceIsHistory /\ RepairsMatchAttempts

-----------------------------------------------------------------------------
(***************************************************************************)
(* Facts about limits, codes and messages.                                 *)
(***************************************************************************)
(* There is at least one attempt, whatever the configuration says. *)
LEMMA AttemptsPositive == Attempts \in Nat \ {0}
BY LimitIsNumber DEF Attempts

(* What a list of steps has wrong with it is never that it could not be parsed. *)
LEMMA CodesAreOthers ==
  ASSUME NEW steps \in Lists
  PROVE  /\ IsList(steps)
         /\ AssemblePlan(steps) \in Verdicts /\ AssemblePlan(steps) # Unparsed
<1>1. IsList(steps)
  BY OutputsAreLists DEF IsList, Lists
<1>2. ValidationCodes(steps) # Unparsed
  <2>1. CASE ~SchemaAdmits(steps)
    BY <2>1 DEF ValidationCodes, Unparsed
  <2>2. CASE SchemaAdmits(steps)
    <3>1. \A i \in DOMAIN steps : steps[i].type = "query" => "not_json" \notin TemplateErrors(steps[i])
      BY OutputsAreLists DEF TemplateErrors, LexicalCodes, Lists
    <3>2. \A i \in DOMAIN steps : "not_json" \notin StepErrors(steps, i)
      BY <3>1 DEF StepErrors
    <3>3. "not_json" \notin StructuralErrors(steps)
      BY <3>2 DEF StructuralErrors
    <3> QED BY <2>2, <3>3 DEF ValidationCodes, Unparsed
  <2> QED BY <2>1, <2>2
<1>3. AssemblePlan(steps) = {"schema_violation"} \/ AssemblePlan(steps) = ValidationCodes(steps)
  BY DEF AssemblePlan
<1> QED BY <1>1, <1>2, <1>3 DEF Verdicts, Unparsed

(* A plan with nothing wrong has valid steps. *)
LEMMA NothingWrong ==
  ASSUME NEW steps \in Lists, AssemblePlan(steps) = {}
  PROVE  ValidPlan(steps) /\ {} \in Verdicts
<1>1. ValidationCodes(steps) = {}
  BY DEF AssemblePlan
<1> QED BY <1>1 DEF ValidPlan, Verdicts

(* Messages are what they are made of. *)
LEMMA MessagesAre ==
  ASSUME NEW codes \in Verdicts
  PROVE  /\ Message("assistant", "answer", {}) \in Messages
         /\ Message("user", "format", {}) \in Messages
         /\ Message("user", "errors", codes) \in Messages
BY DEF Message, Messages, Roles, Topics

(* The prompt is two messages. *)
LEMMA PromptIs == Prompt \in Seq(Messages) /\ Len(Prompt) = 2 /\ SubSeq(Prompt, 1, 2) = Prompt
<1>1. PICK a, b : a = Message("system", "prompt", {}) /\ b = Message("user", "schema and question", {})
  OBVIOUS
<1>2. a \in Messages /\ b \in Messages
  BY <1>1 DEF Message, Messages, Roles, Topics
<1>3. PICK s : s = << a, b >>
  OBVIOUS
<1>4. s \in Seq(Messages) /\ Len(s) = 2
  BY <1>2, <1>3
<1>5. SubSeq(s, 1, 2) = s
  BY <1>4
<1>6. s = Prompt
  BY <1>1, <1>3 DEF Prompt
<1> QED BY <1>4, <1>5, <1>6

(* A repair adds two messages at the end, and leaves the others where they are. *)
LEMMA Repaired ==
  ASSUME NEW M, NEW m \in Seq(M), NEW a \in M, NEW b \in M, NEW r, r = m \o << a, b >>
  PROVE  /\ r \in Seq(M) /\ Len(r) = Len(m) + 2
         /\ r[Len(m) + 1] = a /\ r[Len(m) + 2] = b
         /\ \A n \in 1 .. Len(m) : r[n] = m[n]
         /\ Len(m) >= 2 => SubSeq(r, 1, 2) = SubSeq(m, 1, 2)
<1>1. PICK s : s = << a, b >>
  OBVIOUS
<1>2. s \in Seq(M) /\ Len(s) = 2 /\ s[1] = a /\ s[2] = b
  BY <1>1
<1>3. r \in Seq(M) /\ Len(r) = Len(m) + 2 /\ Len(m) \in Nat
  BY <1>1, <1>2
<1>4. \A n \in 1 .. Len(m) : r[n] = m[n]
  BY <1>1, <1>2
<1>5. r[Len(m) + 1] = a /\ r[Len(m) + 2] = b
  BY <1>1, <1>2, <1>3
<1>6. ASSUME Len(m) >= 2
      PROVE  SubSeq(r, 1, 2) = SubSeq(m, 1, 2)
  BY <1>3, <1>4, <1>6
<1> QED BY <1>3, <1>4, <1>5, <1>6

(* An attempt is added after the others. *)
LEMMA Attempted ==
  ASSUME NEW V, NEW a \in Seq(V), NEW v \in V, NEW b, b = Append(a, v)
  PROVE  /\ b \in Seq(V) /\ Len(b) = Len(a) + 1 /\ DOMAIN b = 1 .. Len(a) + 1
         /\ Len(a) \in Nat /\ DOMAIN a = 1 .. Len(a)
         /\ b[Len(a) + 1] = v
         /\ \A n \in 1 .. Len(a) : b[n] = a[n]
OBVIOUS

-----------------------------------------------------------------------------
(***************************************************************************)
(* The invariant holds at first, and every step keeps it.                  *)
(***************************************************************************)
(* Nothing has been asked or answered yet. *)
LEMMA PlannerInit == Init => PlannerInv
<1> SUFFICES ASSUME Init
             PROVE  PlannerInv
  OBVIOUS
<1>1. TypeOK
  BY AttemptsPositive DEF Init, TypeOK, NoAnswer, Answer
<1>2. Typed
  BY PromptIs DEF Init, Typed, NoAnswer, Answer
<1>3. InStep
  BY AttemptsPositive, PromptIs DEF Init, InStep
<1>4. Checked /\ TraceIsHistory
  BY DEF Init, Checked, TraceIsHistory
<1>5. RepairsMatchAttempts
  BY PromptIs DEF Init, RepairsMatchAttempts
<1> QED BY <1>1, <1>2, <1>3, <1>4, <1>5 DEF PlannerInv

(* A completion is one more, and brings an answer. *)
LEMMA CompleteKeeps ==
  ASSUME PlannerInv, UNCHANGED long, Complete
  PROVE  PlannerInv'
<1> USE DEF PlannerInv, Complete
<1>1. \/ \E kind \in {"unreachable", "malformed", "not_text", "not_json"} :
              answer' = Answer(kind, << >>)
      \/ \E steps \in Outputs : answer' = Answer("steps", steps)
  OBVIOUS
<1>2. TypeOK'
  BY <1>1, AttemptsPositive DEF TypeOK, InStep, Answer
<1>3. Typed'
  BY <1>1 DEF Typed, Answer, Lists
<1>4. InStep'
  BY DEF InStep, Typed, TypeOK
<1>5. outcome = "none"
  BY DEF TypeOK
<1>6. Checked' /\ TraceIsHistory'
  BY <1>5 DEF Checked, TraceIsHistory
<1>7. RepairsMatchAttempts'
  BY DEF RepairsMatchAttempts
<1> QED BY <1>2, <1>3, <1>4, <1>6, <1>7

(* An exception ends the loop, and leaves no plan. *)
LEMMA RaiseKeeps ==
  ASSUME PlannerInv, UNCHANGED long, NEW code \in PlannerErrors \cup {"AttributeError"}, Raise(code),
         UNCHANGED << calls, answer, messages, attempts >>
  PROVE  PlannerInv'
<1> USE DEF PlannerInv, Raise
<1>0. code # "none" /\ code # "plan"
  BY DEF PlannerErrors
<1>1. TypeOK'
  BY <1>0 DEF TypeOK
<1>2. Typed' /\ InStep'
  BY DEF Typed, InStep
<1>3. Checked' /\ TraceIsHistory'
  BY <1>0 DEF Checked, TraceIsHistory
<1>4. RepairsMatchAttempts'
  BY DEF RepairsMatchAttempts
<1> QED BY <1>1, <1>2, <1>3, <1>4

(* A failed attempt is kept, and what was wrong with it is sent. *)
LEMMA FailedKeeps ==
  ASSUME PlannerInv, UNCHANGED long, pc = "answer", NEW codes \in Verdicts, codes # {},
         NEW topic, NEW sent, Message("user", topic, sent) \in Messages,
         codes = Unparsed => topic = "format" /\ sent = {},
         codes # Unparsed => topic = "errors" /\ sent = codes,
         attempts' = Append(attempts, codes), Repair(topic, sent), GoOn,
         UNCHANGED << calls, answer >>
  PROVE  PlannerInv'
<1> USE DEF PlannerInv
<1>0. PICK a, b : a = Message("assistant", "answer", {}) /\ b = Message("user", topic, sent)
  OBVIOUS
<1>1. a \in Messages /\ b \in Messages
  BY <1>0, MessagesAre
<1>2. messages' = messages \o << a, b >>
  BY <1>0 DEF Repair
<1>3. attempts \in Seq(Verdicts) /\ messages \in Seq(Messages)
  BY DEF Typed
<1>4. /\ calls >= 1 /\ calls \in 0 .. Attempts
      /\ Len(attempts) = calls - 1 /\ Len(messages) = 2 * calls
      /\ \A n \in DOMAIN attempts : attempts[n] # {}
  BY DEF InStep, TypeOK
<1>5. /\ messages' \in Seq(Messages) /\ Len(messages') = 2 * calls + 2
      /\ messages'[2 * calls + 1] = a /\ messages'[2 * calls + 2] = b
      /\ \A n \in 1 .. 2 * calls : messages'[n] = messages[n]
      /\ SubSeq(messages', 1, 2) = SubSeq(messages, 1, 2)
  <2>1. PICK m : m = messages
    OBVIOUS
  <2>2. PICK r : r = messages'
    OBVIOUS
  <2>3. m \in Seq(Messages) /\ r = m \o << a, b >>
    BY <1>2, <1>3, <2>1, <2>2
  <2>4. /\ r \in Seq(Messages) /\ Len(r) = Len(m) + 2
        /\ r[Len(m) + 1] = a /\ r[Len(m) + 2] = b
        /\ \A n \in 1 .. Len(m) : r[n] = m[n]
        /\ Len(m) >= 2 => SubSeq(r, 1, 2) = SubSeq(m, 1, 2)
    BY <1>1, <2>3, Repaired
  <2>5. Len(m) = 2 * calls /\ Len(m) >= 2
    BY <1>4, <2>1
  <2> HIDE <2>3
  <2> QED BY <2>1, <2>2, <2>4, <2>5
<1>6. /\ attempts' \in Seq(Verdicts) /\ Len(attempts') = calls
      /\ DOMAIN attempts' = 1 .. calls /\ DOMAIN attempts = 1 .. calls - 1
      /\ attempts'[calls] = codes
      /\ \A n \in 1 .. calls - 1 : attempts'[n] = attempts[n]
  <2>1. /\ attempts' \in Seq(Verdicts) /\ Len(attempts') = Len(attempts) + 1
        /\ DOMAIN attempts' = 1 .. Len(attempts) + 1
        /\ DOMAIN attempts = 1 .. Len(attempts)
        /\ attempts'[Len(attempts) + 1] = codes
        /\ \A n \in 1 .. Len(attempts) : attempts'[n] = attempts[n]
    BY <1>3, Attempted
  <2>2. calls - 1 + 1 = calls
    BY <1>4
  <2> QED BY <1>4, <2>1, <2>2
<1>7. \/ calls < Attempts /\ pc' = "call" /\ outcome' = outcome /\ trace' = trace
      \/ pc' = "done" /\ outcome' = "attempts_exhausted" /\ trace' = trace
  BY DEF GoOn, Raise
<1>8. outcome = "none"
  BY DEF TypeOK
<1>9. TypeOK'
  BY <1>7, <1>8 DEF TypeOK, PlannerErrors
<1>10. Typed'
  BY <1>5, <1>6 DEF Typed
<1>11. InStep'
  <2>1. \A n \in DOMAIN attempts' : attempts'[n] # {}
    <3>1. ASSUME NEW n \in 1 .. calls
          PROVE  attempts'[n] # {}
      BY <1>4, <1>6
    <3> QED BY <1>6, <3>1
  <2> QED BY <1>5, <1>6, <1>7, <2>1 DEF InStep
<1>12. Checked' /\ TraceIsHistory'
  BY <1>7, <1>8 DEF Checked, TraceIsHistory
<1>13. RepairsMatchAttempts'
  <2>1. SubSeq(messages', 1, 2) = Prompt
    BY <1>5 DEF RepairsMatchAttempts
  <2>2. ASSUME NEW n \in DOMAIN attempts'
        PROVE  /\ Len(messages') >= 2 * n + 2
               /\ messages'[2 * n + 1] = Message("assistant", "answer", {})
               /\ messages'[2 * n + 2] = IF attempts'[n] = Unparsed
                                         THEN Message("user", "format", {})
                                         ELSE Message("user", "errors", attempts'[n])
    <3>0. n \in 1 .. calls /\ calls \in Nat
      BY <1>4, <1>6
    <3>1. CASE n = calls
      <4>1. /\ Len(messages') >= 2 * n + 2
            /\ messages'[2 * n + 1] = a /\ messages'[2 * n + 2] = b
            /\ attempts'[n] = codes
        BY <1>5, <1>6, <3>0, <3>1
      <4>2. b = IF codes = Unparsed
                THEN Message("user", "format", {})
                ELSE Message("user", "errors", codes)
        BY <1>0
      <4> QED BY <1>0, <4>1, <4>2
    <3>2. CASE n # calls
      <4>1. n \in DOMAIN attempts /\ attempts'[n] = attempts[n] /\ attempts[n] # {}
        BY <1>4, <1>6, <3>0, <3>2
      <4>2. /\ messages[2 * n + 1] = Message("assistant", "answer", {})
            /\ messages[2 * n + 2] = IF attempts[n] = Unparsed
                                     THEN Message("user", "format", {})
                                     ELSE Message("user", "errors", attempts[n])
        BY <4>1 DEF RepairsMatchAttempts
      <4>3. 2 * n + 1 \in 1 .. 2 * calls /\ 2 * n + 2 \in 1 .. 2 * calls
        BY <3>0, <3>2
      <4>4. messages'[2 * n + 1] = messages[2 * n + 1] /\ messages'[2 * n + 2] = messages[2 * n + 2]
        BY <1>5, <4>3
      <4>5. Len(messages') >= 2 * n + 2
        BY <1>5, <3>0
      <4> QED BY <4>1, <4>2, <4>4, <4>5
    <3> QED BY <3>1, <3>2
  <2> QED BY <2>1, <2>2 DEF RepairsMatchAttempts
<1> QED BY <1>9, <1>10, <1>11, <1>12, <1>13

(* A text that cannot be parsed is a failed attempt. *)
LEMMA NotJsonKeeps ==
  ASSUME PlannerInv, UNCHANGED long, NotJson
  PROVE  PlannerInv'
<1>1. PICK codes : codes = Unparsed
  OBVIOUS
<1>2. codes \in Verdicts /\ codes # {}
  BY <1>1 DEF Verdicts, Unparsed
<1>3. Message("user", "format", {}) \in Messages
  BY <1>2, MessagesAre
<1>4. /\ pc = "answer" /\ attempts' = Append(attempts, codes)
      /\ Repair("format", {}) /\ GoOn /\ UNCHANGED << calls, answer >>
  BY <1>1 DEF NotJson
<1> QED BY <1>1, <1>2, <1>3, <1>4, FailedKeeps

(* So is a plan that fails validation. *)
LEMMA InvalidKeeps ==
  ASSUME PlannerInv, UNCHANGED long, Invalid
  PROVE  PlannerInv'
<1>1. PICK codes : codes = AssemblePlan(answer.steps)
  OBVIOUS
<1>2. /\ pc = "answer" /\ answer.kind = "steps" /\ codes # {}
      /\ attempts' = Append(attempts, codes)
      /\ Repair("errors", codes) /\ GoOn /\ UNCHANGED << calls, answer >>
  BY <1>1 DEF Invalid
<1>3. answer.steps \in Lists
  BY <1>2 DEF PlannerInv, Typed
<1>4. codes \in Verdicts /\ codes # Unparsed
  BY <1>1, <1>3, CodesAreOthers
<1>5. Message("user", "errors", codes) \in Messages
  BY <1>4, MessagesAre
<1> QED BY <1>2, <1>4, <1>5, FailedKeeps

(* A valid plan is returned, with all the attempts it took. *)
LEMMA ValidKeeps ==
  ASSUME PlannerInv, UNCHANGED long, Valid
  PROVE  PlannerInv'
<1> USE DEF PlannerInv
<1>1. /\ pc = "answer" /\ answer.kind = "steps" /\ AssemblePlan(answer.steps) = {}
      /\ attempts' = Append(attempts, {}) /\ trace' = Append(attempts, {})
      /\ outcome' = "plan" /\ pc' = "done" /\ UNCHANGED << calls, answer, messages >>
  BY DEF Valid
<1>2. answer.steps \in Lists
  BY <1>1 DEF Typed
<1>3. attempts \in Seq(Verdicts) /\ {} \in Verdicts
  BY <1>1, <1>2, NothingWrong DEF Typed
<1>4. /\ calls >= 1 /\ calls \in 0 .. Attempts /\ Len(attempts) = calls - 1
      /\ \A n \in DOMAIN attempts : attempts[n] # {}
  BY <1>1 DEF InStep, TypeOK
<1>5. /\ attempts' \in Seq(Verdicts) /\ Len(attempts') = calls
      /\ DOMAIN attempts' = 1 .. calls /\ DOMAIN attempts = 1 .. calls - 1
      /\ attempts'[calls] = {}
      /\ \A n \in 1 .. calls - 1 : attempts'[n] = attempts[n]
  <2>1. /\ attempts' \in Seq(Verdicts) /\ Len(attempts') = Len(attempts) + 1
        /\ DOMAIN attempts' = 1 .. Len(attempts) + 1
        /\ DOMAIN attempts = 1 .. Len(attempts)
        /\ attempts'[Len(attempts) + 1] = {}
        /\ \A n \in 1 .. Len(attempts) : attempts'[n] = attempts[n]
    BY <1>1, <1>3, Attempted
  <2>2. calls - 1 + 1 = calls
    BY <1>4
  <2> QED BY <1>4, <2>1, <2>2
<1>6. TypeOK'
  BY <1>1 DEF TypeOK
<1>7. Typed' /\ InStep'
  BY <1>1, <1>5 DEF Typed, InStep
<1>8. Checked'
  BY <1>1, <1>2, NothingWrong DEF Checked
<1>9. TraceIsHistory'
  <2>1. trace' = attempts' /\ calls \in Nat /\ calls # 0
    BY <1>1, <1>4
  <2>2. ASSUME NEW n \in 1 .. calls
        PROVE  attempts'[n] = {} <=> n = calls
    <3>1. CASE n = calls
      BY <1>5, <3>1
    <3>2. CASE n # calls
      <4>1. n \in 1 .. calls - 1
        BY <1>4, <3>2
      <4> QED BY <1>4, <1>5, <3>2, <4>1
    <3> QED BY <3>1, <3>2
  <2> QED BY <1>1, <1>5, <2>1, <2>2 DEF TraceIsHistory
<1>10. RepairsMatchAttempts'
  <2>1. ASSUME NEW n \in DOMAIN attempts', attempts'[n] # {}
        PROVE  n \in DOMAIN attempts /\ attempts'[n] = attempts[n]
    <3>1. n \in 1 .. calls /\ n # calls
      BY <1>5, <2>1
    <3>2. n \in 1 .. calls - 1
      BY <1>4, <3>1
    <3> QED BY <1>5, <3>2
  <2>2. UNCHANGED messages
    BY <1>1
  <2> QED BY <2>1, <2>2 DEF RepairsMatchAttempts
<1> QED BY <1>6, <1>7, <1>8, <1>9, <1>10

(* A fixture is returned if it is valid. *)
LEMMA DemoFixtureKeeps ==
  ASSUME PlannerInv, UNCHANGED long, DemoFixture
  PROVE  PlannerInv'
<1> USE DEF PlannerInv
<1>1. PICK steps \in Fixtures :
        /\ answer' = Answer("steps", steps)
        /\ IF AssemblePlan(steps) = {}
           THEN pc' = "done" /\ outcome' = "plan" /\ trace' = << AssemblePlan(steps) >>
           ELSE Raise("demo_fixture_invalid")
  BY DEF DemoFixture
<1>2. pc = "demo" /\ UNCHANGED << calls, messages, attempts >>
  BY DEF DemoFixture
<1>3. outcome = "none" /\ calls = 0 /\ answer'.steps = steps
  BY <1>1, <1>2 DEF TypeOK, InStep, Answer
<1>4. \/ AssemblePlan(steps) = {} /\ pc' = "done" /\ outcome' = "plan" /\ trace' = << {} >>
      \/ pc' = "done" /\ outcome' = "demo_fixture_invalid"
  BY <1>1 DEF Raise
<1>5. TypeOK'
  BY <1>2, <1>3, <1>4 DEF TypeOK, PlannerErrors
<1>6. Typed'
  BY <1>2, <1>3 DEF Typed, Lists
<1>7. InStep'
  BY <1>2, <1>4 DEF InStep
<1>8. Checked'
  BY <1>3, <1>4, NothingWrong DEF Checked, Lists
<1>9. TraceIsHistory'
  BY <1>2, <1>3, <1>4 DEF TraceIsHistory
<1>10. RepairsMatchAttempts'
  BY <1>2 DEF RepairsMatchAttempts
<1> QED BY <1>5, <1>6, <1>7, <1>8, <1>9, <1>10

(* Every step keeps the invariant. *)
LEMMA PlannerStep == PlannerInv /\ [Next]_vars => PlannerInv'
<1> SUFFICES ASSUME PlannerInv, [Next]_vars
             PROVE  PlannerInv'
  OBVIOUS
<1>0. UNCHANGED long
  BY DEF Next, Generate, Done, vars
<1>1. CASE Complete
  BY <1>0, <1>1, CompleteKeeps
<1>2. CASE CompletionFails
  <2>1. PICK code \in PlannerErrors : Raise(code)
    BY <1>2 DEF CompletionFails, PlannerErrors
  <2> QED BY <1>0, <1>2, <2>1, RaiseKeeps DEF CompletionFails
<1>3. CASE NotText
  BY <1>0, <1>3, RaiseKeeps DEF NotText
<1>4. CASE NotJson
  BY <1>0, <1>4, NotJsonKeeps
<1>5. CASE Invalid
  BY <1>0, <1>5, InvalidKeeps
<1>6. CASE Valid
  BY <1>0, <1>6, ValidKeeps
<1>7. CASE DemoUnknown
  BY <1>0, <1>7, RaiseKeeps DEF DemoUnknown, PlannerErrors
<1>8. CASE DemoFixture
  BY <1>0, <1>8, DemoFixtureKeeps
<1>9. CASE UNCHANGED vars
  BY <1>9 DEF vars, PlannerInv, TypeOK, Typed, InStep, Checked, TraceIsHistory, RepairsMatchAttempts
<1> QED BY <1>0, <1>1, <1>2, <1>3, <1>4, <1>5, <1>6, <1>7, <1>8, <1>9 DEF Next, Generate, Done

LEMMA PlannerInvariant == Spec => []PlannerInv
BY PlannerInit, PlannerStep, PTL DEF Spec

-----------------------------------------------------------------------------
(* The theorems: the invariant's parts. *)

(***************************************************************************)
(* Every variable has its type: no more completions than attempts, and an  *)
(* outcome exactly when the loop has ended.                                *)
(***************************************************************************)
THEOREM PlannerTypes == Spec => []TypeOK
<1>1. PlannerInv => TypeOK
  BY DEF PlannerInv
<1> QED BY <1>1, PlannerInvariant, PTL

(***************************************************************************)
(* The trace of a returned plan is the history of the loop: one attempt    *)
(* for each completion, all of them failed but the last, whatever the      *)
(* model answered and however many attempts there may be.                  *)
(***************************************************************************)
THEOREM TraceIsTheHistory == Spec => []TraceIsHistory
<1>1. PlannerInv => TraceIsHistory
  BY DEF PlannerInv
<1> QED BY <1>1, PlannerInvariant, PTL

(***************************************************************************)
(* What goes back to the model after a failed attempt is its answer and    *)
(* what was wrong with that very answer, for every attempt so far.         *)
(***************************************************************************)
THEOREM RepairsMatch == Spec => []RepairsMatchAttempts
<1>1. PlannerInv => RepairsMatchAttempts
  BY DEF PlannerInv
<1> QED BY <1>1, PlannerInvariant, PTL

(* A valid plan can be run. *)
LEMMA ValidIsRunnable ==
  ASSUME NEW steps, IsList(steps), ValidPlan(steps), NEW i \in DOMAIN steps
  PROVE  /\ steps[i].type = "present" <=> i = Len(steps)
         /\ steps[i].type # "query" => InputOf(steps, i) \in 1 .. i - 1
         /\ Cardinality({ j \in Uses(steps, i) : steps[j].type = "query" }) = 1
         /\ steps[i].type = "query" =>
              \A name \in DOMAIN steps[i].params : Converts(steps[i].params[name])
<1>1. /\ IsChained(steps)
      /\ steps[i].type = "query" =>
           \A name \in DOMAIN steps[i].params : Converts(steps[i].params[name])
  BY ValidPlans
<1>2. steps[i].type = "present" <=> i = Len(steps)
  BY <1>1 DEF IsChained
<1>3. steps[i].type # "query" => InputOf(steps, i) \in 1 .. i - 1
  BY <1>1, ChainedInputs
<1>4. PICK q : { j \in Uses(steps, i) : steps[j].type = "query" } = {q}
  BY <1>1, OneQueryBehind
<1>5. Cardinality({ j \in Uses(steps, i) : steps[j].type = "query" }) = 1
  BY <1>4, FS_Singleton
<1> QED BY <1>1, <1>2, <1>3, <1>5

(***************************************************************************)
(* A plan that is returned can be run, whatever list of steps the model    *)
(* answered with: what the validator reports is enough for that.           *)
(***************************************************************************)
THEOREM ReturnedRuns == Spec => []ReturnedIsRunnable
<1>1. ASSUME PlannerInv
      PROVE  ReturnedIsRunnable
  <2>1. SUFFICES ASSUME outcome = "plan", NEW i \in DOMAIN Returned
        PROVE  /\ Returned[i].type = "present" <=> i = Len(Returned)
               /\ Returned[i].type # "query" => InputOf(Returned, i) \in 1 .. i - 1
               /\ Cardinality({ j \in Uses(Returned, i) : Returned[j].type = "query" }) = 1
               /\ Returned[i].type = "query" =>
                    \A name \in DOMAIN Returned[i].params : Converts(Returned[i].params[name])
    BY DEF ReturnedIsRunnable
  <2>2. Returned \in Lists /\ ValidPlan(Returned)
    BY <1>1, <2>1 DEF PlannerInv, Checked, Returned
  <2>3. IsList(Returned)
    BY <2>2, CodesAreOthers
  <2> QED BY <2>1, <2>2, <2>3, ValidIsRunnable
<1> QED BY <1>1, PlannerInvariant, PTL

-----------------------------------------------------------------------------
(***************************************************************************)
(* The scenarios of the demo: the labels of its tables, and what a plan    *)
(* that reads them gets.                                                   *)
(***************************************************************************)
OpenTables == {"products", "orders", "deliveries", "stock_movements"}

DemoSchema == SchemaLabels(ReadSchema(DemoSource))

(* Each table of the dataset has columns. *)
LEMMA DemoCatalogued == Catalogued(DemoSource) = DOMAIN DemoSource
<1>1. ASSUME NEW comment, NEW columns, columns # {}
      PROVE  DOMAIN Annotated(comment, columns).columns # {}
  BY <1>1 DEF Annotated
<1>2. \A t \in OpenTables : DOMAIN DemoSource[t].columns # {}
  <2>1. ASSUME NEW t \in OpenTables
        PROVE  \E comment, columns : columns # {} /\ DemoSource[t] = Annotated(comment, columns)
    BY DEF DemoSource, OpenTables
  <2> QED BY <1>1, <2>1
<1>3. "id" \in DOMAIN DemoSource["customers"].columns /\ "id" \in DOMAIN DemoSource["employees"].columns
  BY DEF DemoSource
<1>4. DOMAIN DemoSource = OpenTables \cup {"customers", "employees"}
  BY DEF DemoSource, OpenTables
<1> QED BY <1>2, <1>3, <1>4 DEF Catalogued

(* The tables of the dataset. *)
LEMMA DemoTables ==
  /\ DOMAIN DemoSource = OpenTables \cup {"customers", "employees"}
  /\ DOMAIN DemoSchema = DOMAIN DemoSource
  /\ Opaque \notin DOMAIN DemoSource
<1>1. DOMAIN DemoSource = OpenTables \cup {"customers", "employees"}
  BY DEF DemoSource, OpenTables
<1>2. DOMAIN DemoSchema = DOMAIN DemoSource
  BY DemoCatalogued DEF DemoSchema, SchemaLabels, ReadSchema
<1>3. /\ Opaque # "products" /\ Opaque # "orders" /\ Opaque # "deliveries"
      /\ Opaque # "stock_movements" /\ Opaque # "customers" /\ Opaque # "employees"
  BY Zenon DEF Opaque
<1> QED BY <1>1, <1>2, <1>3 DEF OpenTables

(* What the policy reads of the tables is what is written there. *)
LEMMA DemoReads ==
  \A t \in DOMAIN DemoSource :
    /\ DemoSchema[t].label = ParseLabel(DemoSource[t].comment)
    /\ DOMAIN DemoSchema[t].columns = DOMAIN DemoSource[t].columns
    /\ \A c \in DOMAIN DemoSource[t].columns :
         DemoSchema[t].columns[c] = ParseLabel(DemoSource[t].columns[c])
BY DemoCatalogued DEF DemoSchema, SchemaLabels, ReadSchema

(* A table all of whose columns have its own annotation has that label. *)
LEMMA AnnotatedLabel ==
  ASSUME NEW comment \in LevelNames, NEW columns, NEW t \in DOMAIN DemoSource,
         DemoSource[t] = Annotated(comment, columns)
  PROVE  TableLabel(DemoSchema[t]) = Levels[comment]
<1>1. PICK table : table = DemoSchema[t]
  OBVIOUS
<1>2. /\ DemoSource[t].comment = comment /\ DOMAIN DemoSource[t].columns = columns
      /\ \A c \in columns : DemoSource[t].columns[c] = comment
  BY DEF Annotated
<1>3. /\ ParseOrRestricted(table.label) = Levels[comment]
      /\ \A c \in DOMAIN table.columns : ParseOrRestricted(table.columns[c]) = Levels[comment]
  BY <1>1, <1>2, DemoReads DEF ParseLabel, ParseOrRestricted
<1>4. PICK own : own = Levels[comment]
  OBVIOUS
<1>5. own \in Label
  BY <1>4, LevelsAre DEF Label
<1>6. TableLabel(table) \in Label /\ TableLabel(table) >= own
  BY <1>3, <1>4, TableLabels
<1>7. TableLabel(table) <= own
  BY <1>3, <1>4, <1>5, TableLabelWithin DEF Label
<1> QED BY <1>1, <1>4, <1>5, <1>6, <1>7 DEF Label

(* The labels of the tables: two are above internal, one by a single column. *)
LEMMA DemoLabels ==
  /\ TableLabel(DemoSchema["products"]) = 0
  /\ TableLabel(DemoSchema["orders"]) = 1
  /\ TableLabel(DemoSchema["deliveries"]) = 1
  /\ TableLabel(DemoSchema["stock_movements"]) = 1
  /\ TableLabel(DemoSchema["customers"]) = Restricted
  /\ TableLabel(DemoSchema["employees"]) = Restricted
<1>1. TableLabel(DemoSchema["products"]) = 0
  <2>1. \E columns : DemoSource["products"] = Annotated("public", columns)
    BY DEF DemoSource
  <2> QED BY <2>1, AnnotatedLabel, LevelsAre, DemoTables DEF OpenTables
<1>2. ASSUME NEW t \in {"orders", "deliveries", "stock_movements"}
      PROVE  TableLabel(DemoSchema[t]) = 1
  <2>1. \E columns : DemoSource[t] = Annotated("internal", columns)
    BY DEF DemoSource
  <2> QED BY <2>1, AnnotatedLabel, LevelsAre, DemoTables DEF OpenTables
<1>3. TableLabel(DemoSchema["customers"]) = Restricted
  <2>1. DemoSource["customers"].comment = "restricted"
    BY DEF DemoSource
  <2>2. ParseOrRestricted(DemoSchema["customers"].label) = Restricted
    BY <2>1, DemoReads, DemoTables, LevelsAre DEF ParseLabel, ParseOrRestricted, Restricted
  <2> QED BY <2>2, TableLabels DEF Label, Restricted
<1>4. TableLabel(DemoSchema["employees"]) = Restricted
  <2>1. "salary" \in DOMAIN DemoSource["employees"].columns
        /\ DemoSource["employees"].columns["salary"] = "restricted"
    BY DEF DemoSource
  <2>2. ParseOrRestricted(DemoSchema["employees"].columns["salary"]) = Restricted
    BY <2>1, DemoReads, DemoTables, LevelsAre DEF ParseLabel, ParseOrRestricted, Restricted
  <2>3. "salary" \in DOMAIN DemoSchema["employees"].columns
    BY <2>1, DemoReads, DemoTables
  <2> QED BY <2>2, <2>3, TableLabels DEF Label, Restricted
<1> QED BY <1>1, <1>2, <1>3, <1>4

(* What a query over the dataset is labelled: no more than internal means open tables only. *)
LEMMA DemoQuery ==
  ASSUME NEW template, template.refs \in Seq(STRING)
  PROVE  QueryLabel(template, DemoSchema) <= 1 <=>
           /\ ~template.comma
           /\ template.refs # << >>
           /\ \A n \in DOMAIN template.refs : template.refs[n] \in OpenTables
<1>1. PICK l : l = QueryLabel(template, DemoSchema)
  OBVIOUS
<1>2. ASSUME l <= 1
      PROVE  /\ ~template.comma
             /\ template.refs # << >>
             /\ \A n \in DOMAIN template.refs : template.refs[n] \in OpenTables
  <2>1. l # Restricted
    BY <1>2 DEF Restricted
  <2>2. /\ Resolvable(template) /\ template.refs # << >>
        /\ ReferencedTables(template) \subseteq DOMAIN DemoSchema
    BY <1>1, <2>1 DEF QueryLabel
  <2>3. \A t \in ReferencedTables(template) : l >= TableLabel(DemoSchema[t])
    BY <1>1, <2>1, QueryLabels
  <2>4. ASSUME NEW n \in DOMAIN template.refs
        PROVE  template.refs[n] \in OpenTables
    <3>1. PICK t : t = template.refs[n]
      OBVIOUS
    <3>2. t \in ReferencedTables(template)
      BY <3>1 DEF ReferencedTables
    <3>3. t \in OpenTables \cup {"customers", "employees"}
      BY <2>2, <3>2, DemoTables
    <3>4. l >= TableLabel(DemoSchema[t])
      BY <2>3, <3>2
    <3>5. ASSUME TableLabel(DemoSchema[t]) = Restricted
          PROVE  FALSE
      <4>1. l >= 3 /\ l \in Label
        BY <1>1, <3>4, <3>5, QueryLabels DEF Restricted
      <4> QED BY <1>2, <4>1 DEF Label
    <3>6. t # "customers" /\ t # "employees"
      BY <3>5, DemoLabels
    <3> QED BY <3>1, <3>3, <3>6
  <2> QED BY <2>2, <2>4 DEF Resolvable
<1>3. ASSUME ~template.comma, template.refs # << >>,
             \A n \in DOMAIN template.refs : template.refs[n] \in OpenTables
      PROVE  l <= 1
  <2>1. Resolvable(template)
    BY <1>3, DemoTables DEF Resolvable
  <2>2. ReferencedTables(template) \subseteq OpenTables
    BY <1>3 DEF ReferencedTables
  <2>3. \A t \in ReferencedTables(template) : TableLabel(DemoSchema[t]) <= 1
    BY <2>2, DemoLabels DEF OpenTables
  <2>4. ReferencedTables(template) \subseteq DOMAIN DemoSchema
    BY <2>2, DemoTables
  <2> QED BY <1>1, <1>3, <2>1, <2>3, <2>4, QueryLabelWithin DEF Label
<1> QED BY <1>1, <1>2, <1>3

(* A query of one table of the dataset has the table's label. *)
LEMMA DemoQueryOfOne ==
  ASSUME NEW template, NEW t \in DOMAIN DemoSource,
         ~template.comma, template.refs = << t >>
  PROVE  QueryLabel(template, DemoSchema) = TableLabel(DemoSchema[t])
<1>1. DOMAIN template.refs = {1} /\ template.refs[1] = t
  OBVIOUS
<1>2. Resolvable(template) /\ ReferencedTables(template) = {t} /\ t \in DOMAIN DemoSchema
  BY <1>1, DemoTables DEF Resolvable, ReferencedTables
<1>3. PICK l : l = TableLabel(DemoSchema[t])
  OBVIOUS
<1>4. { TableLabel(DemoSchema[u]) : u \in ReferencedTables(template) } = {l}
  BY <1>2, <1>3
<1>5. QueryLabel(template, DemoSchema) = Max({l})
  BY <1>2, <1>4 DEF QueryLabel
<1>6. {l} \in SUBSET Label
  BY <1>3, TableLabels
<1>7. Max({l}) = l
  BY <1>6, GreatestLabel
<1> QED BY <1>3, <1>5, <1>7

(* Whatever queries there are read one table, and no other. *)
ReadsOnly(steps, t) ==
  \A j \in DOMAIN steps :
    steps[j].type = "query" => ~steps[j].template.comma /\ steps[j].template.refs = << t >>

LEMMA QueryReadsOnly ==
  ASSUME NEW t, NEW placeholders, NEW params
  PROVE  /\ ~Query(t, placeholders, params).template.comma
         /\ Query(t, placeholders, params).template.refs = << t >>
BY DEF Query

LEMMA ThreeStepsRead ==
  ASSUME NEW t, NEW placeholders, NEW params, NEW op, NEW column, NEW as, NEW group_by,
         NEW steps,
         steps = << Query(t, placeholders, params), Agg(op, column, as, group_by), Present(2, 3) >>
  PROVE  ReadsOnly(steps, t)
<1>1. DOMAIN steps = {1, 2, 3}
  OBVIOUS
<1>2. steps[2].type # "query" /\ steps[3].type # "query"
  BY DEF Agg, Present
<1>3. ~steps[1].template.comma /\ steps[1].template.refs = << t >>
  BY QueryReadsOnly
<1> QED BY <1>1, <1>2, <1>3 DEF ReadsOnly

(* The tables of the scripted plans. *)
LEMMA ScriptedRead ==
  /\ DOMAIN Scripted = 1 .. 10
  /\ \A q \in {1, 2, 3, 6, 8, 9} : ReadsOnly(Scripted[q], "orders")
  /\ ReadsOnly(Scripted[4], "deliveries")
  /\ ReadsOnly(Scripted[5], "products")
  /\ ReadsOnly(Scripted[7], "stock_movements")
  /\ ReadsOnly(Scripted[10], "customers")
<1>1. DOMAIN Scripted = 1 .. 10
  BY DEF Scripted
<1>2. ReadsOnly(Scripted[1], "orders")
  BY ThreeStepsRead DEF Scripted
<1>3. ReadsOnly(Scripted[2], "orders")
  BY ThreeStepsRead DEF Scripted, In2026
<1>4. ReadsOnly(Scripted[3], "orders")
  BY ThreeStepsRead DEF Scripted, In2026
<1>5. ReadsOnly(Scripted[6], "orders")
  BY ThreeStepsRead DEF Scripted, In2026
<1>6. ReadsOnly(Scripted[8], "orders")
  BY ThreeStepsRead DEF Scripted
<1>7. ReadsOnly(Scripted[9], "orders")
  BY ThreeStepsRead DEF Scripted, In2026
<1>8. ReadsOnly(Scripted[4], "deliveries")
  BY ThreeStepsRead DEF Scripted, In2026
<1>9. ReadsOnly(Scripted[5], "products")
  BY ThreeStepsRead DEF Scripted
<1>10. ReadsOnly(Scripted[7], "stock_movements")
  BY ThreeStepsRead DEF Scripted
<1>11. ReadsOnly(Scripted[10], "customers")
  <2>1. PICK steps : steps = Scripted[10]
    OBVIOUS
  <2>2. steps = << Query("customers", {"city"}, [city |-> Text]), Present(1, 2) >>
    BY <2>1 DEF Scripted
  <2>3. DOMAIN steps = {1, 2} /\ steps[2].type # "query"
    BY <2>2 DEF Present
  <2>4. ~steps[1].template.comma /\ steps[1].template.refs = << "customers" >>
    BY <2>2, QueryReadsOnly
  <2> QED BY <2>1, <2>3, <2>4 DEF ReadsOnly
<1> QED BY <1>1, <1>2, <1>3, <1>4, <1>5, <1>6, <1>7, <1>8, <1>9, <1>10, <1>11

(***************************************************************************)
(* The scenarios of the demo come out as they are told, for every plan     *)
(* that a model can come up with: only what is computed from the open      *)
(* tables of the dataset gets out.                                         *)
(***************************************************************************)
THEOREM ScenariosComeOut == Spec => []ScenariosHold
<1>1. ASSUME PlannerInv, outcome = "plan"
      PROVE  LET decision == Evaluate(Returned, DemoSchema, "internal")
                 queries  == { i \in Uses(Returned, Len(Returned)) : Returned[i].type = "query" }
             IN  /\ decision.allow <=>
                      \A i \in queries :
                        LET template == Returned[i].template
                        IN  /\ ~template.comma
                            /\ template.refs # << >>
                            /\ \A n \in DOMAIN template.refs :
                                 template.refs[n] \in DOMAIN DemoSource \ {"customers", "employees"}
                 /\ \A q \in DOMAIN Scripted :
                      Returned = Scripted[q] =>
                        decision.plan_label = CASE q = 5  -> "public"
                                                [] q = 10 -> "restricted"
                                                [] OTHER  -> "internal"
  <2>1. PICK steps : steps = Returned
    OBVIOUS
  <2>2. steps \in Lists /\ ValidPlan(steps)
    BY <1>1, <2>1 DEF PlannerInv, Checked, Returned
  <2>3. IsChained(steps)
    BY <2>2, CodesAreOthers, ValidPlans
  <2>4. IsPlan(steps)
    BY <2>2, <2>3, OutputsAreLists DEF IsPlan, IsChained, Lists
  <2>5. PICK one \in DOMAIN steps :
          /\ { j \in Uses(steps, Len(steps)) : steps[j].type = "query" } = {one}
          /\ StepLabels(steps, DemoSchema)[Len(steps)] = QueryLabel(steps[one].template, DemoSchema)
    BY <2>3, <2>4, LabelOfQuery
  <2>6. steps[one].type = "query" /\ steps[one].template.refs \in Seq(STRING)
    BY <2>4, <2>5 DEF IsPlan
  <2>7. PICK decision : decision = Evaluate(steps, DemoSchema, "internal")
    OBVIOUS
  <2>8. PICK label : label = QueryLabel(steps[one].template, DemoSchema)
    OBVIOUS
  <2>9. decision.allow <=> label <= 1
    <3>1. \A i \in DOMAIN steps : StepLabels(steps, DemoSchema)[i] # Dangling
      BY <2>3, <2>4, ChainedLabels DEF Label, Dangling
    <3> QED BY <2>4, <2>5, <2>7, <2>8, <3>1, Allows, LevelsAre
  <2>10. decision.plan_label = NameOf(label)
    BY <2>3, <2>4, <2>5, <2>7, <2>8, PlanLabelIs, LevelsAre
  <2>11. ASSUME NEW q \in DOMAIN Scripted, steps = Scripted[q]
         PROVE  decision.plan_label = CASE q = 5  -> "public"
                                        [] q = 10 -> "restricted"
                                        [] OTHER  -> "internal"
    <3>1. ASSUME NEW t \in DOMAIN DemoSource, ReadsOnly(Scripted[q], t)
          PROVE  label = TableLabel(DemoSchema[t])
      <4>1. ~steps[one].template.comma /\ steps[one].template.refs = << t >>
        BY <2>6, <2>11, <3>1 DEF ReadsOnly
      <4> QED BY <2>8, <4>1, DemoQueryOfOne
    <3>2. q \in 1 .. 10
      BY ScriptedRead
    <3>3. CASE q = 5
      <4>1. label = 0
        BY <3>1, <3>3, ScriptedRead, DemoLabels, DemoTables DEF OpenTables
      <4>2. decision.plan_label = "public"
        BY <2>10, <4>1, LabelsHaveNames, LevelsAre DEF Label
      <4> QED BY <3>3, <4>2
    <3>4. CASE q = 10
      <4>1. label = Restricted
        BY <3>1, <3>4, ScriptedRead, DemoLabels, DemoTables DEF OpenTables
      <4>2. decision.plan_label = "restricted"
        BY <2>10, <4>1, LabelsHaveNames, LevelsAre DEF Label, Restricted
      <4> QED BY <3>4, <4>2
    <3>5. CASE q # 5 /\ q # 10
      <4>1. q = 4 \/ q = 7 \/ q \in {1, 2, 3, 6, 8, 9}
        BY <3>2, <3>5
      <4>2. \E t \in {"orders", "deliveries", "stock_movements"} : ReadsOnly(Scripted[q], t)
        BY <4>1, ScriptedRead
      <4>3. label = 1
        BY <3>1, <4>2, DemoLabels, DemoTables DEF OpenTables
      <4>4. decision.plan_label = "internal"
        BY <2>10, <4>3, LabelsHaveNames, LevelsAre DEF Label
      <4> QED BY <3>5, <4>4
    <3> QED BY <3>3, <3>4, <3>5
  <2>12. OpenTables = DOMAIN DemoSource \ {"customers", "employees"}
    BY DemoTables DEF OpenTables
  <2>13. decision.allow <=>
           LET template == steps[one].template
           IN  /\ ~template.comma
               /\ template.refs # << >>
               /\ \A n \in DOMAIN template.refs :
                    template.refs[n] \in DOMAIN DemoSource \ {"customers", "employees"}
    BY <2>6, <2>8, <2>9, <2>12, DemoQuery
  <2> QED BY <2>1, <2>5, <2>7, <2>11, <2>13
<1>2. PlannerInv => ScenariosHold
  BY <1>1 DEF ScenariosHold, DemoSchema
<1> QED BY <1>2, PlannerInvariant, PTL

-----------------------------------------------------------------------------
(* The steps left are a number, which is 0 at the end and only there. *)
LEMMA LeftIsNumber ==
  PlannerInv => StepsLeft \in 0 .. 2 * Attempts /\ (StepsLeft = 0 <=> pc = "done")
<1> SUFFICES ASSUME PlannerInv
             PROVE  StepsLeft \in 0 .. 2 * Attempts /\ (StepsLeft = 0 <=> pc = "done")
  OBVIOUS
<1>1. /\ Attempts \in Nat \ {0} /\ calls \in 0 .. Attempts /\ pc \in {"call", "answer", "demo", "done"}
      /\ pc = "call" => calls < Attempts
      /\ pc = "answer" => calls >= 1
  BY AttemptsPositive DEF PlannerInv, TypeOK, InStep
<1> QED BY <1>1 DEF StepsLeft

(* Going on leaves one step fewer, and giving up none. *)
LEMMA GoOnLeaves ==
  ASSUME PlannerInv, pc = "answer", calls' = calls, GoOn
  PROVE  StepsLeft' < StepsLeft
<1>1. /\ Attempts \in Nat \ {0} /\ calls \in 0 .. Attempts
      /\ StepsLeft = 2 * (Attempts - calls) + 1
  BY AttemptsPositive DEF PlannerInv, TypeOK, StepsLeft
<1>2. \/ pc' = "call" /\ calls < Attempts
      \/ pc' = "done"
  BY DEF GoOn, Raise
<1> QED BY <1>1, <1>2 DEF StepsLeft

LEMMA PlannerGetsOn == PlannerInv /\ [Next]_vars => [StepsLeft' < StepsLeft]_vars
<1> SUFFICES ASSUME PlannerInv, Generate
             PROVE  StepsLeft' < StepsLeft
  BY DEF Next, Done
<1>0. /\ Attempts \in Nat \ {0} /\ calls \in 0 .. Attempts
      /\ StepsLeft \in Nat /\ (pc # "done" => StepsLeft > 0)
      /\ pc' = "done" => StepsLeft' = 0
  BY AttemptsPositive, LeftIsNumber DEF PlannerInv, TypeOK, StepsLeft
<1>1. CASE Complete
  <2>1. pc = "call" /\ pc' = "answer" /\ calls' = calls + 1
    BY <1>1 DEF Complete
  <2> QED BY <1>0, <2>1 DEF StepsLeft
<1>2. CASE NotJson \/ Invalid
  <2>1. pc = "answer" /\ calls' = calls /\ GoOn
    BY <1>2 DEF NotJson, Invalid
  <2> QED BY <2>1, GoOnLeaves
<1>3. CASE CompletionFails \/ NotText \/ Valid \/ DemoUnknown \/ DemoFixture
  <2>1. pc # "done" /\ pc' = "done"
    BY <1>3 DEF CompletionFails, NotText, Valid, DemoUnknown, DemoFixture, Raise
  <2> QED BY <1>0, <2>1
<1> QED BY <1>1, <1>2, <1>3 DEF Generate

(***************************************************************************)
(* The loop takes at most two steps for each attempt, whatever the model   *)
(* answers: each step leaves fewer, and when none is left it has ended     *)
(* (client.py, generate_plan).                                             *)
(***************************************************************************)
THEOREM PlannerEnds ==
  Spec => /\ [](StepsLeft \in 0 .. 2 * Attempts /\ (StepsLeft = 0 <=> pc = "done"))
          /\ GetsOn
BY LeftIsNumber, PlannerGetsOn, PlannerInvariant, PTL DEF Spec, GetsOn

=============================================================================
