------------------------------- MODULE Guards -------------------------------
(***************************************************************************)
(* The guards of boundary/guards.py: tunable limits that cannot be         *)
(* switched off by a malformed value, the cardinality threshold on         *)
(* aggregate groups, and the per-session query budget.                     *)
(***************************************************************************)
EXTENDS Integers, Sequences, SequencesExt

(* An environment value: blank, not a number, or the number it spells. *)
Blank == [kind |-> "blank", value |-> 0]
Garbage == [kind |-> "garbage", value |-> 0]
Number(n) == [kind |-> "number", value |-> n]

(* Mutant of PositiveInt: a value that would disable a guard becomes the lowest that does not. *)
PositiveIntLowest(raw, default) ==
  IF raw.kind # "number" THEN default ELSE IF raw.value >= 1 THEN raw.value ELSE 1

(* A value that would disable a guard falls back to the default. *)
PositiveInt(raw, default) ==
  IF raw.kind = "number" /\ raw.value >= 1 THEN raw.value ELSE default

(* QueryBudget's own floor on its limit. *)
BudgetLimitOf(limit) == IF limit >= 1 THEN limit ELSE 1

(* Mutant of SuppressSmallGroups: a group that is one short of k is kept. *)
SuppressSmallerGroups(rows, sizes, k) ==
  LET kept == FoldLeftDomain(LAMBDA rest, i : IF sizes[i] >= k - 1 THEN Append(rest, rows[i]) ELSE rest,
                             << >>, rows)
  IN  [rows |-> kept, suppressed |-> Len(rows) - Len(kept)]

(***************************************************************************)
(* Keep the rows whose group has at least k members.  A threshold below 1  *)
(* or a mismatch of rows and sizes suppresses everything.                  *)
(***************************************************************************)
SuppressSmallGroups(rows, sizes, k) ==
  LET kept == IF k < 1 \/ Len(rows) # Len(sizes) THEN << >>
              ELSE FoldLeftDomain(LAMBDA rest, i : IF sizes[i] >= k THEN Append(rest, rows[i]) ELSE rest,
                                  << >>, rows)
  IN  [rows |-> kept, suppressed |-> Len(rows) - Len(kept)]

(* Mutant of Consume: a refused charge is charged all the same. *)
ConsumeAnyway(used, n, limit) == [ok |-> n >= 0 /\ used + n <= limit, used |-> used + n]

(***************************************************************************)
(* Charge n query steps to a session that has used some: all or nothing,   *)
(* so a refused charge leaves the session's count as it was.               *)
(***************************************************************************)
Consume(used, n, limit) ==
  IF n < 0 \/ used + n > limit
  THEN [ok |-> FALSE, used |-> used]
  ELSE [ok |-> TRUE, used |-> used + n]

=============================================================================
