---------------------------- MODULE PolicyProofs ----------------------------
(***************************************************************************)
(* What the operators of the egress policy and of the plan validator       *)
(* return, for every plan, every schema and every clearance.               *)
(***************************************************************************)
EXTENDS PlanDSL, FiniteSetTheorems, SequenceTheorems, WellFoundedInduction, TLAPS

-----------------------------------------------------------------------------
(* A set of numbers has a least one, if it has any. *)
LEMMA LeastNumber ==
  \A S \in SUBSET Nat : S # {} => \E x \in S : \A y \in S : x <= y
<1> SUFFICES ASSUME NEW S \in SUBSET Nat, S # {}
             PROVE  \E x \in S : \A y \in S : x <= y
  OBVIOUS
<1>1. \A x, y \in Nat : << y, x >> \in OpToRel(<, Nat) <=> y < x
  BY DEF OpToRel
<1>2. PICK x \in S : \A y \in S : ~ (<< y, x >> \in OpToRel(<, Nat))
  BY NatLessThanWellFounded, WFMin
<1>3. \A y \in S : ~ (y < x)
  BY <1>1, <1>2
<1> QED BY <1>3

(* What holds of 0 and of the next number holds of all: induction over a set. *)
LEMMA AllNumbers ==
  \A S \in SUBSET Nat : 0 \in S /\ (\A n \in S : n + 1 \in S) => S = Nat
<1> SUFFICES ASSUME NEW S \in SUBSET Nat, 0 \in S, \A n \in S : n + 1 \in S, Nat \ S # {}
             PROVE  FALSE
  OBVIOUS
<1>1. PICK x \in Nat \ S : \A y \in Nat \ S : x <= y
  BY LeastNumber
<1>2. x - 1 \in S
  BY <1>1
<1> QED BY <1>1, <1>2

-----------------------------------------------------------------------------
(***************************************************************************)
(* Labels and their maxima.                                                *)
(***************************************************************************)
(* A set of numbers up to n has a greatest, if it has any, and Max is it. *)
LEMMA GreatestNumber ==
  \A n \in Nat : \A S \in SUBSET (0 .. n) :
    S # {} => Max(S) \in S /\ \A y \in S : Max(S) >= y
<1> SUFFICES ASSUME NEW n \in Nat, NEW S \in SUBSET (0 .. n), S # {}
             PROVE  \E x \in S : \A y \in S : x >= y
  BY DEF Max
<1> DEFINE T == { k \in Nat : n - k \in S }
<1>1. T # {}
  <2>1. PICK x \in S : TRUE
    OBVIOUS
  <2>2. n - x \in Nat /\ n - (n - x) = x
    BY <2>1
  <2> QED BY <2>1, <2>2
<1>2. PICK k \in T : \A j \in T : k <= j
  <2>1. T \in SUBSET Nat
    OBVIOUS
  <2> HIDE DEF T
  <2> QED BY <1>1, <2>1, LeastNumber
<1>3. ASSUME NEW y \in S
      PROVE  n - k >= y
  <2>1. n - y \in T
    <3>1. n - y \in Nat /\ n - (n - y) = y
      OBVIOUS
    <3> QED BY <3>1
  <2>2. k <= n - y /\ k \in Nat /\ y \in Nat
    BY <1>2, <2>1
  <2> QED BY <2>2
<1> QED BY <1>2, <1>3

(* The greatest of some labels is one of them, and a label. *)
LEMMA GreatestLabel ==
  \A S \in SUBSET Label : S # {} => Max(S) \in S /\ Max(S) \in Label /\ \A y \in S : Max(S) >= y
BY GreatestNumber DEF Label

(* The four levels. *)
LEMMA LevelsAre ==
  /\ LevelNames = {"public", "internal", "confidential", "restricted"}
  /\ Levels["public"] = 0 /\ Levels["internal"] = 1
  /\ Levels["confidential"] = 2 /\ Levels["restricted"] = 3
BY DEF Levels, LevelNames

(* Every label has a name of its own. *)
LEMMA LabelsHaveNames ==
  \A l \in Label : NameOf(l) \in LevelNames /\ Levels[NameOf(l)] = l
<1> SUFFICES ASSUME NEW l \in Label
             PROVE  \E name \in LevelNames : Levels[name] = l
  BY DEF NameOf
<1>1. l = 0 \/ l = 1 \/ l = 2 \/ l = 3
  BY DEF Label
<1> QED BY <1>1, LevelsAre

(* Whatever the schema says of a table or column, it has a label. *)
LEMMA RawLabels == \A raw : ParseOrRestricted(raw) \in Label
<1> SUFFICES ASSUME NEW raw
             PROVE  ParseOrRestricted(raw) \in Label
  OBVIOUS
<1>1. CASE raw \in LevelNames
  BY <1>1, LevelsAre DEF ParseOrRestricted, Label
<1>2. CASE raw \notin LevelNames
  BY <1>2 DEF ParseOrRestricted, Restricted, Label
<1> QED BY <1>1, <1>2

(* So has a table, and it is at least its own and at least each of its columns'. *)
LEMMA TableLabels ==
  ASSUME NEW table
  PROVE  /\ TableLabel(table) \in Label
         /\ TableLabel(table) >= ParseOrRestricted(table.label)
         /\ \A c \in DOMAIN table.columns :
              TableLabel(table) >= ParseOrRestricted(table.columns[c])
<1> DEFINE S == {ParseOrRestricted(table.label)}
                  \cup { ParseOrRestricted(table.columns[c]) : c \in DOMAIN table.columns }
<1>1. S \in SUBSET Label /\ S # {}
  BY RawLabels
<1>2. TableLabel(table) = Max(S)
  BY DEF TableLabel
<1>3. Max(S) \in Label /\ \A y \in S : Max(S) >= y
  BY <1>1, GreatestLabel
<1> QED BY <1>2, <1>3

(* And no more than what is at least all of these. *)
LEMMA TableLabelWithin ==
  ASSUME NEW table, NEW high \in Label, high >= ParseOrRestricted(table.label),
         \A c \in DOMAIN table.columns : high >= ParseOrRestricted(table.columns[c])
  PROVE  TableLabel(table) <= high
<1> DEFINE S == {ParseOrRestricted(table.label)}
                  \cup { ParseOrRestricted(table.columns[c]) : c \in DOMAIN table.columns }
<1>1. S \in SUBSET Label /\ S # {}
  BY RawLabels
<1>2. TableLabel(table) = Max(S)
  BY DEF TableLabel
<1>3. Max(S) \in S
  <2> HIDE DEF S
  <2> QED BY <1>1, GreatestLabel
<1>4. \A y \in S : high >= y
  OBVIOUS
<1>5. Max(S) \in Label /\ high >= Max(S)
  <2> HIDE DEF S
  <2> QED BY <1>1, <1>3, <1>4
<1> QED BY <1>2, <1>5 DEF Label

(* So has a query, and it is at least that of every table that its template refers to. *)
LEMMA QueryLabels ==
  ASSUME NEW template, template.refs \in Seq(STRING), NEW schema
  PROVE  /\ QueryLabel(template, schema) \in Label
         /\ \/ QueryLabel(template, schema) = Restricted
            \/ /\ Resolvable(template)
               /\ ReferencedTables(template) \subseteq DOMAIN schema
               /\ \A t \in ReferencedTables(template) :
                    QueryLabel(template, schema) >= TableLabel(schema[t])
<1> DEFINE S == { TableLabel(schema[t]) : t \in ReferencedTables(template) }
<1>1. CASE \/ ~Resolvable(template)
           \/ template.refs = << >>
           \/ ~(ReferencedTables(template) \subseteq DOMAIN schema)
  BY <1>1 DEF QueryLabel, Restricted, Label
<1>2. CASE ~(\/ ~Resolvable(template)
             \/ template.refs = << >>
             \/ ~(ReferencedTables(template) \subseteq DOMAIN schema))
  <2>1. QueryLabel(template, schema) = Max(S)
    BY <1>2 DEF QueryLabel
  <2>2. CASE S # {}
    <3>1. S \in SUBSET Label
      BY TableLabels
    <3>2. Max(S) \in Label /\ \A y \in S : Max(S) >= y
      BY <2>2, <3>1, GreatestLabel
    <3> QED BY <1>2, <2>1, <3>2
  <2>3. CASE S = {}
    <3>1. ReferencedTables(template) = {}
      BY <2>3
    <3>2. Len(template.refs) \in Nat \ {0}
      BY <1>2, EmptySeq
    <3>3. template.refs[1] \in ReferencedTables(template)
      BY <3>2 DEF ReferencedTables
    <3> QED BY <3>1, <3>3
  <2> QED BY <2>2, <2>3
<1> QED BY <1>1, <1>2

(* And no more than what is at least that of each of the tables, when all are known. *)
LEMMA QueryLabelWithin ==
  ASSUME NEW template, template.refs \in Seq(STRING), NEW schema, NEW high \in Label,
         Resolvable(template), template.refs # << >>,
         ReferencedTables(template) \subseteq DOMAIN schema,
         \A t \in ReferencedTables(template) : TableLabel(schema[t]) <= high
  PROVE  QueryLabel(template, schema) <= high
<1> DEFINE S == { TableLabel(schema[t]) : t \in ReferencedTables(template) }
<1>1. QueryLabel(template, schema) = Max(S)
  BY DEF QueryLabel
<1>2. template.refs[1] \in ReferencedTables(template)
  <2>1. Len(template.refs) \in Nat \ {0}
    BY EmptySeq
  <2> QED BY <2>1 DEF ReferencedTables
<1>3. S \in SUBSET Label /\ S # {}
  BY <1>2, TableLabels
<1>4. \A y \in S : y <= high
  OBVIOUS
<1>5. Max(S) \in S
  <2> HIDE DEF S
  <2> QED BY <1>3, GreatestLabel
<1> QED BY <1>1, <1>4, <1>5

-----------------------------------------------------------------------------
(***************************************************************************)
(* The labels of a plan's steps.  They are defined by recursion on the     *)
(* position of a step: that there is a function that solves the equation   *)
(* is shown first, for one position more at a time.                        *)
(***************************************************************************)
(* What the policy can rely on in a validated plan. *)
IsPlan(steps) ==
  /\ Len(steps) \in Nat \ {0}
  /\ DOMAIN steps = 1 .. Len(steps)
  /\ \A i \in DOMAIN steps :
       steps[i].type = "query" => steps[i].template.refs \in Seq(STRING)

(* The label at position i when those before it are g's. *)
LabelAt(steps, schema, g, i) ==
  CASE i = 0 -> Dangling
    [] i > 0 /\ steps[i].type = "query" -> QueryLabel(steps[i].template, schema)
    [] i > 0 /\ steps[i].type # "query" -> g[InputOf(steps, i)]

LabelsTo(steps, schema, n) ==
  CHOOSE g : g = [i \in 0 .. n |-> LabelAt(steps, schema, g, i)]

(* A step reads a step before it, or none. *)
LEMMA InputsAreBefore ==
  ASSUME NEW steps, NEW i \in Nat \ {0}
  PROVE  InputOf(steps, i) \in 0 .. i - 1
<1> DEFINE S == {0} \cup { j \in 1 .. i - 1 : steps[j].id = steps[i].input }
<1>1. S \in SUBSET (0 .. i - 1) /\ S # {} /\ i - 1 \in Nat
  OBVIOUS
<1>2. Max(S) \in S
  <2> HIDE DEF S
  <2> QED BY <1>1, GreatestNumber
<1>3. InputOf(steps, i) = Max(S)
  BY DEF InputOf
<1> QED BY <1>1, <1>2, <1>3

(* A step that reads one before it finds the id it names there. *)
LEMMA InputIsIts ==
  ASSUME NEW steps, NEW i \in Nat \ {0}, InputOf(steps, i) # 0
  PROVE  /\ InputOf(steps, i) \in 1 .. i - 1
         /\ steps[InputOf(steps, i)].id = steps[i].input
<1> DEFINE S == {0} \cup { j \in 1 .. i - 1 : steps[j].id = steps[i].input }
<1>1. S \in SUBSET (0 .. i - 1) /\ S # {} /\ i - 1 \in Nat
  OBVIOUS
<1>2. Max(S) \in S
  <2> HIDE DEF S
  <2> QED BY <1>1, GreatestNumber
<1>3. InputOf(steps, i) = Max(S)
  BY DEF InputOf
<1> QED BY <1>2, <1>3

(* There are labels up to any position. *)
LEMMA LabelsExist ==
  ASSUME NEW steps, NEW schema
  PROVE  \A n \in Nat : \E g : g = [i \in 0 .. n |-> LabelAt(steps, schema, g, i)]
<1> DEFINE T == { n \in Nat : \E g : g = [i \in 0 .. n |-> LabelAt(steps, schema, g, i)] }
<1>1. 0 \in T
  <2> DEFINE g == [i \in 0 .. 0 |-> Dangling]
  <2>1. \A i \in 0 .. 0 : LabelAt(steps, schema, g, i) = Dangling
    BY DEF LabelAt
  <2>2. g = [i \in 0 .. 0 |-> LabelAt(steps, schema, g, i)]
    BY <2>1
  <2> QED BY <2>2
<1>2. ASSUME NEW n \in T
      PROVE  n + 1 \in T
  <2>1. PICK g : g = [i \in 0 .. n |-> LabelAt(steps, schema, g, i)]
    OBVIOUS
  <2> DEFINE h == [i \in 0 .. n + 1 |->
                     IF i \in 0 .. n THEN g[i] ELSE LabelAt(steps, schema, g, i)]
  <2>2. ASSUME NEW i \in 0 .. n + 1
        PROVE  h[i] = LabelAt(steps, schema, h, i)
    <3>1. h[i] = LabelAt(steps, schema, g, i)
      BY <2>1
    <3>2. CASE i = 0
      BY <3>1, <3>2 DEF LabelAt
    <3>3. CASE i > 0
      <4>1. InputOf(steps, i) \in 0 .. i - 1
        BY <3>3, InputsAreBefore
      <4>2. h[InputOf(steps, i)] = g[InputOf(steps, i)]
        BY <4>1
      <4> HIDE DEF h
      <4> QED BY <3>1, <3>3, <4>2 DEF LabelAt
    <3> QED BY <3>2, <3>3
  <2>3. h = [i \in 0 .. n + 1 |-> LabelAt(steps, schema, h, i)]
    <3>1. h = [i \in 0 .. n + 1 |-> h[i]]
      OBVIOUS
    <3> HIDE DEF h
    <3> QED BY <2>2, <3>1
  <2> HIDE DEF h
  <2> QED BY <2>3
<1>3. T = Nat
  <2>1. T \in SUBSET Nat
    OBVIOUS
  <2> HIDE DEF T
  <2> QED BY <1>1, <1>2, <2>1, AllNumbers
<1> QED BY <1>3

(* So the labels of a plan solve their equation. *)
LEMMA StepLabelsAre ==
  ASSUME NEW steps, IsPlan(steps), NEW schema
  PROVE  \E g :
           /\ StepLabels(steps, schema) = [i \in DOMAIN steps |-> g[i]]
           /\ \A i \in 0 .. Len(steps) : g[i] = LabelAt(steps, schema, g, i)
<1>1. PICK g : g = LabelsTo(steps, schema, Len(steps))
  OBVIOUS
<1>2. g = [i \in 0 .. Len(steps) |-> LabelAt(steps, schema, g, i)]
  <2>1. Len(steps) \in Nat
    BY DEF IsPlan
  <2>2. PICK n \in Nat : n = Len(steps)
    BY <2>1
  <2>3. LabelsTo(steps, schema, n) = [i \in 0 .. n |-> LabelAt(steps, schema, LabelsTo(steps, schema, n), i)]
    BY LabelsExist DEF LabelsTo
  <2> QED BY <1>1, <2>2, <2>3
<1>3. StepLabels(steps, schema) = [i \in DOMAIN steps |-> g[i]]
  BY <1>1 DEF StepLabels, LabelsTo, LabelAt
<1> QED BY <1>2, <1>3

(* What holds at 0, and at a position if it holds at all before it, holds at all. *)
LEMMA AllPositions ==
  \A n \in Nat : \A T \in SUBSET (0 .. n) :
    0 \in T /\ (\A i \in 1 .. n : (\A j \in 0 .. i - 1 : j \in T) => i \in T) => T = 0 .. n
<1> SUFFICES ASSUME NEW n \in Nat, NEW T \in SUBSET (0 .. n), 0 \in T,
                    \A i \in 1 .. n : (\A j \in 0 .. i - 1 : j \in T) => i \in T,
                    NEW k \in 0 .. n, k \notin T
             PROVE  FALSE
  OBVIOUS
<1>1. PICK i \in (0 .. n) \ T : \A j \in (0 .. n) \ T : i <= j
  <2>1. (0 .. n) \ T \in SUBSET Nat /\ (0 .. n) \ T # {}
    OBVIOUS
  <2> QED BY <2>1, LeastNumber
<1>2. \A j \in 0 .. i - 1 : j \in T
  BY <1>1
<1> QED BY <1>1, <1>2

(* A step has a label, or reads a step that the plan does not have. *)
LEMMA StepLabelsTyped ==
  ASSUME NEW steps, IsPlan(steps), NEW schema, NEW i \in DOMAIN steps
  PROVE  \/ StepLabels(steps, schema)[i] = Dangling
         \/ StepLabels(steps, schema)[i] \in Label
<1>1. PICK g : /\ StepLabels(steps, schema) = [k \in DOMAIN steps |-> g[k]]
               /\ \A k \in 0 .. Len(steps) : g[k] = LabelAt(steps, schema, g, k)
  BY StepLabelsAre
<1> DEFINE T == { k \in 0 .. Len(steps) : g[k] = Dangling \/ g[k] \in Label }
<1>2. 0 \in T
  BY <1>1 DEF LabelAt, IsPlan
<1>3. ASSUME NEW k \in 1 .. Len(steps), \A j \in 0 .. k - 1 : j \in T
      PROVE  k \in T
  <2>1. g[k] = LabelAt(steps, schema, g, k)
    BY <1>1
  <2>2. CASE steps[k].type = "query"
    <3>1. QueryLabel(steps[k].template, schema) \in Label
      BY <2>2, QueryLabels DEF IsPlan
    <3>2. g[k] = QueryLabel(steps[k].template, schema)
      BY <2>1, <2>2 DEF LabelAt
    <3> QED BY <3>1, <3>2
  <2>3. CASE steps[k].type # "query"
    <3>1. InputOf(steps, k) \in T
      BY <1>3, InputsAreBefore
    <3>2. g[k] = g[InputOf(steps, k)]
      BY <2>1, <2>3 DEF LabelAt
    <3> QED BY <3>1, <3>2
  <2> QED BY <2>2, <2>3
<1>4. T = 0 .. Len(steps)
  <2>1. T \in SUBSET (0 .. Len(steps)) /\ Len(steps) \in Nat
    BY DEF IsPlan
  <2> HIDE DEF T
  <2> QED BY <1>2, <1>3, <2>1, AllPositions
<1> QED BY <1>1, <1>4 DEF IsPlan

(* Of two schemas, new names no table that old does not, and labels none of them lower. *)
AtLeastAsStrict(old, new) ==
  /\ DOMAIN new \subseteq DOMAIN old
  /\ \A t \in DOMAIN new : TableLabel(old[t]) <= TableLabel(new[t])

(* A query gets no lower a label from a stricter schema. *)
LEMMA QueryLabelRises ==
  ASSUME NEW template, template.refs \in Seq(STRING), NEW old, NEW new,
         AtLeastAsStrict(old, new)
  PROVE  QueryLabel(template, old) <= QueryLabel(template, new)
<1>1. /\ QueryLabel(template, old) \in Label /\ QueryLabel(template, new) \in Label
  BY QueryLabels
<1>2. CASE QueryLabel(template, new) = Restricted
  BY <1>1, <1>2 DEF Label, Restricted
<1>3. CASE QueryLabel(template, new) # Restricted
  <2>1. /\ Resolvable(template) /\ template.refs # << >>
        /\ ReferencedTables(template) \subseteq DOMAIN new
    BY <1>3 DEF QueryLabel
  <2>2. \A t \in ReferencedTables(template) :
          QueryLabel(template, new) >= TableLabel(new[t])
    BY <1>3, QueryLabels
  <2> DEFINE S == { TableLabel(old[t]) : t \in ReferencedTables(template) }
  <2>3. QueryLabel(template, old) = Max(S)
    BY <2>1 DEF QueryLabel, AtLeastAsStrict
  <2>4. S \in SUBSET Label /\ S # {}
    <3>1. Len(template.refs) \in Nat \ {0}
      BY <2>1, EmptySeq
    <3>2. template.refs[1] \in ReferencedTables(template)
      BY <3>1 DEF ReferencedTables
    <3> QED BY <3>2, TableLabels
  <2>5. Max(S) \in S
    <3> HIDE DEF S
    <3> QED BY <2>4, GreatestLabel
  <2>6. PICK t \in ReferencedTables(template) : QueryLabel(template, old) = TableLabel(old[t])
    BY <2>3, <2>5
  <2>7. /\ TableLabel(old[t]) <= TableLabel(new[t]) /\ TableLabel(new[t]) <= QueryLabel(template, new)
        /\ TableLabel(old[t]) \in Label /\ TableLabel(new[t]) \in Label
    BY <2>1, <2>2, TableLabels DEF AtLeastAsStrict, Label
  <2> QED BY <1>1, <2>6, <2>7 DEF Label
<1> QED BY <1>2, <1>3

(***************************************************************************)
(* Nor does any step of a plan; and whether a step reads one that the plan *)
(* does not have is nothing that the schema decides.                       *)
(***************************************************************************)
LEMMA StepLabelsRise ==
  ASSUME NEW steps, IsPlan(steps), NEW old, NEW new, NEW i \in DOMAIN steps
  PROVE  /\ StepLabels(steps, old)[i] = Dangling <=> StepLabels(steps, new)[i] = Dangling
         /\ AtLeastAsStrict(old, new) => StepLabels(steps, old)[i] <= StepLabels(steps, new)[i]
<1>1. PICK g : /\ StepLabels(steps, old) = [k \in DOMAIN steps |-> g[k]]
               /\ \A k \in 0 .. Len(steps) : g[k] = LabelAt(steps, old, g, k)
  BY StepLabelsAre
<1>2. PICK h : /\ StepLabels(steps, new) = [k \in DOMAIN steps |-> h[k]]
               /\ \A k \in 0 .. Len(steps) : h[k] = LabelAt(steps, new, h, k)
  BY StepLabelsAre
<1> DEFINE T == { k \in 0 .. Len(steps) :
                    /\ g[k] = Dangling <=> h[k] = Dangling
                    /\ AtLeastAsStrict(old, new) => g[k] <= h[k] }
<1>3. 0 \in T
  BY <1>1, <1>2 DEF LabelAt, IsPlan, Dangling
<1>4. ASSUME NEW k \in 1 .. Len(steps), \A j \in 0 .. k - 1 : j \in T
      PROVE  k \in T
  <2>1. g[k] = LabelAt(steps, old, g, k) /\ h[k] = LabelAt(steps, new, h, k)
    BY <1>1, <1>2
  <2>2. CASE steps[k].type = "query"
    <3>1. g[k] = QueryLabel(steps[k].template, old) /\ h[k] = QueryLabel(steps[k].template, new)
      BY <2>1, <2>2 DEF LabelAt
    <3>2. k \in DOMAIN steps
      BY DEF IsPlan
    <3>3. steps[k].template.refs \in Seq(STRING)
      BY <2>2, <3>2 DEF IsPlan
    <3>4. g[k] \in Label /\ h[k] \in Label
      BY <3>1, <3>3, QueryLabels
    <3>5. AtLeastAsStrict(old, new) => g[k] <= h[k]
      BY <3>1, <3>3, QueryLabelRises
    <3> QED BY <3>4, <3>5 DEF Label, Dangling
  <2>3. CASE steps[k].type # "query"
    <3>1. InputOf(steps, k) \in T
      BY <1>4, InputsAreBefore
    <3>2. g[k] = g[InputOf(steps, k)] /\ h[k] = h[InputOf(steps, k)]
      BY <2>1, <2>3 DEF LabelAt
    <3> QED BY <3>1, <3>2
  <2> QED BY <2>2, <2>3
<1>5. T = 0 .. Len(steps)
  <2>1. T \in SUBSET (0 .. Len(steps)) /\ Len(steps) \in Nat
    BY DEF IsPlan
  <2> HIDE DEF T
  <2> QED BY <1>3, <1>4, <2>1, AllPositions
<1>6. i \in T
  BY <1>5 DEF IsPlan
<1> QED BY <1>1, <1>2, <1>6

-----------------------------------------------------------------------------
(***************************************************************************)
(* The decision.                                                           *)
(***************************************************************************)
(* What it takes for a plan to be allowed, and what the decision then says. *)
LEMMA Allows ==
  ASSUME NEW steps, IsPlan(steps), NEW schema, NEW clearance
  PROVE  LET decision == Evaluate(steps, schema, clearance)
             labels == StepLabels(steps, schema)
         IN  /\ decision.allow <=>
                  /\ clearance \in LevelNames
                  /\ \A i \in DOMAIN steps : labels[i] # Dangling
                  /\ labels[Len(steps)] <= Levels[clearance]
             /\ decision.allow =>
                  /\ labels[Len(steps)] \in Label
                  /\ decision.plan_label = NameOf(labels[Len(steps)])
                  /\ Levels[decision.plan_label] = labels[Len(steps)]
<1> DEFINE labels == StepLabels(steps, schema)
           decision == Evaluate(steps, schema, clearance)
<1>1. steps # << >> /\ Len(steps) \in DOMAIN steps
  BY DEF IsPlan
<1>2. labels[Len(steps)] = Dangling \/ labels[Len(steps)] \in Label
  BY <1>1, StepLabelsTyped
<1>3. CASE clearance \notin LevelNames
  BY <1>3 DEF Evaluate, Deny, Decision
<1>4. CASE clearance \in LevelNames /\ \E i \in DOMAIN steps : labels[i] = Dangling
  BY <1>4 DEF Evaluate, Deny, Decision
<1>5. CASE clearance \in LevelNames /\ \A i \in DOMAIN steps : labels[i] # Dangling
  <2>1. decision = IF labels[Len(steps)] <= Levels[clearance]
                   THEN Decision(TRUE, NameOf(labels[Len(steps)]), "allow")
                   ELSE Decision(FALSE, NameOf(labels[Len(steps)]), "label_exceeds_clearance")
    BY <1>1, <1>5 DEF Evaluate
  <2>2. labels[Len(steps)] \in Label /\ Levels[NameOf(labels[Len(steps)])] = labels[Len(steps)]
    BY <1>1, <1>2, <1>5, LabelsHaveNames
  <2>3. PICK d, l, c : d = decision /\ l = labels[Len(steps)] /\ c = Levels[clearance]
    OBVIOUS
  <2>4. d = IF l <= c THEN Decision(TRUE, NameOf(l), "allow")
            ELSE Decision(FALSE, NameOf(l), "label_exceeds_clearance")
    BY <2>1, <2>3
  <2>5. /\ d.allow <=> l <= c
        /\ d.plan_label = NameOf(l) /\ l \in Label /\ Levels[NameOf(l)] = l
    BY <2>2, <2>3, <2>4 DEF Decision
  <2>6. /\ decision.allow <=> labels[Len(steps)] <= Levels[clearance]
        /\ decision.plan_label = NameOf(labels[Len(steps)])
        /\ labels[Len(steps)] \in Label
        /\ Levels[decision.plan_label] = labels[Len(steps)]
    BY <2>3, <2>5
  <2> HIDE DEF labels, decision
  <2>7. /\ decision.allow <=>
              /\ clearance \in LevelNames
              /\ \A i \in DOMAIN steps : labels[i] # Dangling
              /\ labels[Len(steps)] <= Levels[clearance]
        /\ decision.allow =>
              /\ labels[Len(steps)] \in Label
              /\ decision.plan_label = NameOf(labels[Len(steps)])
              /\ Levels[decision.plan_label] = labels[Len(steps)]
    BY <1>5, <2>6
  <2> QED BY <2>7 DEF labels, decision
<1> QED BY <1>3, <1>4, <1>5

-----------------------------------------------------------------------------
(***************************************************************************)
(* What a step is computed from.                                           *)
(***************************************************************************)
(* Some positions, and those that one of them reads. *)
WithInputs(steps, S) ==
  S \cup { j \in DOMAIN steps : \E k \in S :
              steps[k].type # "query" /\ steps[j].id = steps[k].input }

(* What is reached from step i after m rounds, when g is what was before. *)
RoundAt(steps, i, g, m) == IF m = 0 THEN {i} ELSE WithInputs(steps, g[m - 1])

Rounds(steps, i, n) ==
  CHOOSE g : g = [m \in 0 .. n |-> RoundAt(steps, i, g, m)]

(* Any number of rounds can be made. *)
LEMMA RoundsExist ==
  ASSUME NEW steps, NEW i
  PROVE  \A n \in Nat :
           \E g : g = [m \in 0 .. n |-> RoundAt(steps, i, g, m)]
<1> DEFINE T == { n \in Nat :
                    \E g : g = [m \in 0 .. n |-> RoundAt(steps, i, g, m)] }
<1>1. 0 \in T
  <2> DEFINE g == [m \in 0 .. 0 |-> {i}]
  <2>1. g = [m \in 0 .. 0 |-> RoundAt(steps, i, g, m)]
    BY DEF RoundAt
  <2> QED BY <2>1
<1>2. ASSUME NEW n \in T
      PROVE  n + 1 \in T
  <2>1. PICK g : g = [m \in 0 .. n |-> RoundAt(steps, i, g, m)]
    OBVIOUS
  <2> DEFINE h == [m \in 0 .. n + 1 |-> IF m \in 0 .. n THEN g[m] ELSE WithInputs(steps, g[n])]
  <2>2. ASSUME NEW m \in 0 .. n + 1
        PROVE  h[m] = RoundAt(steps, i, h, m)
    <3>1. CASE m = 0
      BY <2>1, <3>1 DEF RoundAt
    <3>2. CASE m # 0 /\ m \in 0 .. n
      <4>1. h[m] = g[m] /\ h[m - 1] = g[m - 1]
        BY <3>2
      <4>2. g[m] = WithInputs(steps, g[m - 1])
        BY <2>1, <3>2 DEF RoundAt
      <4> QED BY <3>2, <4>1, <4>2 DEF RoundAt
    <3>3. CASE m = n + 1
      <4>1. h[m] = WithInputs(steps, g[n]) /\ h[m - 1] = g[n] /\ m # 0
        BY <3>3
      <4> QED BY <4>1 DEF RoundAt
    <3> QED BY <3>1, <3>2, <3>3
  <2>3. h = [m \in 0 .. n + 1 |-> RoundAt(steps, i, h, m)]
    <3>1. h = [m \in 0 .. n + 1 |-> h[m]]
      OBVIOUS
    <3> HIDE DEF h
    <3> QED BY <2>2, <3>1
  <2> HIDE DEF h
  <2>4. n + 1 \in Nat
    OBVIOUS
  <2> QED BY <2>3, <2>4
<1>3. T = Nat
  <2>1. T \in SUBSET Nat
    OBVIOUS
  <2> HIDE DEF T
  <2> QED BY <1>1, <1>2, <2>1, AllNumbers
<1> QED BY <1>3

(* The rounds from step i, one for each step of the plan. *)
IsRounds(steps, i, g) ==
  /\ g[0] = {i}
  /\ \A n \in 1 .. Len(steps) : g[n] = WithInputs(steps, g[n - 1])

(* So the positions a step's result is computed from are reached in rounds. *)
LEMMA UsesAre ==
  ASSUME NEW steps, Len(steps) \in Nat, NEW i
  PROVE  \E g : Uses(steps, i) = g[Len(steps)] /\ IsRounds(steps, i, g)
<1>1. PICK n \in Nat : n = Len(steps)
  OBVIOUS
<1>2. PICK g : g = Rounds(steps, i, n)
  OBVIOUS
<1>3. g = [m \in 0 .. n |-> RoundAt(steps, i, g, m)]
  BY <1>2, RoundsExist DEF Rounds
<1>4. Uses(steps, i) = g[n]
  BY <1>1, <1>2 DEF Uses, Rounds, RoundAt, WithInputs
<1>5. \A m \in 0 .. n : g[m] = RoundAt(steps, i, g, m)
  BY <1>3
<1>6. IsRounds(steps, i, g)
  BY <1>1, <1>5 DEF RoundAt, IsRounds
<1> QED BY <1>1, <1>4, <1>6

(* Whatever has step i, and with a step what it reads, has all that i is computed from. *)
LEMMA UsesWithin ==
  ASSUME NEW steps, Len(steps) \in Nat, NEW i, NEW S, i \in S,
         \A k \in S, j \in DOMAIN steps :
           steps[k].type # "query" /\ steps[j].id = steps[k].input => j \in S
  PROVE  Uses(steps, i) \subseteq S
<1>0. PICK g : Uses(steps, i) = g[Len(steps)] /\ IsRounds(steps, i, g)
  BY UsesAre
<1>1. /\ g[0] = {i}
      /\ \A n \in 1 .. Len(steps) : g[n] = WithInputs(steps, g[n - 1])
  BY <1>0 DEF IsRounds
<1> DEFINE T == { n \in 0 .. Len(steps) : g[n] \subseteq S }
<1>2. 0 \in T
  BY <1>1
<1>3. ASSUME NEW n \in 1 .. Len(steps), \A m \in 0 .. n - 1 : m \in T
      PROVE  n \in T
  <2>1. n - 1 \in T
    BY <1>3
  <2>2. WithInputs(steps, g[n - 1]) \subseteq S
    BY <2>1 DEF WithInputs
  <2> QED BY <1>1, <2>2
<1>4. T = 0 .. Len(steps)
  <2>1. T \in SUBSET (0 .. Len(steps))
    OBVIOUS
  <2> HIDE DEF T
  <2> QED BY <1>2, <1>3, <2>1, AllPositions
<1> QED BY <1>0, <1>1, <1>4

-----------------------------------------------------------------------------
(***************************************************************************)
(* What the validator assures of a plan that it has no complaint of.       *)
(***************************************************************************)
(* A list of steps, to which any number of things may be wrong. *)
IsList(steps) == Len(steps) \in Nat /\ DOMAIN steps = 1 .. Len(steps)

(* The shape of a valid plan: steps by number, each on an earlier one, a present step last. *)
IsChained(steps) ==
  /\ Len(steps) \in Nat \ {0}
  /\ DOMAIN steps = 1 .. Len(steps)
  /\ \A i \in DOMAIN steps :
       /\ steps[i].id = i
       /\ steps[i].type = "present" <=> i = Len(steps)
       /\ steps[i].type # "query" => steps[i].input \in 1 .. i - 1

(* A value of its declared type is one that the adapter can convert. *)
LEMMA MatchingConverts ==
  ASSUME NEW spec, ParamValueMatches(spec)
  PROVE  Converts(spec)
<1>1. KindsOf["date"] = {"day"} /\ KindsOf["timestamp"] = {"day", "instant"}
  BY DEF KindsOf
<1>2. spec.type = "date" => spec.kind = "day"
  BY <1>1 DEF ParamValueMatches
<1>3. spec.type = "timestamp" => spec.kind \in {"day", "instant"}
  BY <1>1 DEF ParamValueMatches
<1> QED BY <1>2, <1>3 DEF Converts

(* A valid plan has the shape of one, and parameters that convert. *)
LEMMA ValidPlans ==
  ASSUME NEW steps, IsList(steps), ValidPlan(steps)
  PROVE  /\ IsChained(steps)
         /\ \A i \in DOMAIN steps : steps[i].type = "query" =>
              \A name \in DOMAIN steps[i].params : Converts(steps[i].params[name])
<1>1. SchemaAdmits(steps) /\ StructuralErrors(steps) = {}
  BY DEF ValidPlan, ValidationCodes
<1>2. Len(steps) \in Nat \ {0} /\ DOMAIN steps = 1 .. Len(steps)
  BY <1>1 DEF SchemaAdmits, IsList, MaxSteps
<1>3. \A i \in DOMAIN steps : steps[i].id = i
  BY <1>1 DEF StructuralErrors
<1>4. PresentPlaced(steps)
  BY <1>1 DEF StructuralErrors
<1>5. \A i \in DOMAIN steps : steps[i].type = "present" <=> i = Len(steps)
  BY <1>4 DEF PresentPlaced
<1>6. \A i \in DOMAIN steps : StepErrors(steps, i) = {}
  BY <1>1 DEF StructuralErrors
<1>7. ASSUME NEW i \in DOMAIN steps, steps[i].type # "query"
      PROVE  steps[i].input \in 1 .. i - 1
  <2>1. steps[i].input \in SeenBefore(steps, i)
    BY <1>6, <1>7 DEF StepErrors
  <2>2. PICK j \in 1 .. i - 1 : steps[i].input = steps[j].id
    BY <2>1 DEF SeenBefore
  <2> QED BY <1>2, <1>3, <2>2
<1>8. ASSUME NEW i \in DOMAIN steps, steps[i].type = "query", NEW name \in DOMAIN steps[i].params
      PROVE  Converts(steps[i].params[name])
  <2>1. TemplateErrors(steps[i]) = {}
    BY <1>6, <1>8 DEF StepErrors
  <2>2. ParamValueMatches(steps[i].params[name])
    BY <2>1 DEF TemplateErrors
  <2> QED BY <2>2, MatchingConverts
<1> QED BY <1>2, <1>3, <1>5, <1>7, <1>8 DEF IsChained

(* What a step of a chained plan reads is the step it names. *)
LEMMA ChainedInputs ==
  ASSUME NEW steps, IsChained(steps), NEW i \in DOMAIN steps, steps[i].type # "query"
  PROVE  InputOf(steps, i) = steps[i].input /\ InputOf(steps, i) \in 1 .. i - 1
<1>1. /\ i \in 1 .. Len(steps) /\ Len(steps) \in Nat /\ steps[i].input \in 1 .. i - 1
      /\ \A j \in 1 .. i - 1 : steps[j].id = j
  BY DEF IsChained
<1> DEFINE S == {0} \cup { j \in 1 .. i - 1 : steps[j].id = steps[i].input }
<1>2. S = {0, steps[i].input}
  BY <1>1
<1>3. S \in SUBSET (0 .. i - 1) /\ S # {} /\ i - 1 \in Nat
  BY <1>1
<1>4. InputOf(steps, i) = Max(S)
  BY DEF InputOf
<1>5. Max(S) \in S /\ \A y \in S : Max(S) >= y
  <2> HIDE DEF S
  <2> QED BY <1>3, GreatestNumber
<1>6. PICK m, n : m = Max(S) /\ n = steps[i].input
  OBVIOUS
<1>7. m \in {0, n} /\ m >= n /\ n \in 1 .. i - 1
  BY <1>1, <1>2, <1>5, <1>6
<1>8. m = n
  BY <1>1, <1>7
<1> QED BY <1>4, <1>6, <1>7, <1>8

(* Behind each step of a chained plan there are steps with one query among them. *)
LEMMA ChainedBehind ==
  ASSUME NEW steps, IsChained(steps)
  PROVE  \A i \in DOMAIN steps :
           \E S \in SUBSET DOMAIN steps : \E q \in S :
             /\ i \in S
             /\ \A k \in S : steps[k].type = "query" <=> k = q
             /\ \A k \in S : steps[k].type # "query" => steps[k].input \in S
<1> DEFINE Good(i, S, q) ==
             /\ i \in S /\ q \in S
             /\ \A k \in S : steps[k].type = "query" <=> k = q
             /\ \A k \in S : steps[k].type # "query" => steps[k].input \in S
           T == { i \in 0 .. Len(steps) : i # 0 =>
                    \E S \in SUBSET DOMAIN steps : \E q : Good(i, S, q) }
<1>0. Len(steps) \in Nat /\ DOMAIN steps = 1 .. Len(steps)
  BY DEF IsChained
<1>1. 0 \in T
  BY <1>0
<1>2. ASSUME NEW i \in 1 .. Len(steps), \A j \in 0 .. i - 1 : j \in T
      PROVE  i \in T
  <2>1. CASE steps[i].type = "query"
    <3>1. PICK S : S = {i}
      OBVIOUS
    <3>2. S \in SUBSET DOMAIN steps /\ \A k \in S : k = i
      BY <1>0, <3>1
    <3>3. Good(i, S, i)
      BY <2>1, <3>1, <3>2
    <3> HIDE DEF Good
    <3> QED BY <1>0, <3>2, <3>3
  <2>2. CASE steps[i].type # "query"
    <3>1. PICK j : j = steps[i].input
      OBVIOUS
    <3>2. j \in 1 .. i - 1
      <4>1. i \in DOMAIN steps
        BY <1>0
      <4> QED BY <2>2, <3>1, <4>1 DEF IsChained
    <3>3. j \in T
      <4> HIDE DEF T
      <4> QED BY <1>2, <3>2
    <3>4. j \in 0 .. Len(steps) /\ j # 0
      BY <1>0, <3>2
    <3>5. PICK S \in SUBSET DOMAIN steps : \E q : Good(j, S, q)
      <4> HIDE DEF Good
      <4> QED BY <3>3, <3>4
    <3>6. PICK q : Good(j, S, q)
      BY <3>5
    <3>7. Good(i, S \cup {i}, q) /\ S \cup {i} \in SUBSET DOMAIN steps
      BY <1>0, <2>2, <3>1, <3>6
    <3> HIDE DEF Good
    <3> QED BY <1>0, <3>7
  <2> QED BY <2>1, <2>2
<1>3. T = 0 .. Len(steps)
  <2>1. T \in SUBSET (0 .. Len(steps))
    OBVIOUS
  <2> HIDE DEF T
  <2> QED BY <1>0, <1>1, <1>2, <2>1, AllPositions
<1>4. ASSUME NEW i \in DOMAIN steps
      PROVE  \E S \in SUBSET DOMAIN steps : \E q : Good(i, S, q)
  <2>1. i \in T /\ i # 0
    BY <1>0, <1>3
  <2> QED BY <2>1
<1> QED BY <1>4

(* The rounds from a step go down to a query. *)
LEMMA RoundsReach ==
  ASSUME NEW steps, IsChained(steps), NEW i \in DOMAIN steps, NEW g, IsRounds(steps, i, g)
  PROVE  /\ \A n \in 0 .. Len(steps) : g[n] \subseteq DOMAIN steps
         /\ \E q \in g[Len(steps)] : steps[q].type = "query"
<1>0. /\ Len(steps) \in Nat /\ DOMAIN steps = 1 .. Len(steps)
      /\ g[0] = {i} /\ \A n \in 1 .. Len(steps) : g[n] = WithInputs(steps, g[n - 1])
  BY DEF IsChained, IsRounds
<1> DEFINE T == { n \in 0 .. Len(steps) :
                    /\ g[n] \subseteq DOMAIN steps
                    /\ \E k \in g[n] : steps[k].type = "query" \/ k <= i - n }
<1>1. 0 \in T
  BY <1>0
<1>2. ASSUME NEW n \in 1 .. Len(steps), \A m \in 0 .. n - 1 : m \in T
      PROVE  n \in T
  <2>1. n - 1 \in T
    BY <1>2
  <2>2. g[n] = WithInputs(steps, g[n - 1])
    BY <1>0
  <2>3. g[n] \subseteq DOMAIN steps /\ g[n - 1] \subseteq g[n]
    BY <2>1, <2>2 DEF WithInputs
  <2>4. PICK k \in g[n - 1] : steps[k].type = "query" \/ k <= i - (n - 1)
    BY <2>1
  <2>5. CASE steps[k].type = "query"
    BY <2>3, <2>4, <2>5
  <2>6. CASE steps[k].type # "query"
    <3>1. PICK j : j = steps[k].input
      OBVIOUS
    <3>a. k \in DOMAIN steps
      BY <2>1
    <3>2. k \in DOMAIN steps /\ j \in 1 .. k - 1
      BY <2>6, <3>1, <3>a DEF IsChained
    <3>b. j \in DOMAIN steps
      <4>1. k \in 1 .. Len(steps) /\ Len(steps) \in Nat
        BY <1>0, <3>2
      <4> QED BY <1>0, <3>2, <4>1
    <3>3. j \in DOMAIN steps /\ steps[j].id = j
      BY <3>b DEF IsChained
    <3>4. j \in g[n]
      BY <2>2, <2>6, <3>1, <3>3 DEF WithInputs
    <3>5. j <= i - n
      <4>1. k \in Int /\ i \in Int /\ n \in Int /\ j \in Int
        BY <1>0, <3>2
      <4> QED BY <2>4, <2>6, <3>2, <4>1
    <3> QED BY <2>3, <3>4, <3>5
  <2> QED BY <2>5, <2>6
<1>3. T = 0 .. Len(steps)
  <2>1. T \in SUBSET (0 .. Len(steps))
    OBVIOUS
  <2> HIDE DEF T
  <2> QED BY <1>0, <1>1, <1>2, <2>1, AllPositions
<1>4. PICK k \in g[Len(steps)] : steps[k].type = "query" \/ k <= i - Len(steps)
  BY <1>0, <1>3
<1>5. k \in DOMAIN steps
  BY <1>0, <1>3
<1>6. ~(k <= i - Len(steps))
  BY <1>0, <1>5
<1> QED BY <1>3, <1>4, <1>6

(* So one query, and no other, is behind each step of a chained plan. *)
LEMMA OneQueryBehind ==
  ASSUME NEW steps, IsChained(steps), NEW i \in DOMAIN steps
  PROVE  \E q \in DOMAIN steps : { j \in Uses(steps, i) : steps[j].type = "query" } = {q}
<1>0. Len(steps) \in Nat /\ \A j \in DOMAIN steps : steps[j].id = j
  BY DEF IsChained
<1>1. PICK S \in SUBSET DOMAIN steps : \E q \in S :
             /\ i \in S
             /\ \A k \in S : steps[k].type = "query" <=> k = q
             /\ \A k \in S : steps[k].type # "query" => steps[k].input \in S
  BY ChainedBehind
<1>2. PICK q \in S : /\ i \in S
                     /\ \A k \in S : steps[k].type = "query" <=> k = q
                     /\ \A k \in S : steps[k].type # "query" => steps[k].input \in S
  BY <1>1
<1>3. Uses(steps, i) \subseteq S
  BY <1>0, <1>2, UsesWithin
<1>4. PICK g : Uses(steps, i) = g[Len(steps)] /\ IsRounds(steps, i, g)
  BY <1>0, UsesAre
<1>5. PICK r \in Uses(steps, i) : steps[r].type = "query"
  BY <1>4, RoundsReach
<1>6. r = q
  BY <1>2, <1>3, <1>5
<1> QED BY <1>2, <1>3, <1>5, <1>6

(* In a valid plan a query is labelled by its template, another step as its input. *)
LEMMA ChainedLabels ==
  ASSUME NEW steps, IsChained(steps), IsPlan(steps), NEW schema
  PROVE  \A i \in DOMAIN steps :
           /\ StepLabels(steps, schema)[i] \in Label
           /\ StepLabels(steps, schema)[i] = IF steps[i].type = "query"
                                             THEN QueryLabel(steps[i].template, schema)
                                             ELSE StepLabels(steps, schema)[steps[i].input]
<1>0. PICK n \in Nat : n = Len(steps) /\ DOMAIN steps = 1 .. n
  BY DEF IsChained
<1>1. PICK g : /\ StepLabels(steps, schema) = [k \in DOMAIN steps |-> g[k]]
               /\ \A k \in 0 .. Len(steps) : g[k] = LabelAt(steps, schema, g, k)
  BY StepLabelsAre
<1>2. ASSUME NEW i \in 1 .. n
      PROVE  /\ steps[i].type = "query" => /\ g[i] = QueryLabel(steps[i].template, schema)
                                           /\ g[i] \in Label
             /\ steps[i].type # "query" => /\ steps[i].input \in 1 .. i - 1
                                           /\ g[i] = g[steps[i].input]
  <2>1. g[i] = LabelAt(steps, schema, g, i)
    BY <1>0, <1>1
  <2>2. CASE steps[i].type = "query"
    <3>1. g[i] = QueryLabel(steps[i].template, schema)
      BY <2>1, <2>2 DEF LabelAt
    <3>2. QueryLabel(steps[i].template, schema) \in Label
      BY <1>0, <2>2, QueryLabels DEF IsPlan
    <3> QED BY <2>2, <3>1, <3>2
  <2>3. CASE steps[i].type # "query"
    <3>1. InputOf(steps, i) = steps[i].input /\ steps[i].input \in 1 .. i - 1
      BY <1>0, <2>3, ChainedInputs
    <3>2. g[i] = g[InputOf(steps, i)]
      BY <2>1, <2>3 DEF LabelAt
    <3> QED BY <2>3, <3>1, <3>2
  <2> QED BY <2>2, <2>3
<1> DEFINE T == { i \in 0 .. n : i = 0 \/ g[i] \in Label }
<1>3. 0 \in T
  OBVIOUS
<1>4. ASSUME NEW i \in 1 .. n, \A j \in 0 .. i - 1 : j \in T
      PROVE  i \in T
  <2>1. CASE steps[i].type = "query"
    BY <1>2, <2>1
  <2>2. CASE steps[i].type # "query"
    <3>1. steps[i].input \in 1 .. i - 1 /\ g[i] = g[steps[i].input]
      BY <1>2, <2>2
    <3>2. steps[i].input \in T /\ steps[i].input # 0
      BY <1>4, <3>1
    <3> QED BY <3>1, <3>2
  <2> QED BY <2>1, <2>2
<1>5. T = 0 .. n
  <2>1. T \in SUBSET (0 .. n)
    OBVIOUS
  <2> HIDE DEF T
  <2> QED BY <1>3, <1>4, <2>1, AllPositions
<1>6. ASSUME NEW i \in DOMAIN steps
      PROVE  /\ StepLabels(steps, schema)[i] \in Label
             /\ StepLabels(steps, schema)[i] = IF steps[i].type = "query"
                                               THEN QueryLabel(steps[i].template, schema)
                                               ELSE StepLabels(steps, schema)[steps[i].input]
  <2>1. i \in 1 .. n /\ g[i] \in Label /\ StepLabels(steps, schema)[i] = g[i]
    BY <1>0, <1>1, <1>5
  <2>2. CASE steps[i].type = "query"
    BY <1>2, <2>1, <2>2
  <2>3. CASE steps[i].type # "query"
    <3>1. steps[i].input \in 1 .. i - 1 /\ g[i] = g[steps[i].input]
      BY <1>2, <2>1, <2>3
    <3>2. steps[i].input \in DOMAIN steps
      BY <1>0, <2>1, <3>1
    <3>3. StepLabels(steps, schema)[steps[i].input] = g[steps[i].input]
      BY <1>1, <3>2
    <3> QED BY <2>1, <2>3, <3>1, <3>3
  <2> QED BY <2>2, <2>3
<1> QED BY <1>6

(* Allowed or not, the policy's label for a valid plan is its last step's. *)
LEMMA PlanLabelIs ==
  ASSUME NEW steps, IsChained(steps), IsPlan(steps), NEW schema, NEW clearance \in LevelNames
  PROVE  Evaluate(steps, schema, clearance).plan_label = NameOf(StepLabels(steps, schema)[Len(steps)])
<1>1. steps # << >> /\ Len(steps) \in DOMAIN steps
  BY DEF IsPlan
<1>2. \A i \in DOMAIN steps : StepLabels(steps, schema)[i] # Dangling
  BY ChainedLabels DEF Label, Dangling
<1>3. PICK d, l, c : /\ d = Evaluate(steps, schema, clearance)
                     /\ l = StepLabels(steps, schema)[Len(steps)] /\ c = Levels[clearance]
  OBVIOUS
<1>4. d = IF l <= c THEN Decision(TRUE, NameOf(l), "allow")
          ELSE Decision(FALSE, NameOf(l), "label_exceeds_clearance")
  BY <1>1, <1>2, <1>3 DEF Evaluate
<1> QED BY <1>3, <1>4 DEF Decision

(* And that is the label of the one query behind it. *)
LEMMA LabelOfQuery ==
  ASSUME NEW steps, IsChained(steps), IsPlan(steps), NEW schema
  PROVE  \E q \in DOMAIN steps :
           /\ { j \in Uses(steps, Len(steps)) : steps[j].type = "query" } = {q}
           /\ StepLabels(steps, schema)[Len(steps)] = QueryLabel(steps[q].template, schema)
<1>0. Len(steps) \in DOMAIN steps /\ Len(steps) \in Nat /\ \A j \in DOMAIN steps : steps[j].id = j
  BY DEF IsChained
<1>1. PICK last, g : last = Len(steps) /\ g = StepLabels(steps, schema)
  OBVIOUS
<1>2. PICK q \in DOMAIN steps : { j \in Uses(steps, last) : steps[j].type = "query" } = {q}
  BY <1>0, <1>1, OneQueryBehind
<1> DEFINE S == { k \in DOMAIN steps : g[k] = g[last] }
<1>3. ASSUME NEW k \in S, NEW j \in DOMAIN steps, steps[k].type # "query", steps[j].id = steps[k].input
      PROVE  j \in S
  <2>1. g[k] = g[steps[k].input]
    BY <1>1, <1>3, ChainedLabels
  <2>2. steps[k].input = j
    BY <1>0, <1>3
  <2> QED BY <2>1, <2>2
<1>4. Uses(steps, last) \subseteq S
  <2>1. last \in S
    BY <1>0, <1>1
  <2>2. S \subseteq DOMAIN steps
    OBVIOUS
  <2> HIDE DEF S
  <2> QED BY <1>0, <1>3, <2>1, UsesWithin
<1>5. q \in Uses(steps, last) /\ steps[q].type = "query"
  BY <1>2
<1>6. g[last] = g[q]
  BY <1>4, <1>5
<1>7. g[q] = QueryLabel(steps[q].template, schema)
  BY <1>1, <1>5, ChainedLabels
<1> QED BY <1>1, <1>2, <1>6, <1>7

=============================================================================
