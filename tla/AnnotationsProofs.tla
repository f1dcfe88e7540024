------------------------- MODULE AnnotationsProofs -------------------------
(***************************************************************************)
(* Proofs about Annotations: for any plans with numbered steps, any source *)
(* and any annotations, and whatever the clearance is set to.              *)
(***************************************************************************)
EXTENDS Annotations, PolicyProofs

(* The schema that the policy reads. *)
SchemaOf(src) == SchemaLabels(ReadSchema(src))

-----------------------------------------------------------------------------
(* What the policy reads of a source ranks as what is written there does. *)
LEMMA SchemaRanks ==
  ASSUME NEW src
  PROVE  /\ DOMAIN SchemaOf(src) = Catalogued(src)
         /\ \A t \in Catalogued(src) :
              /\ ParseOrRestricted(SchemaOf(src)[t].label) = Rank(src[t].comment)
              /\ DOMAIN SchemaOf(src)[t].columns = DOMAIN src[t].columns
              /\ \A c \in DOMAIN src[t].columns :
                   ParseOrRestricted(SchemaOf(src)[t].columns[c]) = Rank(src[t].columns[c])
<1>1. \A comment : ParseOrRestricted(ParseLabel(comment)) = Rank(comment)
  BY LevelsAre DEF ParseOrRestricted, ParseLabel, Rank, Restricted
<1>2. /\ DOMAIN SchemaOf(src) = Catalogued(src)
      /\ \A t \in Catalogued(src) :
           /\ SchemaOf(src)[t].label = ParseLabel(src[t].comment)
           /\ DOMAIN SchemaOf(src)[t].columns = DOMAIN src[t].columns
           /\ \A c \in DOMAIN src[t].columns :
                SchemaOf(src)[t].columns[c] = ParseLabel(src[t].columns[c])
  BY DEF SchemaOf, SchemaLabels, ReadSchema
<1> QED BY <1>1, <1>2

(* So a table's label ranks with its comment and each of its columns'. *)
LEMMA TableRanks ==
  ASSUME NEW src, NEW t \in Catalogued(src)
  PROVE  /\ TableLabel(SchemaOf(src)[t]) \in Label
         /\ TableLabel(SchemaOf(src)[t]) >= Rank(src[t].comment)
         /\ \A c \in DOMAIN src[t].columns :
              TableLabel(SchemaOf(src)[t]) >= Rank(src[t].columns[c])
<1>1. PICK table : table = SchemaOf(src)[t]
  OBVIOUS
<1>2. /\ TableLabel(table) \in Label
      /\ TableLabel(table) >= ParseOrRestricted(table.label)
      /\ \A c \in DOMAIN table.columns :
           TableLabel(table) >= ParseOrRestricted(table.columns[c])
  BY TableLabels
<1> QED BY <1>1, <1>2, SchemaRanks

(* A comment ranks as one of the labels. *)
LEMMA RankIsLabel == \A comment : Rank(comment) \in Label
<1> SUFFICES ASSUME NEW comment
             PROVE  Rank(comment) \in Label
  OBVIOUS
<1>1. CASE comment \in LevelNames
  BY <1>1, LevelsAre DEF Rank, Label
<1>2. CASE comment \notin LevelNames
  BY <1>2 DEF Rank, Restricted, Label
<1> QED BY <1>1, <1>2

(* A plan of Plans is one that the policy can rely on. *)
LEMMA PlansArePlans == \A p \in Plans : IsPlan(p)
BY PlansAreNumbered DEF IsPlan

-----------------------------------------------------------------------------
(***************************************************************************)
(* In a plan whose steps all read what is there, everything that a step is *)
(* computed from has the step's own label.                                 *)
(***************************************************************************)
LEMMA OneLabelBehind ==
  ASSUME NEW p \in Plans, NEW schema, NEW i \in DOMAIN p,
         \A k \in DOMAIN p : StepLabels(p, schema)[k] # Dangling
  PROVE  \A k \in Uses(p, i) : k \in DOMAIN p /\ StepLabels(p, schema)[k] = StepLabels(p, schema)[i]
<1>1. PICK g : /\ StepLabels(p, schema) = [k \in DOMAIN p |-> g[k]]
               /\ \A k \in 0 .. Len(p) : g[k] = LabelAt(p, schema, g, k)
  BY PlansArePlans, StepLabelsAre
<1>2. Len(p) \in Nat /\ DOMAIN p = 1 .. Len(p) /\ \A k \in DOMAIN p : p[k].id = k
  BY PlansAreNumbered
<1>3. \A k \in DOMAIN p : g[k] # Dangling
  BY <1>1
<1>4. g[0] = Dangling
  BY <1>1, <1>2 DEF LabelAt
<1> DEFINE S == { k \in DOMAIN p : g[k] = g[i] }
<1>5. ASSUME NEW k \in S, NEW j \in DOMAIN p, p[k].type # "query", p[j].id = p[k].input
      PROVE  j \in S
  <2>1. PICK m : m = InputOf(p, k)
    OBVIOUS
  <2>2. m \in 0 .. k - 1 /\ k \in 1 .. Len(p)
    BY <1>2, <2>1, InputsAreBefore
  <2>3. g[k] = g[m]
    BY <1>1, <1>2, <1>5, <2>1, <2>2 DEF LabelAt
  <2>4. m # 0
    BY <1>3, <1>4, <2>3
  <2>5. m \in { l \in 1 .. k - 1 : p[l].id = p[k].input }
    BY <2>1, <2>2, <2>4, InputIsIts
  <2>6. m = j
    BY <1>2, <1>5, <2>2, <2>5
  <2> QED BY <2>3, <2>6
<1>6. Uses(p, i) \subseteq S
  <2>1. i \in S
    OBVIOUS
  <2>2. S \subseteq DOMAIN p
    OBVIOUS
  <2> HIDE DEF S
  <2> QED BY <1>2, <1>5, <2>1, UsesWithin
<1> QED BY <1>1, <1>6

(***************************************************************************)
(* A query whose label is within a clearance below restricted reads tables *)
(* that the source has, and nothing that ranks above the clearance.        *)
(***************************************************************************)
LEMMA QueryCovered ==
  ASSUME NEW template, template.refs \in Seq(STRING), NEW src, NEW limit \in 0 .. 2,
         QueryLabel(template, SchemaOf(src)) <= limit
  PROVE  /\ Resolvable(template)
         /\ template.refs # << >>
         /\ \A n \in DOMAIN template.refs :
              LET t == template.refs[n] IN
              /\ t \in Catalogued(src)
              /\ Rank(src[t].comment) <= limit
              /\ \A c \in DOMAIN src[t].columns : Rank(src[t].columns[c]) <= limit
<1>1. PICK l : l = QueryLabel(template, SchemaOf(src))
  OBVIOUS
<1>2. l # Restricted /\ l \in Label /\ l <= limit
  BY <1>1, QueryLabels DEF Label, Restricted
<1>3. /\ Resolvable(template) /\ template.refs # << >>
      /\ ReferencedTables(template) \subseteq DOMAIN SchemaOf(src)
  BY <1>1, <1>2 DEF QueryLabel
<1>4. \A t \in ReferencedTables(template) : l >= TableLabel(SchemaOf(src)[t])
  BY <1>1, <1>2, QueryLabels
<1>5. ASSUME NEW n \in DOMAIN template.refs, NEW t, t = template.refs[n]
      PROVE  /\ t \in Catalogued(src)
             /\ Rank(src[t].comment) <= limit
             /\ \A c \in DOMAIN src[t].columns : Rank(src[t].columns[c]) <= limit
  <2>1. t \in ReferencedTables(template)
    BY <1>5 DEF ReferencedTables
  <2>2. t \in Catalogued(src)
    BY <1>3, <2>1, SchemaRanks
  <2>3. PICK high : high = TableLabel(SchemaOf(src)[t])
    OBVIOUS
  <2>4. high \in Label /\ high <= limit
    <3>1. l >= high
      BY <1>4, <2>1, <2>3
    <3>2. high \in Label
      BY <2>3, TableLabels
    <3> QED BY <1>2, <3>1, <3>2 DEF Label
  <2>5. high >= Rank(src[t].comment) /\ \A c \in DOMAIN src[t].columns : high >= Rank(src[t].columns[c])
    BY <2>2, <2>3, TableRanks
  <2>6. \A comment : high >= Rank(comment) => Rank(comment) <= limit
    BY <2>4, RankIsLabel DEF Label
  <2> QED BY <2>2, <2>5, <2>6
<1> QED BY <1>3, <1>5

-----------------------------------------------------------------------------
(* The plan and the clearance stay as they are. *)
Settled == steps \in Plans

(***************************************************************************)
(* "Unlabeled data can never leak by omission": whatever the annotations   *)
(* are and become, an allowed plan presents what comes from queries all of *)
(* whose tables and columns are annotated within the clearance.            *)
(***************************************************************************)
THEOREM AllowedCovered == Spec => []AllowedIsCovered
<1>1. Init => Settled
  BY DEF Init, Settled
<1>2. Settled /\ [Next]_vars => Settled'
  BY DEF Settled, Next, vars
<1>3. ASSUME Settled
      PROVE  AllowedIsCovered
  <2>0. /\ steps \in Plans /\ IsPlan(steps)
        /\ Len(steps) \in DOMAIN steps
    BY <1>3, PlansArePlans, PlansAreNumbered DEF Settled
  <2>1. SUFFICES ASSUME Allowed, clearance # "restricted"
                 PROVE  /\ clearance \in LevelNames
                        /\ \A i \in Uses(steps, Len(steps)) :
                             steps[i].type = "query" =>
                               /\ Resolvable(steps[i].template)
                               /\ steps[i].template.refs # << >>
                               /\ \A n \in DOMAIN steps[i].template.refs :
                                    LET t == steps[i].template.refs[n] IN
                                    /\ t \in Catalogued(source)
                                    /\ Rank(source[t].comment) <= Levels[clearance]
                                    /\ \A c \in DOMAIN source[t].columns :
                                         Rank(source[t].columns[c]) <= Levels[clearance]
    BY DEF AllowedIsCovered
  <2>2. PICK schema : schema = SchemaOf(source)
    OBVIOUS
  <2>3. Evaluate(steps, schema, clearance).allow
    BY <2>1, <2>2 DEF Allowed, DecisionNow, SchemaOf
  <2>4. /\ clearance \in LevelNames
        /\ \A i \in DOMAIN steps : StepLabels(steps, schema)[i] # Dangling
        /\ StepLabels(steps, schema)[Len(steps)] <= Levels[clearance]
    BY <2>0, <2>3, Allows
  <2>5. Levels[clearance] \in 0 .. 2
    BY <2>1, <2>4, LevelsAre
  <2>6. PICK limit \in 0 .. 2 : limit = Levels[clearance]
    BY <2>5
  <2>7. ASSUME NEW i \in Uses(steps, Len(steps)), steps[i].type = "query"
        PROVE  /\ steps[i].template.refs \in Seq(STRING)
               /\ QueryLabel(steps[i].template, SchemaOf(source)) <= limit
    <3>1. i \in DOMAIN steps /\ StepLabels(steps, schema)[i] = StepLabels(steps, schema)[Len(steps)]
      BY <2>0, <2>4, OneLabelBehind
    <3>2. PICK g : /\ StepLabels(steps, schema) = [k \in DOMAIN steps |-> g[k]]
                   /\ \A k \in 0 .. Len(steps) : g[k] = LabelAt(steps, schema, g, k)
      BY <2>0, StepLabelsAre
    <3>3. StepLabels(steps, schema)[i] = QueryLabel(steps[i].template, schema)
      BY <2>0, <2>7, <3>1, <3>2, PlansAreNumbered DEF LabelAt
    <3> QED BY <2>0, <2>2, <2>4, <2>6, <2>7, <3>1, <3>3 DEF IsPlan
  <2>8. ASSUME NEW i \in Uses(steps, Len(steps)), steps[i].type = "query",
               NEW template, template = steps[i].template
        PROVE  /\ Resolvable(template)
               /\ template.refs # << >>
               /\ \A n \in DOMAIN template.refs :
                    LET t == template.refs[n] IN
                    /\ t \in Catalogued(source)
                    /\ Rank(source[t].comment) <= limit
                    /\ \A c \in DOMAIN source[t].columns : Rank(source[t].columns[c]) <= limit
    BY <2>7, <2>8, QueryCovered
  <2> QED BY <2>4, <2>6, <2>8
<1> QED BY <1>1, <1>2, <1>3, PTL DEF Spec

(* What ranks no lower in the source labels no table lower in the schema. *)
LEMMA StricterSchema ==
  ASSUME NEW old, NEW new, AtLeast(old, new)
  PROVE  AtLeastAsStrict(SchemaOf(old), SchemaOf(new))
<1>1. DOMAIN SchemaOf(new) \subseteq DOMAIN SchemaOf(old)
  BY SchemaRanks DEF AtLeast
<1>2. ASSUME NEW t \in Catalogued(new)
      PROVE  TableLabel(SchemaOf(old)[t]) <= TableLabel(SchemaOf(new)[t])
  <2>1. t \in Catalogued(old)
    BY DEF AtLeast
  <2>2. PICK high : high = TableLabel(SchemaOf(new)[t])
    OBVIOUS
  <2>3. /\ high \in Label /\ high >= Rank(new[t].comment)
        /\ \A c \in DOMAIN new[t].columns : high >= Rank(new[t].columns[c])
    BY <2>2, TableRanks
  <2>4. /\ high >= Rank(old[t].comment)
        /\ \A c \in DOMAIN old[t].columns : high >= Rank(old[t].columns[c])
    <3>1. /\ Rank(new[t].comment) >= Rank(old[t].comment)
          /\ DOMAIN old[t].columns \subseteq DOMAIN new[t].columns
          /\ \A c \in DOMAIN old[t].columns : Rank(new[t].columns[c]) >= Rank(old[t].columns[c])
      BY DEF AtLeast
    <3>2. \A a, b : high >= Rank(a) /\ Rank(a) >= Rank(b) => high >= Rank(b)
      BY <2>3, RankIsLabel DEF Label
    <3> QED BY <2>3, <3>1, <3>2
  <2>5. PICK table : table = SchemaOf(old)[t]
    OBVIOUS
  <2>6. /\ high >= ParseOrRestricted(table.label)
        /\ \A c \in DOMAIN table.columns : high >= ParseOrRestricted(table.columns[c])
    BY <2>1, <2>4, <2>5, SchemaRanks
  <2>7. TableLabel(table) <= high
    BY <2>3, <2>6, TableLabelWithin
  <2> QED BY <2>2, <2>5, <2>7
<1> QED BY <1>1, <1>2, SchemaRanks DEF AtLeastAsStrict

(***************************************************************************)
(* A stricter source allows no more: whatever is raised, loses its         *)
(* annotation, gains a column or is dropped, a plan that is allowed        *)
(* afterwards was allowed before.                                          *)
(***************************************************************************)
THEOREM StricterAllowsNoMore == Spec => StricterNeverAllows
<1>1. Init => Settled
  BY DEF Init, Settled
<1>2. Settled /\ [Next]_vars => Settled'
  BY DEF Settled, Next, vars
<1>3. ASSUME Settled, [Next]_vars, AtLeast(source, source'), Allowed'
      PROVE  Allowed
  <2>0. steps \in Plans /\ IsPlan(steps) /\ Len(steps) \in DOMAIN steps
    BY <1>3, PlansArePlans, PlansAreNumbered DEF Settled
  <2>1. steps' = steps /\ clearance' = clearance
    BY <1>3 DEF Next, vars
  <2>2. PICK old, new : old = SchemaOf(source) /\ new = SchemaOf(source')
    OBVIOUS
  <2>3. AtLeastAsStrict(old, new)
    BY <1>3, <2>2, StricterSchema
  <2>4. Evaluate(steps, new, clearance).allow
    BY <1>3, <2>1, <2>2 DEF Allowed, DecisionNow, SchemaOf
  <2>5. /\ clearance \in LevelNames
        /\ \A i \in DOMAIN steps : StepLabels(steps, new)[i] # Dangling
        /\ StepLabels(steps, new)[Len(steps)] <= Levels[clearance]
    BY <2>0, <2>4, Allows
  <2>6. \A i \in DOMAIN steps : /\ StepLabels(steps, old)[i] # Dangling
                               /\ StepLabels(steps, old)[i] <= StepLabels(steps, new)[i]
    BY <2>0, <2>3, <2>5, StepLabelsRise
  <2>7. StepLabels(steps, old)[Len(steps)] <= Levels[clearance]
    <3>1. PICK a, b, c : /\ a = StepLabels(steps, old)[Len(steps)]
                         /\ b = StepLabels(steps, new)[Len(steps)]
                         /\ c = Levels[clearance]
      OBVIOUS
    <3>2. a \in Label /\ b \in Label /\ c \in Label
      BY <2>0, <2>5, <2>6, <3>1, StepLabelsTyped, LevelsAre DEF Label
    <3> QED BY <2>0, <2>5, <2>6, <3>1, <3>2 DEF Label
  <2>8. Evaluate(steps, old, clearance).allow
    BY <2>0, <2>5, <2>6, <2>7, Allows
  <2> QED BY <2>2, <2>8 DEF Allowed, DecisionNow, SchemaOf
<1>4. Settled /\ [Next]_vars => [AtLeast(source, source') /\ Allowed' => Allowed]_vars
  BY <1>3
<1> QED BY <1>1, <1>2, <1>4, PTL DEF Spec, StricterNeverAllows

=============================================================================
