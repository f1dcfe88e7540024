---------------------------- MODULE Annotations ----------------------------
(***************************************************************************)
(* The egress decision while people annotate the data source: tables and   *)
(* columns are relabelled, gain and lose columns and annotations, and a    *)
(* question about the same plan is decided anew from what the adapter      *)
(* reads (evaluate in boundary/policy.py, get_schema in                    *)
(* executor/adapters/postgres.py).                                         *)
(***************************************************************************)
EXTENDS PlanDSL, TLC

CONSTANTS
  Plans,      \* plans with numbered steps, whatever they read
  Sources,    \* the annotated catalogues to begin with
  Comments,   \* level names, and comments that are no annotation
  Names,      \* the columns a table can have
  Clearances  \* what FONDACO_EGRESS_CLEARANCE can be set to

(* The validator has numbered the steps of what the policy decides on. *)
ASSUME PlansAreNumbered ==
  \A steps \in Plans :
    /\ Len(steps) \in Nat \ {0}
    /\ DOMAIN steps = 1 .. Len(steps)
    /\ \A i \in DOMAIN steps :
         /\ steps[i].id = i
         /\ steps[i].type = "query" => steps[i].template.refs \in Seq(STRING)

VARIABLES steps, source, clearance

vars == << steps, source, clearance >>

Init ==
  /\ steps \in Plans
  /\ source \in Sources
  /\ clearance \in Clearances

(* How a comment ranks: what is not an annotation ranks above confidential. *)
Rank(comment) == IF comment \in LevelNames THEN Levels[comment] ELSE Restricted

-----------------------------------------------------------------------------
(* The owners of the data edit its comments, which is outside the program. *)
AnnotateTable(t, comment) == source' = [source EXCEPT ![t].comment = comment]

AnnotateColumn(t, c, comment) ==
  /\ c \in DOMAIN source[t].columns
  /\ source' = [source EXCEPT ![t].columns[c] = comment]

AddColumn(t, c, comment) ==
  /\ c \notin DOMAIN source[t].columns
  /\ source' = [source EXCEPT ![t].columns = (c :> comment) @@ @]

DropColumn(t, c) ==
  /\ c \in DOMAIN source[t].columns
  /\ source' = [source EXCEPT ![t].columns = [d \in DOMAIN @ \ {c} |-> @[d]]]

DropTable(t) == source' = [u \in DOMAIN source \ {t} |-> source[u]]

Next ==
  /\ \E t \in DOMAIN source :
       \/ \E comment \in Comments :
            \/ AnnotateTable(t, comment)
            \/ \E c \in Names : AnnotateColumn(t, c, comment) \/ AddColumn(t, c, comment)
       \/ \E c \in Names : DropColumn(t, c)
       \/ DropTable(t)
  /\ UNCHANGED << steps, clearance >>

Spec == Init /\ [][Next]_vars

-----------------------------------------------------------------------------
(***************************************************************************)
(*                               Properties                                *)
(***************************************************************************)
DecisionNow == Evaluate(steps, SchemaLabels(ReadSchema(source)), clearance)

Allowed == DecisionNow.allow

(***************************************************************************)
(* The second source gives nothing a lower rank than the first, and shows  *)
(* no new table (one shows when it has a column: before its first one it   *)
(* is unknown, and so restricted).                                         *)
(***************************************************************************)
AtLeast(old, new) ==
  /\ Catalogued(new) \subseteq Catalogued(old)
  /\ \A t \in Catalogued(new) :
       /\ Rank(new[t].comment) >= Rank(old[t].comment)
       /\ DOMAIN old[t].columns \subseteq DOMAIN new[t].columns
       /\ \A c \in DOMAIN old[t].columns : Rank(new[t].columns[c]) >= Rank(old[t].columns[c])

(***************************************************************************)
(* "Unlabeled data can never leak by omission" (label-model.md): raising   *)
(* or removing an annotation, adding one more column of any label,         *)
(* dropping a table or its last column never turns a denied plan into an   *)
(* allowed one.                                                            *)
(***************************************************************************)
StricterNeverAllows == [][ AtLeast(source, source') /\ Allowed' => Allowed ]_vars

(***************************************************************************)
(* What an allowed plan presents comes only from queries whose every table *)
(* the scan could name and the source shows, and which carries an          *)
(* annotation within the clearance, as does each of its columns, however   *)
(* the steps are chained (at clearance restricted, everything may go out). *)
(***************************************************************************)
AllowedIsCovered ==
  Allowed /\ clearance # "restricted" =>
    /\ clearance \in LevelNames
    /\ \A i \in Uses(steps, Len(steps)) :
         steps[i].type = "query" =>
           /\ Resolvable(steps[i].template)
           /\ steps[i].template.refs # << >>
           /\ \A n \in DOMAIN steps[i].template.refs :
                LET t == steps[i].template.refs[n] IN
                /\ t \in Catalogued(source)
                /\ Rank(source[t].comment) <= Levels[clearance]
                /\ \A c \in DOMAIN source[t].columns :
                     Rank(source[t].columns[c]) <= Levels[clearance]

=============================================================================
