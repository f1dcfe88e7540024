------------------------------- MODULE Trail -------------------------------
(***************************************************************************)
(* What boundary/audit.py promises of the audit log, in terms of what      *)
(* verification makes of it: the trail is the part that verifies.  It is   *)
(* extended by one entry at a time.  An entry whose append returned is     *)
(* confirmed and stays, with all before it; one whose append did not       *)
(* return may be there, and may be lost again.  Once the log is spoilt     *)
(* nothing is added to the trail or taken from it, and no restart makes    *)
(* the log sound again.  What others do to the file is not promised.       *)
(***************************************************************************)
EXTENDS Integers, Sequences

CONSTANT Payloads

VARIABLES
  trail,      \* what the entries that verify say
  confirmed,  \* which of them are there to stay
  sound,      \* whether all of the log verifies
  rewrites    \* edits by others

vars == << trail, confirmed, sound, rewrites >>

Init ==
  /\ trail = << >>
  /\ confirmed = {}
  /\ sound = TRUE
  /\ rewrites = 0

Write ==
  /\ sound
  /\ \E p \in Payloads : trail' = Append(trail, p)
  /\ confirmed' \in {confirmed, confirmed \cup {Len(trail')}}
  /\ UNCHANGED << sound, rewrites >>

(* Half a line, a line that was overwritten, or a number that was used before. *)
Spoil ==
  /\ sound
  /\ sound' = FALSE
  /\ \/ trail' = trail
     \/ trail # << >> /\ Len(trail) \notin confirmed /\ trail' = SubSeq(trail, 1, Len(trail) - 1)
  /\ UNCHANGED << confirmed, rewrites >>

Rewrite ==
  /\ rewrites' = rewrites + 1
  /\ trail' \in Seq(Payloads)
  /\ confirmed' \subseteq DOMAIN trail'
  /\ sound' \in BOOLEAN

Next == Write \/ Spoil \/ Rewrite

Spec == Init /\ [][Next]_vars

-----------------------------------------------------------------------------
(* What follows from the promise. *)

(* The trail is a list of payloads, and what is confirmed is part of it. *)
TrailOK ==
  /\ trail \in Seq(Payloads)
  /\ confirmed \subseteq DOMAIN trail
  /\ sound \in BOOLEAN
  /\ rewrites \in Nat

(***************************************************************************)
(* But for what others do to the file, a confirmed entry stays confirmed   *)
(* and stays what and where it is, with everything before it, and a log    *)
(* that does not verify never verifies again.                              *)
(***************************************************************************)
NothingIsUndone ==
  [][ rewrites' = rewrites =>
        /\ \A n \in confirmed :
             n \in confirmed' /\ \A m \in 1 .. n : m \in DOMAIN trail' /\ trail'[m] = trail[m]
        /\ sound' => sound ]_vars

=============================================================================
