------------------------------ MODULE Service ------------------------------
(***************************************************************************)
(* The approval loop of api/main.py on the audit log of boundary/audit.py. *)
(* Gateway takes an append for one step, and its log for a list that       *)
(* outlives the process; here each line is written to the file of          *)
(* AuditLog: a write can be torn or its sync can fail, the process can die *)
(* in the middle of it, the next line can end up on what was left behind,  *)
(* and a process that finds a file that does not verify does not start.    *)
(*                                                                         *)
(* The audit page, which only reads, and edits by others are AuditLog's.   *)
(***************************************************************************)
EXTENDS Gateway

CONSTANTS
  NoPayload,    \* not an entry
  MaxAppends    \* bound: appends that reach the file

ASSUME EntriesAreReal == NoPayload \notin EntryType

VARIABLES
  file, ended, up, next_seq, prev_hash, writing,   \* AuditLog's
  reader, view, acked, written, tampers            \* AuditLog's

Disk == INSTANCE AuditLog WITH Payloads <- EntryType, MaxTampers <- 0

disk == << file, ended, up, next_seq, prev_hash, writing, reader, view, acked, written, tampers >>

(* AuditLog counts faults and lives with Gateway. *)
loop == << program, decision, status, result, approver, busy, pc, plan, todo, sid,
           used, log, source, runs, known, asked, relabels >>

all == << loop, faults, life, disk >>

InitService == Init /\ Disk!Init

(* create_app opens the log before anything can be asked. *)
Starts == Disk!Open /\ UNCHANGED loop

IsLogging(r) == busy = r /\ pc[r] \in Logging

(* What a handler does between two lines: the file is left alone. *)
Proceeds(r) ==
  /\ up
  /\ ~IsLogging(r)
  /\ Client(r) \/ Continue(r)
  /\ UNCHANGED disk

LineStarts(r) == IsLogging(r) /\ Disk!AppendStarts(Line(r)) /\ UNCHANGED loop

(* The append returns, and the handler goes on. *)
LineReturns(r) == IsLogging(r) /\ Continue(r) /\ Disk!AppendReturns

(* The append raises and ends the handler, with the line in the file or not. *)
LineRaises(r) ==
  /\ IsLogging(r)
  /\ Continue(r)
  /\ Disk!AppendRaises
  /\ log' = log <=> file' = file

(* The append raises before it writes. *)
LineRefused(r) ==
  /\ up
  /\ writing = Disk!Idle
  /\ IsLogging(r)
  /\ Continue(r)
  /\ faults' > faults
  /\ UNCHANGED << log, disk >>

(* The process dies, perhaps in the middle of a line that is all there, or is not. *)
Dies ==
  /\ Die
  /\ Disk!Crash
  /\ log' = IF file' = file THEN log ELSE Append(log, Line(busy))

NextService ==
  \/ \E r \in Requests : \/ Proceeds(r)
                         \/ LineStarts(r) \/ LineReturns(r) \/ LineRaises(r) \/ LineRefused(r)
  \/ Starts \/ (Disk!OpenRefused /\ UNCHANGED loop)
  \/ Dies

SpecService == InitService /\ [][NextService]_all

-----------------------------------------------------------------------------
(***************************************************************************)
(* A log that verifies is the trail, line by line: what the properties of  *)
(* Gateway say of its log holds of any file that passes verification,      *)
(* whatever appends raised and whenever the process died.                  *)
(***************************************************************************)
FileIsTheTrail ==
  writing = Disk!Idle /\ Disk!Verifies(file) =>
    log = [n \in DOMAIN file |-> file[n].payload]

(***************************************************************************)
(* "Approval is logged before anything else happens" (main.py, approve):   *)
(* by the time a plan runs, the decision that allows it and the approval   *)
(* by whoever runs it are in the file, synced, in this order; a file that  *)
(* verifies still shows them.                                              *)
(***************************************************************************)
RunsAreOnFile ==
  \A i \in DOMAIN runs :
    \E a, b \in DOMAIN acked :
      /\ a < b
      /\ acked[a].payload = Entry("policy_decision", runs[i].plan, "allow", NoOne, 0)
      /\ acked[b].payload = Entry("approval", runs[i].plan, "approve", runs[i].by, 0)
      /\ Disk!Verifies(file) => {acked[a], acked[b]} \subseteq { file[n] : n \in DOMAIN file }

-----------------------------------------------------------------------------
(***************************************************************************)
(* The inductive invariant behind the two, proved in ServiceProofs: those  *)
(* of Gateway and AuditLog, and what ties the loop to the file.            *)
(***************************************************************************)
(* What is being written is the line of the handler that is at it. *)
LineInProgress ==
  writing # Disk!Idle => \E r \in Requests : IsLogging(r) /\ writing.entry.payload = Line(r)

(* What is settled is the trail, if it verifies. *)
SettledIsTheTrail ==
  Disk!Verifies(Disk!Settled) =>
    log = [n \in DOMAIN Disk!Settled |-> Disk!Settled[n].payload]

SaysAllowed(e, p) == e.payload = Entry("policy_decision", p, "allow", NoOne, 0)
SaysApproved(e, p, r) == e.payload = Entry("approval", p, "approve", r, 0)

(* The decision on p and the approval by r are synced, in this order. *)
Synced(p, r) ==
  \E a, b \in DOMAIN acked : a < b /\ SaysAllowed(acked[a], p) /\ SaysApproved(acked[b], p, r)

(* So is the decision on each plan that may still be approved, and all that a run goes by. *)
SyncedFirst ==
  /\ \A p \in Plans :
       status[p] \notin {"absent", "denied"} => \E a \in DOMAIN acked : SaysAllowed(acked[a], p)
  /\ \A r \in Requests : pc[r] \in {"charge", "run"} => Synced(plan[r], r)
  /\ \A i \in DOMAIN runs : Synced(runs[i].plan, runs[i].by)

ServiceInv ==
  /\ SafetyInv /\ Disk!SafetyInv /\ tampers = 0
  /\ LineInProgress /\ SettledIsTheTrail /\ SyncedFirst

=============================================================================
