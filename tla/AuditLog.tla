------------------------------ MODULE AuditLog ------------------------------
(***************************************************************************)
(* The audit log of boundary/audit.py: a file of one entry per line, each  *)
(* with a sequence number and the hash of the entry before it.             *)
(*                                                                         *)
(* One process at a time appends to the file, from its event loop.  The    *)
(* audit page (api/main.py, audit_view) verifies and lists the file in a   *)
(* thread of its own, at the same time.  A write is not atomic: the page   *)
(* may see a part of the line, and a full disk, a failed sync or a power   *)
(* cut may leave one behind.  Other people can edit the file; they cannot  *)
(* invert the hash, and rewriting the whole chain is left out, as the      *)
(* module's documentation leaves it out.                                   *)
(*                                                                         *)
(* A hash stands for what is hashed: the hash of an entry is the hash      *)
(* before it, extended by the entry's own number, time and payload (the    *)
(* event is part of the payload).  Time is counted in appends: no two of   *)
(* them write the same entry.                                              *)
(***************************************************************************)
EXTENDS Integers, Sequences, FiniteSets, SequencesExt

CONSTANTS
  Payloads,     \* what an entry can say
  NoPayload,    \* none of them
  MaxAppends,   \* bound: appends that reach the file
  MaxFaults,    \* bound: appends that raise half way
  MaxLives,     \* bound: lives of the process
  MaxTampers    \* bound: edits made by others

ASSUME PayloadsAreReal == NoPayload \notin Payloads

VARIABLES
  file,       \* the lines of the file
  ended,      \* whether the last of them ends in a newline
  up,         \* whether a process has the log open
  next_seq,   \* its _next_seq
  prev_hash,  \* its _prev_hash
  writing,    \* the append that is in the middle of its write, if any
  reader,     \* the audit page being prepared
  view,       \* the last audit page shown
  (* Observation only: no guard reads these, bounds apart. *)
  acked,      \* the entries whose append returned, in that order
  written,    \* the entries whose append reached the file (and the clock)
  faults, life, tampers

theFile == << file, ended >>
process == << up, next_seq, prev_hash, writing >>
page == << reader, view >>

vars == << file, ended, up, next_seq, prev_hash, writing, reader, view,
           acked, written, faults, life, tampers >>

-----------------------------------------------------------------------------
GenesisHash == << >>

(* The hash of an entry without its hash. *)
EntryHash(seq, ts, payload, prev) == Append(prev, << seq, ts, payload >>)

Entry(seq, ts, payload, prev) ==
  [ readable |-> TRUE, seq |-> seq, ts |-> ts, payload |-> payload, prev |-> prev,
    hash |-> EntryHash(seq, ts, payload, prev) ]

(* A line that is not JSON: the part of an entry, or two entries on one line. *)
Junk == [ readable |-> FALSE, seq |-> 0, ts |-> 0, payload |-> NoPayload, prev |-> << >>,
          hash |-> << >> ]

(* Mutant of LineOK: the hash is not recomputed. *)
LineOKUnhashed(line, count, prev) ==
  line.readable /\ line.seq = count /\ line.prev = prev

(* Mutant of LineOK: what cannot be read is passed over. *)
LineOKLenient(line, count, prev) ==
  \/ ~line.readable
  \/ /\ line.seq = count
     /\ line.prev = prev
     /\ line.hash = EntryHash(line.seq, line.ts, line.payload, line.prev)

(* What verify checks of a line, after count lines of which prev is the last hash. *)
LineOK(line, count, prev) ==
  /\ line.readable
  /\ line.seq = count
  /\ line.prev = prev
  /\ line.hash = EntryHash(line.seq, line.ts, line.payload, line.prev)

(* The hash that line n of lines is chained to. *)
HashBefore(lines, n) == IF n = 1 THEN GenesisHash ELSE lines[n - 1].hash

(* verify().ok; the file need not end in a newline. *)
Verifies(lines) ==
  \A n \in DOMAIN lines : LineOK(lines[n], n - 1, HashBefore(lines, n))

LastHash(lines) == IF lines = << >> THEN GenesisHash ELSE Last(lines).hash

Idle == [ entry |-> Junk, line |-> Junk ]

NoReader == [ pc |-> "idle", count |-> 0, prev |-> GenesisHash, verdict |-> "none", acked |-> 0 ]

NoView == [ verdict |-> "none", verified |-> 0, listed |-> 0, acked |-> 0, quiet |-> TRUE ]

Init ==
  /\ file = << >>
  /\ ended = TRUE
  /\ up = FALSE
  /\ next_seq = 0
  /\ prev_hash = GenesisHash
  /\ writing = Idle
  /\ reader = NoReader
  /\ view = NoView
  /\ acked = << >>
  /\ written = {}
  /\ faults = 0
  /\ life = 1
  /\ tampers = 0

-----------------------------------------------------------------------------
(* The constructor: a log that does not verify is not opened. *)
Open ==
  /\ ~up
  /\ Verifies(file)
  /\ up' = TRUE
  /\ next_seq' = Len(file)
  /\ prev_hash' = LastHash(file)
  /\ UNCHANGED << theFile, writing, page, acked, written, faults, life, tampers >>

OpenRefused ==
  /\ ~up
  /\ ~Verifies(file)
  /\ UNCHANGED vars

(* The payload cannot be serialised, or the file cannot be opened: nothing is written. *)
AppendRefused ==
  /\ up
  /\ writing = Idle
  /\ UNCHANGED vars

(* Mutant of AppendStarts: the file is opened for writing, not for appending. *)
AppendTruncates(p) ==
  LET entry == Entry(next_seq, Cardinality(written), p, prev_hash) IN
  /\ up
  /\ writing = Idle
  /\ Cardinality(written) < MaxAppends
  /\ file' = << Junk >>
  /\ ended' = FALSE
  /\ writing' = [entry |-> entry, line |-> entry]
  /\ written' = written \cup {entry}
  /\ UNCHANGED << up, next_seq, prev_hash, page, acked, faults, life, tampers >>

(***************************************************************************)
(* append, up to the middle of its write.  On a line that has not ended    *)
(* the entry makes one unreadable line with what is there.                 *)
(***************************************************************************)
AppendStarts(p) ==
  LET entry == Entry(next_seq, Cardinality(written), p, prev_hash) IN
  /\ up
  /\ writing = Idle
  /\ Cardinality(written) < MaxAppends
  /\ file' = (IF ended THEN file ELSE Front(file)) \o << Junk >>
  /\ ended' = FALSE
  /\ writing' = [entry |-> entry, line |-> IF ended THEN entry ELSE Junk]
  /\ written' = written \cup {entry}
  /\ UNCHANGED << up, next_seq, prev_hash, page, acked, faults, life, tampers >>

(* The line as it is when all of it is in the file. *)
WholeLine == [file EXCEPT ![Len(file)] = writing.line]

(* Mutant of AppendReturns: the next entry is chained to the one before this. *)
AppendKeepsHash ==
  /\ writing # Idle
  /\ file' = WholeLine
  /\ ended' = TRUE
  /\ writing' = Idle
  /\ next_seq' = next_seq + 1
  /\ acked' = Append(acked, writing.entry)
  /\ UNCHANGED << up, prev_hash, page, written, faults, life, tampers >>

(* The rest is written and synced; only now does the process move on. *)
AppendReturns ==
  /\ writing # Idle
  /\ file' = WholeLine
  /\ ended' = TRUE
  /\ writing' = Idle
  /\ next_seq' = next_seq + 1
  /\ prev_hash' = writing.entry.hash
  /\ acked' = Append(acked, writing.entry)
  /\ UNCHANGED << up, page, written, faults, life, tampers >>

(* How far a write gets that is not finished: a part, all but the newline, or all. *)
Abandoned ==
  \/ file' = file /\ ended' = FALSE
  \/ file' = WholeLine /\ ended' \in BOOLEAN

(* The write or the sync raises: the process keeps its number and its hash. *)
AppendRaises ==
  /\ writing # Idle
  /\ faults < MaxFaults
  /\ faults' = faults + 1
  /\ Abandoned
  /\ writing' = Idle
  /\ UNCHANGED << up, next_seq, prev_hash, page, acked, written, life, tampers >>

(* The process dies, perhaps in the middle of a write; Open starts the next. *)
Crash ==
  /\ up
  /\ life < MaxLives
  /\ life' = life + 1
  /\ IF writing = Idle THEN UNCHANGED theFile ELSE Abandoned
  /\ up' = FALSE
  /\ next_seq' = 0
  /\ prev_hash' = GenesisHash
  /\ writing' = Idle
  /\ reader' = NoReader
  /\ UNCHANGED << view, acked, written, faults, tampers >>

-----------------------------------------------------------------------------
(***************************************************************************)
(* The audit page: verify() line by line, then entries(), from another     *)
(* thread.                                                                 *)
(***************************************************************************)
ViewStarts ==
  /\ up
  /\ reader.pc = "idle"
  /\ reader' = [NoReader EXCEPT !.pc = "verify", !.acked = Len(acked)]
  /\ UNCHANGED << theFile, process, view, acked, written, faults, life, tampers >>

(* Why verify stops: the line is no JSON, or its number, its chain or its hash is wrong. *)
VerdictOf(line) == IF line.readable THEN "mismatch" ELSE "unreadable"

ViewLine ==
  /\ reader.pc = "verify"
  /\ reader.count < Len(file)
  /\ LET line == file[reader.count + 1] IN
     reader' = IF LineOK(line, reader.count, reader.prev)
               THEN [reader EXCEPT !.count = @ + 1, !.prev = line.hash]
               ELSE [reader EXCEPT !.pc = "entries", !.verdict = VerdictOf(line)]
  /\ UNCHANGED << theFile, process, view, acked, written, faults, life, tampers >>

(* Mutant of ViewVerified: the last line is left out. *)
ViewVerifiedEarly ==
  /\ reader.pc = "verify"
  /\ reader.count >= Len(file) - 1
  /\ reader' = [reader EXCEPT !.pc = "entries", !.verdict = "ok"]
  /\ UNCHANGED << theFile, process, view, acked, written, faults, life, tampers >>

ViewVerified ==
  /\ reader.pc = "verify"
  /\ reader.count >= Len(file)
  /\ reader' = [reader EXCEPT !.pc = "entries", !.verdict = "ok"]
  /\ UNCHANGED << theFile, process, view, acked, written, faults, life, tampers >>

(* entries() parses every line: the page is a 500 when one is not JSON. *)
ViewShown ==
  /\ reader.pc = "entries"
  /\ reader' = NoReader
  /\ view' = IF \E n \in DOMAIN file : ~file[n].readable THEN view
             ELSE [ verdict |-> reader.verdict, verified |-> reader.count,
                    listed |-> Len(file), acked |-> reader.acked,
                    quiet |-> faults = 0 /\ tampers = 0 /\ life = 1 ]
  /\ UNCHANGED << theFile, process, acked, written, faults, life, tampers >>

(* The page prints CHAIN BROKEN whenever verify is not ok, whatever its reason. *)
SaysBroken == view.verdict \notin {"none", "ok"}

-----------------------------------------------------------------------------
(* Others edit the file, and leave it ending in a newline. *)
Edited(n, p) == [file EXCEPT ![n].payload = p]
Without(n) == SubSeq(file, 1, n - 1) \o SubSeq(file, n + 1, Len(file))
Swapped(m, n) == [file EXCEPT ![m] = file[n], ![n] = file[m]]
Cut(n) == SubSeq(file, 1, n - 1)

Tamper ==
  /\ tampers < MaxTampers
  /\ writing = Idle
  /\ tampers' = tampers + 1
  /\ \E n \in DOMAIN file :
       \/ file[n].readable /\ \E p \in Payloads : file' = Edited(n, p)
       \/ file' = Without(n)
       \/ \E m \in 1 .. n - 1 : file' = Swapped(m, n)
       \/ file' = Cut(n)
  /\ ended' = TRUE
  /\ UNCHANGED << process, page, acked, written, faults, life >>

-----------------------------------------------------------------------------
Writer ==
  \/ Open \/ OpenRefused
  \/ AppendRefused
  \/ \E p \in Payloads : AppendStarts(p)
  \/ AppendReturns
  \/ AppendRaises
  \/ Crash

Reader == ViewStarts \/ ViewLine \/ ViewVerified \/ ViewShown

Next == Writer \/ Reader \/ Tamper

Spec == Init /\ [][Next]_vars

-----------------------------------------------------------------------------
(***************************************************************************)
(*                               Properties                                *)
(***************************************************************************)
Hashes == Seq(Nat \X Nat \X Payloads)

(* What is written is an entry in order; what others edit need not be. *)
Lines ==
  { line \in [ readable : BOOLEAN, seq : Nat, ts : Nat, payload : Payloads \cup {NoPayload},
               prev : Hashes, hash : Hashes ] :
      line.readable <=> line.payload \in Payloads }

Verdicts == {"none", "ok", "unreadable", "mismatch"}

(* Every variable has its type; the process is in the middle of a write only on an unended line. *)
TypeOK ==
  /\ file \in Seq(Lines)
  /\ ended \in BOOLEAN
  /\ file = << >> => ended
  /\ up \in BOOLEAN
  /\ next_seq \in Nat
  /\ prev_hash \in Hashes
  /\ writing \in [entry : Lines, line : Lines]
  /\ writing # Idle =>
       up /\ ~ended /\ Last(file) = Junk /\ writing.entry.readable /\ writing.line \in {Junk, writing.entry}
  /\ reader \in [pc : {"idle", "verify", "entries"}, count : Nat, prev : Hashes,
                 verdict : Verdicts, acked : Nat]
  /\ view \in [verdict : Verdicts, verified : Nat, listed : Nat, acked : Nat, quiet : BOOLEAN]
  /\ acked \in Seq(Lines)
  /\ written \subseteq Lines /\ IsFiniteSet(written)
  /\ {faults, tampers} \subseteq Nat /\ life \in Nat \ {0}

(***************************************************************************)
(* "Any edit, deletion, reordering, or mid-file truncation breaks          *)
(* verification" (audit.py): in a log that verifies, every line is one     *)
(* that append wrote, and the hash of each spells the lines up to it.      *)
(***************************************************************************)
VerifiedMeansGenuine ==
  Verifies(file) =>
    \A n \in DOMAIN file :
      /\ file[n] \in written
      /\ file[n].hash = [ m \in 1 .. n |-> << file[m].seq, file[m].ts, file[m].payload >> ]

(***************************************************************************)
(* A log nobody has tampered with and that verifies holds every entry      *)
(* whose append returned, in that order: whatever appends raised and       *)
(* whenever the process died, nothing acknowledged is missing without      *)
(* verification saying so.                                                 *)
(***************************************************************************)
VerifiedMeansComplete ==
  tampers = 0 /\ Verifies(file) =>
    \E at \in [DOMAIN acked -> DOMAIN file] :
      \A m, n \in DOMAIN acked : file[at[n]] = acked[n] /\ (m < n => at[m] < at[n])

(***************************************************************************)
(* The log keeps the promise of Trail.  A line in the middle of its write  *)
(* is not there yet, unless it is being written on what was left behind.   *)
(***************************************************************************)
Settled == IF writing # Idle /\ writing.line.readable THEN Front(file) ELSE file

(* How many lines verify gets past. *)
SoundPart(lines) ==
  CHOOSE k \in 0 .. Len(lines) :
    /\ \A n \in 1 .. k : LineOK(lines[n], n - 1, HashBefore(lines, n))
    /\ k < Len(lines) => ~LineOK(lines[k + 1], k, HashBefore(lines, k + 1))

TheTrail == [ n \in 1 .. SoundPart(Settled) |-> Settled[n].payload ]

Confirmed ==
  { n \in 1 .. SoundPart(Settled) : \E m \in DOMAIN acked : acked[m].ts = Settled[n].ts }

T == INSTANCE Trail WITH trail <- TheTrail, confirmed <- Confirmed,
                         sound <- Verifies(Settled), rewrites <- tampers

(***************************************************************************)
(* Whatever appends raise and whenever the process dies, an entry that is  *)
(* confirmed is never lost, and what a failed append leaves behind is      *)
(* never covered up by later ones: but for what others do to the file, a   *)
(* log that does not verify never verifies again.                          *)
(***************************************************************************)
KeepsTheTrail == T!Spec

(***************************************************************************)
(* Between two appends the process agrees with the file on the next number *)
(* and the last hash, over restarts, when no append has raised and nobody  *)
(* has edited the file: an append to a log that verifies keeps it so.      *)
(***************************************************************************)
MemoryMatchesFile ==
  up /\ writing = Idle /\ faults = 0 /\ tampers = 0 /\ Verifies(file) =>
    next_seq = Len(file) /\ prev_hash = LastHash(file)

(***************************************************************************)
(* An audit page that says the log verifies covers every entry whose       *)
(* append had returned when it was asked for, and lists no fewer entries   *)
(* than it verified, however the appends interleave with it.               *)
(***************************************************************************)
ViewIsComplete ==
  view.verdict = "ok" /\ tampers = 0 =>
    view.acked <= view.verified /\ view.verified <= view.listed

(***************************************************************************)
(* The page can say CHAIN BROKEN of a log with which nothing is wrong,     *)
(* when verify meets a line that is being written and entries finds it     *)
(* written.  It does so for no other reason: the break is then an          *)
(* unreadable line after all that was acknowledged when the page was asked *)
(* for, never a wrong number, chain or hash, and the page lists the very   *)
(* entry that it says the chain is broken at.                              *)
(***************************************************************************)
FalseBreakIsInProgress ==
  view.quiet /\ SaysBroken =>
    /\ view.verdict = "unreadable"
    /\ view.acked <= view.verified
    /\ view.verified < view.listed

(***************************************************************************)
(* The inductive invariant behind the properties above, proved in          *)
(* AuditLogProofs.                                                         *)
(***************************************************************************)
(***************************************************************************)
(* A readable line is an entry that append wrote, its payload perhaps      *)
(* edited since; so is what is being written, and what was acknowledged.   *)
(***************************************************************************)
Provenance ==
  /\ \A e \in written : e.readable /\ e.hash = EntryHash(e.seq, e.ts, e.payload, e.prev)
  /\ \A n \in DOMAIN file :
       file[n].readable => \E e \in written : file[n] = [e EXCEPT !.payload = file[n].payload]
  /\ writing # Idle => writing.entry \in written
  /\ \A m \in DOMAIN acked : acked[m] \in written

(***************************************************************************)
(* The clock tells entries apart, and an entry whose append has not        *)
(* returned from those that are acknowledged, and from all other lines.    *)
(***************************************************************************)
Clock ==
  /\ \A e \in written : e.ts < Cardinality(written)
  /\ \A d, e \in written : d.ts = e.ts => d = e
  /\ writing # Idle =>
       /\ \A m \in DOMAIN acked : acked[m].ts # writing.entry.ts
       /\ \A n \in DOMAIN file : file[n].readable => file[n].ts # writing.entry.ts
  /\ file # << >> /\ ~ended /\ Last(file).readable =>
       \A m \in DOMAIN acked : acked[m].ts # Last(file).ts

(* Unless a line was damaged, what was acknowledged is where its number says. *)
AckedInPlace ==
  tampers = 0 /\ Verifies(Settled) =>
    \A m \in DOMAIN acked :
      /\ acked[m].seq + 1 \in DOMAIN Settled
      /\ Settled[acked[m].seq + 1] = acked[m]
      /\ \A l \in 1 .. m - 1 : acked[l].seq < acked[m].seq

(* Every acknowledged entry took a line of its own, that has ended. *)
AckedFit == tampers = 0 => Len(acked) <= IF ended THEN Len(file) ELSE Len(file) - 1

(* As long as no append has raised, the process knows what it has written. *)
MemoryFollows ==
  up /\ faults = 0 /\ tampers = 0 =>
    /\ Verifies(Settled) => next_seq = Len(Settled) /\ prev_hash = LastHash(Settled)
    /\ writing # Idle => writing.entry.seq = next_seq /\ writing.entry.prev = prev_hash

(* Until something goes wrong, all of the file verifies. *)
Pristine ==
  faults = 0 /\ tampers = 0 /\ life = 1 =>
    /\ Verifies(Settled)
    /\ writing = Idle => ended
    /\ writing # Idle => writing.line = writing.entry

(* The page has read lines that are still there, and chained to the last of them. *)
ReaderFollows ==
  tampers = 0 =>
    /\ reader.pc # "idle" => reader.count <= Len(file) /\ reader.acked <= Len(acked)
    /\ reader.pc = "entries" /\ reader.verdict = "ok" => reader.acked <= reader.count
    /\ reader.pc = "entries" /\ reader.verdict # "ok" => reader.count < Len(file)
    /\ faults = 0 /\ life = 1 =>
         /\ reader.verdict # "mismatch"
         /\ reader.pc = "entries" => reader.acked <= reader.count
         /\ reader.pc = "verify" =>
              /\ reader.count <= Len(Settled)
              /\ reader.prev = IF reader.count = 0 THEN GenesisHash ELSE file[reader.count].hash

SafetyInv ==
  /\ TypeOK /\ Provenance /\ Clock /\ AckedInPlace /\ AckedFit /\ MemoryFollows
  /\ Pristine /\ ReaderFollows /\ ViewIsComplete /\ FalseBreakIsInProgress

(* README: the log is "append-only, hash-chained, nothing skipped". *)
NothingSkipped ==
  tampers = 0 =>
    \A n \in DOMAIN acked : \E m \in DOMAIN file : file[m] = acked[n]

=============================================================================
