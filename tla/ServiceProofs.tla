---------------------------- MODULE ServiceProofs ----------------------------
(***************************************************************************)
(* Proofs about Service: the approval loop on the file of the audit log.   *)
(* A step of Service is a step of both components, with two exceptions: a  *)
(* refused append is none of the file's, and a death in the middle of a    *)
(* line is none of the loop's.  So the components' inductive invariants    *)
(* are kept by their own step lemmas (AuditLogProofs, GatewayProofs), and  *)
(* what is proved here is the two exceptions and what ties them together.  *)
(***************************************************************************)
EXTENDS Service, GatewayProofs

(* What is proved of the audit log, of one that nobody else edits. *)
A == INSTANCE AuditLogProofs WITH Payloads <- EntryType, MaxTampers <- 0

-----------------------------------------------------------------------------
(* The log and what is proved of it are defined by the same module. *)
LEMMA SameLines ==
  /\ Disk!Junk = A!Junk /\ Disk!Idle = A!Idle
  /\ \A s : Disk!Verifies(s) <=> A!Verifies(s)
  /\ \A s : Disk!LastHash(s) = A!LastHash(s)
<1>1. Disk!Junk = A!Junk
  BY DEF Disk!Junk, A!Junk
<1>2. Disk!Idle = A!Idle
  BY <1>1 DEF Disk!Idle, A!Idle
<1>3. Disk!GenesisHash = A!GenesisHash
  BY DEF Disk!GenesisHash, A!GenesisHash
<1>4. ASSUME NEW seq, NEW ts, NEW p, NEW prev
      PROVE  Disk!EntryHash(seq, ts, p, prev) = A!EntryHash(seq, ts, p, prev)
  BY DEF Disk!EntryHash, A!EntryHash
<1>5. ASSUME NEW l, NEW n, NEW h
      PROVE  Disk!LineOK(l, n, h) <=> A!LineOK(l, n, h)
  BY <1>4 DEF Disk!LineOK, A!LineOK
<1>6. ASSUME NEW s, NEW n
      PROVE  Disk!HashBefore(s, n) = A!HashBefore(s, n)
  BY <1>3 DEF Disk!HashBefore, A!HashBefore
<1>7. ASSUME NEW s
      PROVE  Disk!Verifies(s) <=> A!Verifies(s)
  BY <1>5, <1>6 DEF Disk!Verifies, A!Verifies
<1>8. ASSUME NEW s
      PROVE  Disk!LastHash(s) = A!LastHash(s)
  BY <1>3 DEF Disk!LastHash, A!LastHash, Disk!Last, A!Last
<1> QED BY <1>1, <1>2, <1>7, <1>8

(* They count alike. *)
LEMMA SameSets ==
  /\ \A S : Disk!Cardinality(S) = A!Cardinality(S)
  /\ \A S : Disk!IsFiniteSet(S) <=> A!IsFiniteSet(S)
BY DEF Disk!Cardinality, A!Cardinality, Disk!IsFiniteSet, A!IsFiniteSet

(* The settled lines of one are those of the other. *)
LEMMA SameSettled == Disk!Settled = A!Settled
BY SameLines DEF Disk!Settled, A!Settled, Disk!Front, A!Front

LEMMA SameInv == Disk!SafetyInv <=> A!SafetyInv
<1>1. Disk!Hashes = A!Hashes
  BY DEF Disk!Hashes, A!Hashes
<1>2. Disk!Lines = A!Lines
  BY <1>1 DEF Disk!Lines, A!Lines
<1>a. Disk!Junk = A!Junk /\ Disk!Idle = A!Idle
  BY SameLines
<1>3. Disk!TypeOK <=> A!TypeOK
  <2>1. Disk!Verdicts = A!Verdicts
    BY DEF Disk!Verdicts, A!Verdicts
  <2>2. Disk!Last(file) = A!Last(file)
    BY DEF Disk!Last, A!Last
  <2> QED BY <1>1, <1>2, <1>a, <2>1, <2>2, SameSets DEF Disk!TypeOK, A!TypeOK
<1>4. Disk!Provenance <=> A!Provenance
  <2>1. \A n, t, p, h : Disk!EntryHash(n, t, p, h) = A!EntryHash(n, t, p, h)
    BY DEF Disk!EntryHash, A!EntryHash
  <2>2. (\A e \in written : e.readable /\ e.hash = Disk!EntryHash(e.seq, e.ts, e.payload, e.prev))
          <=> (\A e \in written : e.readable /\ e.hash = A!EntryHash(e.seq, e.ts, e.payload, e.prev))
    BY <2>1
  <2> QED BY <1>a, <2>2 DEF Disk!Provenance, A!Provenance
<1>5. Disk!Clock <=> A!Clock
  BY <1>a, SameSets DEF Disk!Clock, A!Clock, Disk!Last, A!Last
<1>6. Disk!AckedInPlace <=> A!AckedInPlace
  BY SameLines, SameSettled DEF Disk!AckedInPlace, A!AckedInPlace
<1>7. Disk!AckedFit <=> A!AckedFit
  BY DEF Disk!AckedFit, A!AckedFit
<1>8. Disk!MemoryFollows <=> A!MemoryFollows
  BY SameLines, SameSettled DEF Disk!MemoryFollows, A!MemoryFollows
<1>9. Disk!Pristine <=> A!Pristine
  BY SameLines, SameSettled DEF Disk!Pristine, A!Pristine
<1>10. Disk!ReaderFollows <=> A!ReaderFollows
  BY SameSettled DEF Disk!ReaderFollows, A!ReaderFollows, Disk!GenesisHash, A!GenesisHash
<1>11. /\ Disk!ViewIsComplete <=> A!ViewIsComplete
       /\ Disk!FalseBreakIsInProgress <=> A!FalseBreakIsInProgress
  BY DEF Disk!ViewIsComplete, A!ViewIsComplete, Disk!FalseBreakIsInProgress, A!FalseBreakIsInProgress,
         Disk!SaysBroken, A!SaysBroken
<1> QED BY <1>3, <1>4, <1>5, <1>6, <1>7, <1>8, <1>9, <1>10, <1>11 DEF Disk!SafetyInv, A!SafetyInv

(* What the log makes of its file is the same trail, too. *)
LEMMA SameTrails ==
  /\ Disk!TheTrail = A!TheTrail
  /\ Disk!Confirmed = A!Confirmed
  /\ Disk!Verifies(Disk!Settled) = A!Verifies(A!Settled)
<1>1. Disk!SoundPart(Disk!Settled) = A!SoundPart(A!Settled)
  BY SameSettled DEF Disk!SoundPart, A!SoundPart, Disk!LineOK, A!LineOK, Disk!HashBefore, A!HashBefore,
       Disk!EntryHash, A!EntryHash, Disk!GenesisHash, A!GenesisHash
<1>2. Disk!TheTrail = A!TheTrail
  BY <1>1, SameSettled DEF Disk!TheTrail, A!TheTrail
<1>3. Disk!Confirmed = A!Confirmed
  BY <1>1, SameSettled DEF Disk!Confirmed, A!Confirmed
<1>4. Disk!Verifies(Disk!Settled) = A!Verifies(A!Settled)
  BY SameSettled DEF Disk!Verifies, A!Verifies, Disk!LineOK, A!LineOK, Disk!HashBefore, A!HashBefore,
       Disk!EntryHash, A!EntryHash, Disk!GenesisHash, A!GenesisHash
<1> QED BY <1>2, <1>3, <1>4

LEMMA SamePromise ==
  /\ A!T!Init => Disk!T!Init
  /\ [A!T!Next]_(A!T!vars) => [Disk!T!Next]_(Disk!T!vars)
<1>1. A!T!Init => Disk!T!Init
  BY SameTrails DEF A!T!Init, Disk!T!Init
<1>2. (/\ Disk!TheTrail = A!TheTrail
       /\ Disk!Confirmed = A!Confirmed
       /\ Disk!Verifies(Disk!Settled) = A!Verifies(A!Settled))'
  BY SameTrails, PTL
<1>3. [A!T!Next]_(A!T!vars) => [Disk!T!Next]_(Disk!T!vars)
  BY <1>2, SameTrails DEF A!T!Next, A!T!vars, A!T!Write, A!T!Spoil, A!T!Rewrite,
       Disk!T!Next, Disk!T!vars, Disk!T!Write, Disk!T!Spoil, Disk!T!Rewrite
<1> QED BY <1>1, <1>3

(* So are their steps, and how they begin. *)
LEMMA SameSteps ==
  /\ Disk!Open => A!Open
  /\ Disk!OpenRefused => A!OpenRefused
  /\ \A p : Disk!AppendStarts(p) => A!AppendStarts(p)
  /\ Disk!AppendReturns => A!AppendReturns
  /\ Disk!AppendRaises => A!AppendRaises
  /\ Disk!Crash => A!Crash
<1>1. Disk!WholeLine = A!WholeLine
  BY DEF Disk!WholeLine, A!WholeLine
<1>2. Disk!Abandoned => A!Abandoned
  BY <1>1 DEF Disk!Abandoned, A!Abandoned
<1>3. Disk!Open => A!Open
  BY SameLines DEF Disk!Open, A!Open, Disk!theFile, A!theFile, Disk!page, A!page
<1>4. Disk!OpenRefused => A!OpenRefused
  BY SameLines DEF Disk!OpenRefused, A!OpenRefused, Disk!vars, A!vars
<1>5. ASSUME NEW p, Disk!AppendStarts(p)
      PROVE  A!AppendStarts(p)
  <2>1. \A s, t, h : Disk!Entry(s, t, p, h) = A!Entry(s, t, p, h)
    BY DEF Disk!Entry, A!Entry, Disk!EntryHash, A!EntryHash
  <2>2. Disk!Front(file) = A!Front(file)
    BY DEF Disk!Front, A!Front
  <2>3. Disk!Junk = A!Junk /\ Disk!Idle = A!Idle
    BY SameLines
  <2>4. Disk!Cardinality(written) = A!Cardinality(written)
    BY SameSets
  <2> QED BY <1>5, <2>1, <2>2, <2>3, <2>4
          DEF Disk!AppendStarts, A!AppendStarts, Disk!page, A!page
<1>6. Disk!AppendReturns => A!AppendReturns
  BY <1>1, SameLines DEF Disk!AppendReturns, A!AppendReturns, Disk!page, A!page
<1>7. Disk!AppendRaises => A!AppendRaises
  BY <1>2, SameLines DEF Disk!AppendRaises, A!AppendRaises, Disk!page, A!page
<1>8. Disk!Crash => A!Crash
  BY <1>2, SameLines DEF Disk!Crash, A!Crash, Disk!theFile, A!theFile,
       Disk!GenesisHash, A!GenesisHash, Disk!NoReader, A!NoReader
<1> QED BY <1>3, <1>4, <1>5, <1>6, <1>7, <1>8

-----------------------------------------------------------------------------
(***************************************************************************)
(* What a step of Service is to the loop and to the log.                   *)
(***************************************************************************)
(* A handler goes on, and nothing is being written. *)
Walks == Next /\ UNCHANGED << log, faults, life, disk >> /\ writing = A!Idle

(* The loop stands still. *)
Rests == UNCHANGED vars /\ (A!Open \/ A!OpenRefused \/ UNCHANGED disk)

Begins(r) == IsLogging(r) /\ A!AppendStarts(Line(r)) /\ UNCHANGED vars

Returns(r) == IsLogging(r) /\ Next /\ Wrote(r) /\ A!AppendReturns

Raises(r) ==
  /\ IsLogging(r) /\ Next /\ Raised(r) /\ status' = status
  /\ A!AppendRaises
  /\ log' = log <=> file' = file

Refuses(r) ==
  /\ Next /\ Raised(r) /\ status' = status
  /\ UNCHANGED << log, disk >> /\ writing = A!Idle

Ends ==
  /\ Die
  /\ A!Crash
  /\ log' = IF file' = file THEN log ELSE Append(log, Line(busy))

(* Clients need the loop to be free, and a handler that goes on needs to have it. *)
LEMMA WhoHasTheLoop ==
  ASSUME NEW r \in Requests
  PROVE  /\ Client(r) => busy = NoOne
         /\ Continue(r) => busy = r
<1>1. Client(r) => busy = NoOne
  BY DEF Client, AskReceived, AskEmpty, ApproveArrives, RejectArrives, Arrives, Refuse,
         ApproveResumes, RejectResumes, FormLost
<1>2. Ask(r) => busy = r
  BY DEF Ask, LogQuestion, AskNoSchema, AskNoPlan, LogNoPlan, AskPlanned, LogPlanned,
         LogValidation, LogPolicy, LogsBetween, LogsLast, At
<1>3. Approve(r) \/ LogReject(r) => busy = r
  BY DEF Approve, LogApproval, Charge, LogOverBudget, RunSucceeds, RunFails,
         LogRunFailed, LogGuard, LogDigest, LogReject, LogsBetween, LogsLast, At
<1> QED BY <1>1, <1>2, <1>3 DEF Continue

(* An append that raises sets no status. *)
LEMMA RaisesKeepStatus ==
  ASSUME NEW r \in Requests, Continue(r), pc[r] \in Logging, faults' # faults
  PROVE  status' = status
<1>1. CASE Ask(r)
  BY <1>1 DEF Ask, LogQuestion, AskNoSchema, AskNoPlan, LogNoPlan, AskPlanned, LogPlanned,
              LogValidation, LogPolicy, LogsBetween, LogsLast, Logged, records, ghosts
<1>2. CASE Approve(r) \/ LogReject(r)
  BY <1>2 DEF Approve, LogApproval, Charge, LogOverBudget, RunSucceeds, RunFails,
              LogRunFailed, LogGuard, LogDigest, LogReject, LogsBetween, LogsLast, records, ghosts
<1> QED BY <1>1, <1>2 DEF Continue

(* A handler writes a line where it logs, and only there. *)
LEMMA HandlerSteps ==
  ASSUME TypeOK, Planned, NEW r \in Requests, Client(r) \/ Continue(r)
  PROVE  /\ ~IsLogging(r) => UNCHANGED << log, faults, life >>
         /\ IsLogging(r) => Wrote(r) \/ Raised(r)
<1>a. Logging \subseteq Running /\ "run" \notin Logging
  BY DEF Logging, Running, Asking, Approving, Rejecting
<1>b. pc[r] \in Logging => busy = r
  BY <1>a, LoneHandler
<1>1. CASE Continue(r)
  <2>1. Wrote(r) \/ Raised(r) \/ Executed(r) \/ Walked(r)
    BY <1>1, AskLedger, ApproveLedger DEF Continue
  <2>2. Executed(r) => ~IsLogging(r) /\ UNCHANGED << log, faults, life >>
    BY <1>a DEF Executed, IsLogging
  <2>3. Walked(r) => ~IsLogging(r) /\ UNCHANGED << log, faults, life >>
    BY DEF Walked, IsLogging, SilentEdges, Logging
  <2>4. Wrote(r) \/ Raised(r) => IsLogging(r)
    BY <1>b DEF Wrote, Raised, IsLogging
  <2> QED BY <2>1, <2>2, <2>3, <2>4
<1>2. CASE Client(r)
  <2>1. ~IsLogging(r)
    BY <1>2, WhoHasTheLoop, NamesAreReal DEF IsLogging
  <2>2. UNCHANGED << log, faults, life >>
    BY <1>2, ClientLedger DEF Walked, Stayed
  <2> QED BY <2>1, <2>2
<1> QED BY <1>1, <1>2

(* Every step is one of these. *)
LEMMA ServiceKinds ==
  ASSUME ServiceInv, [NextService]_all
  PROVE  \/ Walks \/ Rests \/ Ends
         \/ \E r \in Requests : Begins(r) \/ Returns(r) \/ Raises(r) \/ Refuses(r)
<1>a. TypeOK /\ Planned /\ faults \in Nat
  BY DEF ServiceInv, SafetyInv, TypeOK, WorldOK
<1>b. writing # A!Idle => \E r \in Requests : IsLogging(r)
  BY SameLines DEF ServiceInv, LineInProgress
<1>1. CASE UNCHANGED all
  BY <1>1 DEF all, loop, vars, disk, Rests
<1>2. ASSUME NEW r \in Requests, Proceeds(r)
      PROVE  Walks
  <2>1. Next /\ UNCHANGED << log, faults, life, disk >>
    BY <1>2, <1>a, HandlerSteps DEF Proceeds, Next
  <2>2. \A q \in Requests : ~IsLogging(q)
    BY <1>2, WhoHasTheLoop, NamesAreReal DEF Proceeds, IsLogging
  <2> QED BY <1>b, <2>1, <2>2 DEF Walks
<1>3. ASSUME NEW r \in Requests, LineStarts(r)
      PROVE  Begins(r)
  <2>1. IsLogging(r) /\ A!AppendStarts(Line(r)) /\ UNCHANGED loop
    BY <1>3, SameSteps DEF LineStarts
  <2>2. UNCHANGED << faults, life >>
    BY <2>1 DEF A!AppendStarts
  <2> QED BY <2>1, <2>2 DEF Begins, vars, loop
<1>4. ASSUME NEW r \in Requests, LineReturns(r)
      PROVE  Returns(r)
  <2>1. IsLogging(r) /\ Continue(r) /\ A!AppendReturns
    BY <1>4, SameSteps DEF LineReturns
  <2>2. faults' = faults
    BY <2>1 DEF A!AppendReturns
  <2>3. Wrote(r) \/ Raised(r)
    BY <1>a, <2>1, HandlerSteps
  <2>4. ~Raised(r)
    BY <1>a, <2>2 DEF Raised
  <2> QED BY <2>1, <2>3, <2>4 DEF Returns, Next
<1>5. ASSUME NEW r \in Requests, LineRaises(r)
      PROVE  Raises(r)
  <2>1. IsLogging(r) /\ Continue(r) /\ A!AppendRaises /\ (log' = log <=> file' = file)
    BY <1>5, SameSteps DEF LineRaises
  <2>2. faults' # faults
    BY <1>a, <2>1 DEF A!AppendRaises
  <2>3. Wrote(r) \/ Raised(r)
    BY <1>a, <2>1, HandlerSteps
  <2>4. Raised(r)
    BY <2>2, <2>3 DEF Wrote
  <2>5. status' = status
    BY <2>1, <2>2, RaisesKeepStatus DEF IsLogging
  <2> QED BY <2>1, <2>4, <2>5 DEF Raises, Next
<1>6. ASSUME NEW r \in Requests, LineRefused(r)
      PROVE  Refuses(r)
  <2>1. IsLogging(r) /\ Continue(r) /\ faults' > faults /\ UNCHANGED << log, disk >> /\ writing = A!Idle
    BY <1>6, SameLines DEF LineRefused
  <2>2. faults' # faults
    BY <1>a, <2>1
  <2>3. Wrote(r) \/ Raised(r)
    BY <1>a, <2>1, HandlerSteps
  <2>4. Raised(r)
    BY <2>2, <2>3 DEF Wrote
  <2>5. status' = status
    BY <2>1, <2>2, RaisesKeepStatus DEF IsLogging
  <2> QED BY <2>1, <2>4, <2>5 DEF Refuses, Next
<1>7. Starts \/ (Disk!OpenRefused /\ UNCHANGED loop) => Rests
  <2> SUFFICES ASSUME Starts \/ (Disk!OpenRefused /\ UNCHANGED loop) PROVE Rests
    OBVIOUS
  <2>1. (A!Open \/ A!OpenRefused) /\ UNCHANGED loop
    BY SameSteps DEF Starts
  <2>2. UNCHANGED << faults, life >>
    BY <2>1 DEF A!Open, A!OpenRefused, A!vars
  <2> QED BY <2>1, <2>2 DEF Rests, vars, loop
<1>8. Dies => Ends
  BY SameSteps DEF Dies, Ends
<1> QED BY <1>1, <1>2, <1>3, <1>4, <1>5, <1>6, <1>7, <1>8 DEF NextService

-----------------------------------------------------------------------------
(* The parts of the invariant, by the names they are proved under. *)
LEMMA InvParts ==
  ServiceInv =>
    /\ TypeOK /\ Planned /\ Tracked /\ DenyIsFinal /\ Authorising /\ RunsAreAuthorised
    /\ A!SafetyInv /\ A!TypeOK /\ tampers = 0
    /\ writing # A!Idle => \E r \in Requests : IsLogging(r) /\ writing.entry.payload = Line(r)
    /\ A!Verifies(A!Settled) => log = [n \in DOMAIN A!Settled |-> A!Settled[n].payload]
BY SameLines, SameInv, SameSettled
   DEF ServiceInv, SafetyInv, A!SafetyInv, LineInProgress, SettledIsTheTrail

(* The line of a handler that logs is a line. *)
LEMMA LoggedLine ==
  ASSUME TypeOK, NEW r \in Requests, IsLogging(r)
  PROVE  Line(r) \in EntryType
BY LineTyped DEF IsLogging, At

-----------------------------------------------------------------------------
(* The log's own invariant. *)

(* It says nothing about how many appends were refused, once one was. *)
LEMMA RefusedKeeps ==
  ASSUME A!SafetyInv, UNCHANGED << disk, life >>, faults' \in Nat \ {0}
  PROVE  A!SafetyInv'
<1>a. /\ A!TypeOK /\ A!Provenance /\ A!Clock /\ A!AckedInPlace /\ A!AckedFit /\ A!MemoryFollows
      /\ A!Pristine /\ A!ReaderFollows /\ A!ViewIsComplete /\ A!FalseBreakIsInProgress
  BY DEF A!SafetyInv
<1>b. /\ UNCHANGED << file, ended, up, next_seq, prev_hash, writing, reader, view, acked, written, tampers >>
      /\ life' = life
  BY DEF disk
<1>c. A!Settled' = A!Settled /\ (A!Verifies(A!Settled)' <=> A!Verifies(A!Settled))
  BY <1>b DEF A!Settled, A!Verifies
<1>1. A!TypeOK'
  BY <1>a, <1>b DEF A!TypeOK
<1>2. A!Provenance' /\ A!Clock'
  BY <1>a, <1>b DEF A!Provenance, A!Clock
<1>3. A!AckedInPlace' /\ A!AckedFit'
  BY <1>a, <1>b, <1>c DEF A!AckedInPlace, A!AckedFit
<1>4. A!MemoryFollows' /\ A!Pristine'
  BY <1>a, <1>b DEF A!MemoryFollows, A!Pristine
<1>5. A!ReaderFollows'
  BY <1>a, <1>b DEF A!ReaderFollows
<1>6. A!ViewIsComplete' /\ A!FalseBreakIsInProgress'
  BY <1>a, <1>b DEF A!ViewIsComplete, A!FalseBreakIsInProgress, A!SaysBroken
<1> QED BY <1>1, <1>2, <1>3, <1>4, <1>5, <1>6 DEF A!SafetyInv

(* But for appends that are refused, the steps are AuditLog's. *)
LEMMA DiskSteps ==
  ASSUME TypeOK,
         \/ Walks \/ Rests \/ Ends
         \/ \E r \in Requests : Begins(r) \/ Returns(r) \/ Raises(r)
  PROVE  [A!Next]_(A!vars)
<1>1. CASE Walks
  BY <1>1 DEF Walks, disk, A!vars
<1>2. CASE Rests
  <2>1. CASE UNCHANGED disk
    BY <1>2, <2>1 DEF Rests, vars, disk, A!vars
  <2> QED BY <1>2, <2>1 DEF Rests, A!Next, A!Writer
<1>3. CASE Ends
  BY <1>3 DEF Ends, A!Next, A!Writer
<1>4. ASSUME NEW r \in Requests, Begins(r)
      PROVE  [A!Next]_(A!vars)
  BY <1>4, LoggedLine DEF Begins, A!Next, A!Writer
<1>5. ASSUME NEW r \in Requests, Returns(r) \/ Raises(r)
      PROVE  [A!Next]_(A!vars)
  BY <1>5 DEF Returns, Raises, A!Next, A!Writer
<1> QED BY <1>1, <1>2, <1>3, <1>4, <1>5

LEMMA DiskInvStep ==
  ASSUME ServiceInv, [NextService]_all
  PROVE  A!SafetyInv'
<1>1. ASSUME NEW r \in Requests, Refuses(r)
      PROVE  A!SafetyInv'
  <2>1. faults' = faults + 1 /\ faults \in Nat /\ UNCHANGED << disk, life >>
    BY <1>1, InvParts DEF Refuses, Raised, TypeOK, WorldOK
  <2> QED BY <2>1, InvParts, RefusedKeeps
<1>2. CASE [A!Next]_(A!vars)
  BY <1>2, InvParts, A!SafetyStep, EntriesAreReal
<1> QED BY <1>1, <1>2, InvParts, ServiceKinds, DiskSteps

-----------------------------------------------------------------------------
(* The loop's own invariant. *)

(* A process that dies leaves at most the line that it was at. *)
LEMMA EndedLog ==
  ASSUME ServiceInv, Ends
  PROVE  /\ log' \in Seq(EntryType)
         /\ log' = log \/ \E r \in Requests : IsLogging(r) /\ log' = Append(log, Line(r))
<1>1. log \in Seq(EntryType)
  BY InvParts DEF TypeOK, WorldOK
<1>2. CASE file' = file
  BY <1>1, <1>2 DEF Ends
<1>3. CASE file' # file
  <2>1. writing # A!Idle
    BY <1>3 DEF Ends, A!Crash, A!theFile
  <2>2. PICK r \in Requests : IsLogging(r)
    BY <2>1, InvParts
  <2>3. busy = r
    BY <2>2 DEF IsLogging
  <2>4. log' = Append(log, Line(r))
    BY <1>3, <2>3 DEF Ends
  <2> QED BY <1>1, <2>2, <2>4, InvParts, LoggedLine
<1> QED BY <1>2, <1>3

(* What is authorised stays so when a line is added. *)
LEMMA AuthorisedWithOneMore ==
  ASSUME log \in Seq(EntryType), NEW e \in EntryType, log' = Append(log, e),
         NEW p, NEW r, NEW n, Authorised(p, r, n)
  PROVE  Authorised(p, r, n)'
<1>1. PICK a \in 1 .. n, b \in 1 .. n :
        /\ a < b /\ b <= Len(log)
        /\ a \in LinesOf(p, "policy_decision", "allow")
        /\ b \in LinesOf(p, "approval", "approve")
        /\ log[b].by = r
  BY DEF Authorised
<1>2. /\ a \in DOMAIN log' /\ log'[a] = log[a] /\ b \in DOMAIN log' /\ log'[b] = log[b]
      /\ b <= Len(log')
  BY <1>1 DEF LinesOf
<1>3. /\ a \in LinesOf(p, "policy_decision", "allow")'
      /\ b \in LinesOf(p, "approval", "approve")'
  BY <1>1, <1>2 DEF LinesOf
<1> QED BY <1>1, <1>2, <1>3 DEF Authorised

LEMMA LoopEnds ==
  ASSUME ServiceInv, Ends
  PROVE  SafetyInv'
<1>a. Die /\ runs' = runs /\ log \in Seq(EntryType)
  BY InvParts DEF Ends, Die, TypeOK, WorldOK
<1>1. TypeOK'
  BY <1>a, InvParts, EndedLog, DieTypes
<1>2. "idle" \notin Asking /\ "idle" \notin Deciding
  BY DEF Asking, Deciding, Approving, Rejecting
<1>3. Planned' /\ Tracked' /\ DenyIsFinal'
  BY <1>a, <1>2 DEF Die, Planned, Tracked, TrackedAt, DenyIsFinal
<1>4. Authorising'
  BY <1>a DEF Die, Authorising
<1>5. RunsAreAuthorised'
  <2> SUFFICES ASSUME NEW i \in DOMAIN runs
               PROVE  Authorised(runs[i].plan, runs[i].by, runs[i].at)'
    BY <1>a DEF RunsAreAuthorised
  <2>1. PICK p, q, n : p = runs[i].plan /\ q = runs[i].by /\ n = runs[i].at
    OBVIOUS
  <2>2. Authorised(p, q, n)
    BY <2>1, InvParts DEF RunsAreAuthorised
  <2>3. Authorised(p, q, n)'
    <3>1. CASE log' = log
      BY <2>2, <3>1 DEF Authorised, LinesOf
    <3>2. ASSUME NEW r \in Requests, IsLogging(r), log' = Append(log, Line(r))
          PROVE  Authorised(p, q, n)'
      <4>1. PICK e \in EntryType : e = Line(r)
        BY <3>2, InvParts, LoggedLine
      <4> QED BY <1>a, <2>2, <3>2, <4>1, AuthorisedWithOneMore
    <3> QED BY <3>1, <3>2, EndedLog
  <2> QED BY <1>a, <2>1, <2>3 DEF Authorised, LinesOf
<1> QED BY <1>1, <1>3, <1>4, <1>5 DEF SafetyInv

LEMMA LoopInvStep ==
  ASSUME ServiceInv, [NextService]_all
  PROVE  SafetyInv'
<1>1. CASE [Next]_vars
  BY <1>1, InvStep DEF ServiceInv
<1>2. CASE Ends
  BY <1>2, LoopEnds
<1>3. Walks \/ Rests \/ (\E r \in Requests : Begins(r) \/ Returns(r) \/ Raises(r) \/ Refuses(r))
        => [Next]_vars
  BY DEF Walks, Rests, Begins, Returns, Raises, Refuses
<1> QED BY <1>1, <1>2, <1>3, ServiceKinds

-----------------------------------------------------------------------------
(* The line that is being written. *)
LEMMA InProgressStep ==
  ASSUME ServiceInv, [NextService]_all
  PROVE  LineInProgress'
<1>1. A!Idle' = A!Idle
  BY DEF A!Idle, A!Junk
<1>2. LineInProgress' <=>
        (writing' # A!Idle =>
           \E r \in Requests : IsLogging(r)' /\ writing'.entry.payload = Line(r)')
  BY SameLines DEF LineInProgress, Disk!Idle, A!Idle, Disk!Junk, A!Junk
<1>3. ASSUME UNCHANGED << writing, vars >>
      PROVE  LineInProgress'
  <2>1. \A r \in Requests : (IsLogging(r)' <=> IsLogging(r)) /\ Line(r)' = Line(r)
    BY <1>3 DEF vars, IsLogging, Line
  <2> QED BY <1>2, <1>3, <2>1, InvParts
<1>4. CASE Walks
  BY <1>2, <1>4 DEF Walks, disk
<1>5. CASE Rests
  BY <1>3, <1>5 DEF Rests, disk, A!Open, A!OpenRefused, A!vars
<1>6. ASSUME NEW r \in Requests, Refuses(r)
      PROVE  LineInProgress'
  BY <1>2, <1>6 DEF Refuses, disk
<1>7. ASSUME writing' = A!Idle
      PROVE  LineInProgress'
  BY <1>2, <1>7
<1>8. Ends => writing' = A!Idle
  BY DEF Ends, A!Crash
<1>9. ASSUME NEW r \in Requests, Returns(r) \/ Raises(r)
      PROVE  LineInProgress'
  BY <1>7, <1>9 DEF Returns, Raises, A!AppendReturns, A!AppendRaises
<1>10. ASSUME NEW r \in Requests, Begins(r)
       PROVE  LineInProgress'
  <2>1. PICK l : l = Line(r)
    OBVIOUS
  <2>2. writing'.entry.payload = l
    BY <1>10, <2>1 DEF Begins, A!AppendStarts, A!Entry
  <2>3. IsLogging(r)' /\ Line(r)' = l
    BY <1>10, <2>1 DEF Begins, vars, IsLogging, Line
  <2> QED BY <1>2, <2>2, <2>3
<1> QED BY <1>4, <1>5, <1>6, <1>7, <1>8, <1>9, <1>10, ServiceKinds

-----------------------------------------------------------------------------
(* The settled lines. *)

(* The trail grows with the settled lines. *)
LEMMA TrailWithOneMore ==
  ASSUME ServiceInv, A!Grows, NEW r \in Requests, IsLogging(r), log' = Append(log, Line(r)),
         A!Verifies(A!Settled')
  PROVE  log' = [n \in DOMAIN A!Settled' |-> A!Settled'[n].payload]
<1>1. /\ A!Verifies(A!Settled)
      /\ Len(A!Settled') = Len(A!Settled) + 1
      /\ A!Settled'[Len(A!Settled) + 1] = writing.entry
      /\ \A n \in DOMAIN A!Settled : n \in DOMAIN A!Settled' /\ A!Settled'[n] = A!Settled[n]
  BY InvParts, A!GrownVerifies, EntriesAreReal
<1>2. /\ A!Settled \in Seq(A!Lines) /\ DOMAIN A!Settled = 1 .. Len(A!Settled)
      /\ Len(A!Settled) \in Nat
  BY InvParts, A!SettledType, EntriesAreReal
<1>3. A!Settled' \in Seq(A!Lines) /\ writing # A!Idle
  BY DEF A!Grows
<1>4. log = [n \in DOMAIN A!Settled |-> A!Settled[n].payload]
  BY <1>1, InvParts
<1>5. writing.entry.payload = Line(r)
  <2>1. PICK q \in Requests : IsLogging(q) /\ writing.entry.payload = Line(q)
    BY <1>3, InvParts
  <2>2. q = r
    BY <2>1 DEF IsLogging
  <2> QED BY <2>1, <2>2
<1>6. PICK s, t, k, e : s = A!Settled /\ t = A!Settled' /\ k = Len(s) /\ e = Line(r)
  OBVIOUS
<1>7. /\ k \in Nat /\ DOMAIN s = 1 .. k /\ DOMAIN t = 1 .. k + 1
      /\ \A n \in 1 .. k : t[n].payload = s[n].payload
      /\ t[k + 1].payload = e
      /\ log = [n \in 1 .. k |-> s[n].payload]
      /\ log \in Seq(EntryType) /\ e \in EntryType
      /\ log' = Append(log, e)
  <2>1. k \in Nat /\ DOMAIN s = 1 .. k
    BY <1>2, <1>6
  <2>2. Len(t) = k + 1 /\ t \in Seq(A!Lines)
    BY <1>1, <1>3, <1>6
  <2>3. DOMAIN t = 1 .. k + 1
    BY <2>2
  <2>4. (\A n \in 1 .. k : t[n].payload = s[n].payload) /\ t[k + 1].payload = e
    BY <1>1, <1>5, <1>6, <2>1
  <2>5. log = [n \in 1 .. k |-> s[n].payload] /\ log' = Append(log, e)
    BY <1>4, <1>6, <2>1
  <2>6. log \in Seq(EntryType) /\ e \in EntryType
    BY <1>6, InvParts, LoggedLine DEF TypeOK, WorldOK
  <2> QED BY <2>1, <2>3, <2>4, <2>5, <2>6
<1>8. Len(log) = k
  BY <1>7
<1>9. Append(log, e) = [n \in 1 .. k + 1 |-> t[n].payload]
  BY <1>7, <1>8
<1> QED BY <1>6, <1>7, <1>9

(* The trail on the file, by the names that things are proved under. *)
LEMMA SettledMeans ==
  SettledIsTheTrail <=>
    (A!Verifies(A!Settled) => log = [n \in DOMAIN A!Settled |-> A!Settled[n].payload])
BY SameLines, SameSettled DEF SettledIsTheTrail

LEMMA SettledStep ==
  ASSUME ServiceInv, [NextService]_all
  PROVE  SettledIsTheTrail'
<1>a. SettledIsTheTrail' <=>
        (A!Verifies(A!Settled') => log' = [n \in DOMAIN A!Settled' |-> A!Settled'[n].payload])
  <2>1. (SettledIsTheTrail <=>
        (A!Verifies(A!Settled) => log = [n \in DOMAIN A!Settled |-> A!Settled[n].payload]))'
    BY SettledMeans, PTL
  <2> QED BY <2>1 DEF A!Verifies
<1>1. ASSUME A!Settled' = A!Settled, log' = log
      PROVE  SettledIsTheTrail'
  BY <1>a, <1>1, InvParts
<1>2. CASE Walks
  BY <1>1, <1>2 DEF Walks, disk, A!Settled
<1>3. CASE Rests
  BY <1>1, <1>3 DEF Rests, vars, disk, A!Open, A!OpenRefused, A!vars, A!theFile, A!Settled
<1>4. ASSUME NEW r \in Requests, Refuses(r)
      PROVE  SettledIsTheTrail'
  BY <1>1, <1>4 DEF Refuses, disk, A!Settled
<1>b. A!TypeOK /\ A!TypeOK' /\ tampers = 0
  BY InvParts, DiskInvStep DEF A!SafetyInv
<1>5. ASSUME NEW r \in Requests, Begins(r)
      PROVE  SettledIsTheTrail'
  <2>1. [A!Next]_(A!vars) /\ writing = A!Idle /\ log' = log
    BY <1>5, DiskSteps, InvParts DEF Begins, vars, A!AppendStarts
  <2>2. ~A!Tamper
    BY <1>b DEF A!Tamper
  <2>3. A!Settled' = A!Settled \/ ~A!Verifies(A!Settled')
    BY <1>b, <2>1, <2>2, A!SettledSteps, EntriesAreReal DEF A!AppendReturns, A!GivesUp, A!Grows
  <2> QED BY <1>1, <1>a, <2>1, <2>3
<1>6. ASSUME writing # A!Idle, writing' = A!Idle, [A!Next]_(A!vars),
             NEW r \in Requests, IsLogging(r),
             file' # file => log' = Append(log, Line(r))
      PROVE  SettledIsTheTrail'
  <2>1. ~A!Tamper /\ ~(\E p \in EntryType : A!AppendStarts(p)) /\ ~A!Quiet
    BY <1>b, <1>6 DEF A!Tamper, A!AppendStarts, A!Quiet
  <2>2. ~A!Verifies(A!Settled') \/ A!Grows
    BY <1>b, <1>6, <2>1, A!SettledSteps, EntriesAreReal
  <2>3. CASE A!Grows
    <3>1. file' # file
      <4>1. A!Last(file) = A!Junk /\ writing.line.readable
        BY <1>b, <1>6, <2>3, A!WritingFile, EntriesAreReal DEF A!Grows
      <4>2. A!Last(file') = writing.line
        BY <1>b, <1>6, <2>3, A!WholeFile, EntriesAreReal DEF A!Grows
      <4> QED BY <4>1, <4>2, A!JunkIsLine, EntriesAreReal
    <3> QED BY <1>6, <1>a, <2>3, <3>1, TrailWithOneMore
  <2> QED BY <1>a, <2>2, <2>3
<1>7. ASSUME NEW r \in Requests, Returns(r)
      PROVE  SettledIsTheTrail'
  BY <1>6, <1>7, DiskSteps, InvParts DEF Returns, Wrote, A!AppendReturns
<1>8. ASSUME NEW r \in Requests, Raises(r)
      PROVE  SettledIsTheTrail'
  BY <1>6, <1>8, DiskSteps, InvParts DEF Raises, Raised, A!AppendRaises
<1>9. CASE Ends
  <2>1. CASE writing = A!Idle
    BY <1>1, <1>9, <2>1 DEF Ends, A!Crash, A!theFile, A!Settled
  <2>2. CASE writing # A!Idle
    <3>1. PICK r \in Requests : IsLogging(r)
      BY <2>2, InvParts
    <3>2. file' # file => log' = Append(log, Line(r))
      BY <1>9, <3>1 DEF Ends, IsLogging
    <3>3. writing' = A!Idle
      BY <1>9 DEF Ends, A!Crash
    <3> QED BY <1>6, <1>9, <2>2, <3>1, <3>2, <3>3, DiskSteps, InvParts
  <2> QED BY <2>1, <2>2
<1> QED BY <1>2, <1>3, <1>4, <1>5, <1>7, <1>8, <1>9, ServiceKinds

-----------------------------------------------------------------------------
(***************************************************************************)
(* What is synced before a plan runs.                                      *)
(***************************************************************************)
(* What is acknowledged stays; an append that returns adds the line it wrote. *)
LEMMA AckedGrows ==
  ASSUME ServiceInv, [NextService]_all
  PROVE  /\ \A a \in DOMAIN acked : a \in DOMAIN acked' /\ acked'[a] = acked[a]
         /\ DOMAIN acked \subseteq Nat
         /\ \A r \in Requests : Returns(r) =>
              \E b \in DOMAIN acked' :
                /\ acked'[b].payload = Line(r)
                /\ \A a \in DOMAIN acked : a < b
<1>a. acked \in Seq(A!Lines)
  BY InvParts DEF A!TypeOK
<1>b. DOMAIN acked = 1 .. Len(acked) /\ Len(acked) \in Nat
  BY <1>a
<1>1. ASSUME NEW r \in Requests, Returns(r)
      PROVE  /\ \A a \in DOMAIN acked : a \in DOMAIN acked' /\ acked'[a] = acked[a]
             /\ \E b \in DOMAIN acked' :
                  /\ acked'[b].payload = Line(r)
                  /\ \A a \in DOMAIN acked : a < b
  <2>1. acked' = Append(acked, writing.entry) /\ writing # A!Idle /\ IsLogging(r)
    BY <1>1 DEF Returns, A!AppendReturns
  <2>2. writing.entry \in A!Lines
    BY <2>1, InvParts, A!WritingFile, EntriesAreReal
  <2>3. writing.entry.payload = Line(r)
    BY <2>1, InvParts DEF IsLogging
  <2>4. /\ DOMAIN acked' = 1 .. Len(acked) + 1
        /\ \A a \in 1 .. Len(acked) : acked'[a] = acked[a]
        /\ acked'[Len(acked) + 1] = writing.entry
    BY <1>a, <1>b, <2>1, <2>2
  <2>5. PICK b \in Nat : b = Len(acked) + 1
    BY <1>b
  <2>6. b \in DOMAIN acked' /\ acked'[b].payload = Line(r) /\ \A a \in DOMAIN acked : a < b
    BY <1>b, <2>3, <2>4, <2>5
  <2> QED BY <1>b, <2>4, <2>6
<1>2. CASE acked' = acked
  BY <1>1, <1>2, <1>b
<1>3. ASSUME NEW r \in Requests, Begins(r) \/ Raises(r) \/ Refuses(r)
      PROVE  acked' = acked
  BY <1>3 DEF Begins, Raises, Refuses, A!AppendStarts, A!AppendRaises, disk
<1>4. Walks \/ Rests \/ Ends => acked' = acked
  BY DEF Walks, Rests, Ends, A!Open, A!OpenRefused, A!vars, A!Crash, disk
<1> QED BY <1>1, <1>2, <1>3, <1>4, <1>b, ServiceKinds

(* The parts of the invariant about it. *)
LEMMA SyncedParts ==
  ServiceInv =>
    /\ \A p \in Plans :
         status[p] \notin {"absent", "denied"} => \E a \in DOMAIN acked : SaysAllowed(acked[a], p)
    /\ \A r \in Requests : pc[r] \in {"charge", "run"} => Synced(plan[r], r)
    /\ \A i \in DOMAIN runs : Synced(runs[i].plan, runs[i].by)
BY DEF ServiceInv, SyncedFirst

(* What is synced stays so. *)
LEMMA SyncedStays ==
  ASSUME ServiceInv, [NextService]_all, NEW p, NEW r, Synced(p, r)
  PROVE  Synced(p, r)'
<1>1. PICK a, b \in DOMAIN acked : a < b /\ SaysAllowed(acked[a], p) /\ SaysApproved(acked[b], p, r)
  BY DEF Synced
<1>2. a \in DOMAIN acked' /\ b \in DOMAIN acked' /\ acked'[a] = acked[a] /\ acked'[b] = acked[b]
  BY <1>1, AckedGrows
<1> QED BY <1>1, <1>2 DEF Synced, SaysAllowed, SaysApproved

(* A line is added to the trail by an append that returns, or one that raises. *)
LEMMA WhoAdds ==
  ASSUME ServiceInv, [NextService]_all, log' # log, ~Ends
  PROVE  \E r \in Requests : (Returns(r) \/ Raises(r)) /\ log' = Append(log, Line(r))
<1>1. ASSUME NEW r \in Requests, Returns(r) \/ Raises(r)
      PROVE  log' = Append(log, Line(r))
  BY <1>1 DEF Returns, Raises, Wrote, Raised
<1>2. ~Walks /\ ~Rests /\ \A r \in Requests : ~Begins(r) /\ ~Refuses(r)
  BY DEF Walks, Rests, Begins, Refuses, vars
<1> QED BY <1>1, <1>2, ServiceKinds

(* A decision or an approval that the loop goes by is one whose append returned. *)
LEMMA GoesByWhatIsSynced ==
  ASSUME ServiceInv, [NextService]_all, ~Ends, NEW e, log' = Append(log, e),
         \/ status' # status
         \/ \E q \in Requests : pc'[q] = "charge" /\ ~Follows(q)
  PROVE  \E b \in DOMAIN acked' : acked'[b].payload = e /\ \A a \in DOMAIN acked : a < b
<1>a. log \in Seq(EntryType) /\ TypeOK
  BY InvParts DEF TypeOK, WorldOK
<1>1. log' # log
  <2>1. Len(Append(log, e)) = Len(log) + 1 /\ Len(log) \in Nat
    BY <1>a
  <2> QED BY <2>1
<1>2. PICK r \in Requests : (Returns(r) \/ Raises(r)) /\ log' = Append(log, Line(r))
  BY <1>1, WhoAdds
<1>3. e = Line(r)
  <2>1. Append(log, e)[Len(log) + 1] = e /\ Append(log, Line(r))[Len(log) + 1] = Line(r)
    BY <1>a
  <2> QED BY <1>2, <2>1
<1>4. ~Raises(r)
  <2> SUFFICES ASSUME Raises(r) PROVE FALSE
    OBVIOUS
  <2>1. status' = status /\ pc'[r] = "idle" /\ Alone(r)
    BY DEF Raises, Raised
  <2>2. PICK q \in Requests : pc'[q] = "charge" /\ ~Follows(q)
    BY <2>1
  <2>3. q # r
    BY <2>1, <2>2
  <2>4. pc'[q] = pc[q] /\ plan'[q] = plan[q]
    BY <2>1, <2>3 DEF Alone
  <2> QED BY <2>2, <2>4 DEF Follows
<1>5. Returns(r)
  BY <1>2, <1>4
<1>6. PICK b \in DOMAIN acked' : acked'[b].payload = Line(r) /\ \A a \in DOMAIN acked : a < b
  BY <1>5, AckedGrows
<1> QED BY <1>3, <1>6

(* But for a process that dies, the loop's steps are Gateway's. *)
LEMMA GatewaySteps ==
  ASSUME ServiceInv, [NextService]_all, ~Ends
  PROVE  [Next]_vars
BY ServiceKinds DEF Walks, Rests, Begins, Returns, Raises, Refuses

(* The decision on a plan is synced before the plan can be approved. *)
LEMMA AllowedStep ==
  ASSUME ServiceInv, [NextService]_all, NEW p \in Plans, status'[p] \notin {"absent", "denied"}
  PROVE  \E a \in DOMAIN acked' : SaysAllowed(acked'[a], p)
<1>a. TypeOK /\ Planned /\ Tracked
  BY InvParts
<1>1. CASE status[p] \notin {"absent", "denied"}
  <2>1. PICK a \in DOMAIN acked : SaysAllowed(acked[a], p)
    BY <1>1, SyncedParts
  <2>2. a \in DOMAIN acked' /\ acked'[a] = acked[a]
    BY AckedGrows
  <2> QED BY <2>1, <2>2 DEF SaysAllowed
<1>2. CASE status[p] \in {"absent", "denied"}
  <2>1. ~Ends /\ ~CrashAndRestart
    BY DEF Ends, CrashAndRestart, Die
  <2>2. ASSUME NEW r \in Requests, Approves(r) \/ Resolves(r)
        PROVE  status'[p] = status[p]
    <3>1. plan[r] \in Plans /\ plan[r] # p
      BY <1>2, <1>a, <2>2 DEF Approves, Resolves, Tracked, TrackedAt, Deciding, Approving,
                        TypeOK, HandlersOK
    <3> QED BY <1>a, <2>2, <3>1 DEF Approves, Resolves, TypeOK, RecordsOK
  <2>3. PICK r \in Requests : Decides(r)
    BY <1>2, <1>a, <2>1, <2>2, GatewaySteps, Effects DEF Effect, Quiet, Asks, GetsPlan, Arrived
  <2>4. p = plan[r] /\ decision[p].allow
    BY <1>2, <1>a, <2>3 DEF Decides, StatusOf, TypeOK, RecordsOK, HandlersOK
  <2>5. PICK e : e = Entry("policy_decision", p, "allow", NoOne, 0)
    OBVIOUS
  <2>6. log' = Append(log, e) /\ status' # status
    BY <1>2, <2>3, <2>4, <2>5 DEF Decides
  <2>7. PICK b \in DOMAIN acked' : acked'[b].payload = e
    BY <2>1, <2>6, GoesByWhatIsSynced
  <2> QED BY <2>5, <2>7 DEF SaysAllowed
<1> QED BY <1>1, <1>2

(* The approval of a plan is synced, after the decision, before the plan is charged for. *)
LEMMA ApprovedStep ==
  ASSUME ServiceInv, [NextService]_all, NEW q \in Requests, pc'[q] \in {"charge", "run"}
  PROVE  Synced(plan[q], q)'
<1>a. TypeOK /\ Planned /\ Tracked
  BY InvParts
<1>b. ~Ends /\ ~CrashAndRestart
  BY DEF Ends, CrashAndRestart, Die
<1>1. CASE Follows(q)
  <2>1. PICK p : p = plan[q] /\ p = plan'[q]
    BY <1>1 DEF Follows
  <2>2. Synced(p, q)
    BY <1>1, <2>1, SyncedParts, FollowsFrom
  <2>3. Synced(p, q)'
    BY <2>2, SyncedStays
  <2> QED BY <2>1, <2>3 DEF Synced, SaysAllowed, SaysApproved
<1>2. CASE ~Follows(q)
  <2>1. Approves(q)
    <3>1. PICK r \in Requests : Effect(r)
      BY <1>2, <1>a, <1>b, GatewaySteps, Effects DEF Quiet
    <3>2. q = r
      BY <1>2, <3>1 DEF Effect, Asks, GetsPlan, Decides, Arrived, Approves, Resolves,
                        OthersFollow
    <3>3. ~Resolves(q)
      BY <1>2 DEF Resolves
    <3>4. ~(Asks(q) \/ GetsPlan(q) \/ Decides(q) \/ Arrived(q))
      BY DEF Asks, GetsPlan, Decides, Arrived
    <3> QED BY <3>1, <3>2, <3>3, <3>4 DEF Effect
  <2>2. PICK p \in Plans : p = plan[q] /\ p = plan'[q]
    BY <1>a, <2>1 DEF Approves, TypeOK, HandlersOK
  <2>3. PICK a \in DOMAIN acked : SaysAllowed(acked[a], p)
    BY <1>a, <2>1, <2>2, SyncedParts DEF Approves, Tracked, TrackedAt, Deciding, Approving
  <2>4. PICK e : e = Entry("approval", p, "approve", q, 0)
    OBVIOUS
  <2>5. log' = Append(log, e) /\ pc'[q] = "charge"
    BY <2>1, <2>2, <2>4 DEF Approves
  <2>6. PICK b \in DOMAIN acked' : acked'[b].payload = e /\ \A c \in DOMAIN acked : c < b
    BY <1>2, <1>b, <2>5, GoesByWhatIsSynced
  <2>7. a \in DOMAIN acked' /\ acked'[a] = acked[a] /\ a < b
    BY <2>6, AckedGrows
  <2>8. Synced(p, q)'
    BY <2>3, <2>4, <2>6, <2>7 DEF Synced, SaysAllowed, SaysApproved
  <2> QED BY <2>2, <2>8 DEF Synced, SaysAllowed, SaysApproved
<1> QED BY <1>1, <1>2

(* What runs had both. *)
LEMMA RanStep ==
  ASSUME ServiceInv, [NextService]_all, NEW i \in DOMAIN runs'
  PROVE  Synced(runs[i].plan, runs[i].by)'
<1>a. TypeOK /\ Planned /\ runs \in Seq(RunType)
  BY InvParts DEF TypeOK, WorldOK
<1>1. \/ runs' = runs
      \/ \E r \in Requests : \E l : pc[r] = "run" /\ runs' = Append(runs, RunOf(r, l))
  <2>1. CASE Ends
    BY <2>1 DEF Ends, Die
  <2>2. CASE [Next]_vars
    BY <1>a, <2>2, Effects DEF Effect, Quiet, Asks, GetsPlan, Decides, Arrived, Approves, Resolves,
                 CrashAndRestart, Die
  <2> QED BY <2>1, <2>2, GatewaySteps
<1>2. PICK p, q : p = runs'[i].plan /\ q = runs'[i].by
  OBVIOUS
<1>3. Synced(p, q)
  <2>1. CASE i \in DOMAIN runs /\ runs'[i] = runs[i]
    BY <1>2, <2>1, SyncedParts
  <2>2. ASSUME NEW r \in Requests, NEW l, pc[r] = "run", runs'[i] = RunOf(r, l)
        PROVE  Synced(p, q)
    <3>1. p = plan[r] /\ q = r
      BY <1>2, <2>2 DEF RunOf
    <3> QED BY <2>2, <3>1, SyncedParts
  <2>3. ASSUME NEW r \in Requests, NEW l, runs' = Append(runs, RunOf(r, l))
        PROVE  (i \in DOMAIN runs /\ runs'[i] = runs[i]) \/ runs'[i] = RunOf(r, l)
    BY <1>a, <2>3
  <2> QED BY <1>1, <2>1, <2>2, <2>3
<1>4. Synced(p, q)'
  BY <1>3, SyncedStays
<1> QED BY <1>2, <1>4 DEF Synced, SaysAllowed, SaysApproved

LEMMA SyncedStep ==
  ASSUME ServiceInv, [NextService]_all
  PROVE  SyncedFirst'
<1>1. \A p \in Plans : status'[p] \notin {"absent", "denied"} =>
        \E a \in DOMAIN acked' : SaysAllowed(acked'[a], p)
  BY AllowedStep
<1>2. \A r \in Requests : pc'[r] \in {"charge", "run"} => Synced(plan[r], r)'
  BY ApprovedStep
<1>3. \A i \in DOMAIN runs' : Synced(runs[i].plan, runs[i].by)'
  BY RanStep
<1> QED BY <1>1, <1>2, <1>3 DEF SyncedFirst, SaysAllowed

-----------------------------------------------------------------------------
(***************************************************************************)
(* A process that dies in the middle of a line that is all there: to the   *)
(* loop a crash that leaves its line behind.  No step of Gateway does      *)
(* that, so what Gateway's steps keep is shown of this one here.           *)
(***************************************************************************)
DiesIn(r) ==
  /\ Die
  /\ pc[r] \in Logging
  /\ log' = Append(log, Line(r))

(* A process dies like that, or as Gateway has it. *)
LEMMA HowItDies ==
  ASSUME ServiceInv, Ends
  PROVE  CrashAndRestart \/ \E r \in Requests : DiesIn(r)
BY EndedLog DEF Ends, CrashAndRestart, DiesIn, IsLogging

(* To the trail it is a line, and the end of whatever approval stood. *)
LEMMA DiesAppending ==
  ASSUME TypeOK, NEW r \in Requests, DiesIn(r)
  PROVE  Appends(r)
<1>1. /\ pc[r] \in Logging /\ log' = Append(log, Line(r)) /\ runs' = runs /\ known' = known
      /\ \A q \in Requests : pc'[q] = "idle"
  BY DEF DiesIn, Die
<1>2. pc[r] \in Running
  BY <1>1, OwedPlaces DEF DiesIn
<1>3. Asking \cup {"charge", "run"} \subseteq Running /\ "idle" \notin Asking \cup {"charge", "run"}
  BY KindsDisjoint DEF Running, Approving
<1>4. \A q \in Requests \ {r} : pc[q] \notin Asking \cup {"charge", "run"}
  BY <1>2, <1>3, LoneHandler
<1>5. OthersStand(r)
  BY <1>1, <1>3, <1>4 DEF OthersStand
<1> QED BY <1>1, <1>3, <1>5 DEF Appends

LEMMA DeathPromised ==
  ASSUME IndInv, NEW r \in Requests, DiesIn(r)
  PROVE  B!Next /\ Undecided'
<1>1. TypeOK /\ Tracked /\ Authorising /\ Undecided
  BY DEF IndInv, SafetyInv
<1>2. Appends(r)
  BY <1>1, DiesAppending
<1> QED BY <1>1, <1>2, DecideStep, ApproveStep, OtherLineStep, UndecidedLine

(* Nothing is left in memory, and all runs are of an earlier life. *)
LEMMA DeathForgets ==
  ASSUME LedgerInv, NEW r \in Requests, DiesIn(r)
  PROVE  /\ RecordsAreLogged' /\ DecidedWhenAsked' /\ NothingAhead' /\ ClearedUnlessRelabelled'
         /\ TrailFollows' /\ ShownFollows' /\ BudgetIsExact'
<1>a. TypeOK /\ NothingAhead
  BY DEF LedgerInv, IndInv, SafetyInv
<1>b. /\ \A p \in Plans : status'[p] = "absent" /\ result'[p] = NoLabel
      /\ \A q \in Requests : pc'[q] = "idle"
      /\ \A s \in Sessions : used'[s] = 0
      /\ life' = life + 1 /\ UNCHANGED << runs, asked, relabels >>
  BY DEF DiesIn, Die
<1>c. life \in Nat /\ \A i \in DOMAIN runs : runs[i].life \in Nat /\ runs[i].life <= life
  <2>1. \A i \in DOMAIN runs : runs[i] \in RunType
    BY <1>a DEF TypeOK, WorldOK
  <2>2. \A i \in DOMAIN runs : runs[i].life \in Nat
    BY <2>1 DEF RunType
  <2> QED BY <1>a, <2>2 DEF NothingAhead, TypeOK, WorldOK
<1>d. \A i \in DOMAIN runs' : runs'[i].life <= life' /\ runs'[i].life # life'
  BY <1>b, <1>c
<1>1. RecordsAreLogged' /\ DecidedWhenAsked'
  BY <1>b DEF RecordsAreLogged, DecidedWhenAsked
<1>2. NothingAhead' /\ ClearedUnlessRelabelled'
  BY <1>a, <1>b, <1>d DEF NothingAhead, ClearedUnlessRelabelled
<1>3. TrailFollows' /\ ShownFollows'
  BY <1>b DEF TrailFollows, ShownFollows, ShownIsLogged
<1>4. BudgetIsExact'
  <2> SUFFICES ASSUME NEW s \in Sessions
               PROVE  (used[s] <= Limit /\ used[s] = Cardinality(Spent(s)) + Cardinality(Reserved(s)))'
    BY DEF BudgetIsExact
  <2>1. ChargedRuns(s)' = {}
    BY <1>d DEF ChargedRuns
  <2>2. Spent(s)' = {}
    BY <2>1 DEF Spent
  <2>3. Reserved(s)' = {}
    <3>1. \A q \in Requests : pc'[q] # "run"
      BY <1>b
    <3> QED BY <3>1 DEF Reserved
  <2>4. Cardinality(Spent(s)') = 0 /\ Cardinality(Reserved(s)') = 0
    BY <2>2, <2>3, FS_EmptySet, Zenon
  <2> QED BY <1>b, <2>4, LimitPositive DEF Limit
<1> QED BY <1>1, <1>2, <1>3, <1>4

(* The line that is left is a digest that was owed, an outcome that was, or an approval. *)
LEMMA DeathCounted ==
  ASSUME LedgerInv, NEW r \in Requests, DiesIn(r)
  PROVE  /\ DigestsFollow' /\ OutcomesFollow' /\ OutcomesApproved'
         /\ ReadsInOrder' /\ TrailIsUnbroken'
<1>a. /\ TypeOK /\ Tracked /\ Authorising /\ DigestsFollow /\ OutcomesFollow /\ OutcomesApproved
      /\ ReadsInOrder /\ TrailFollows /\ TrailIsUnbroken
  BY DEF LedgerInv, IndInv, SafetyInv
<1>b. /\ pc[r] \in Logging /\ log' = Append(log, Line(r)) /\ runs' = runs
      /\ life' = life + 1 /\ faults' = faults
      /\ \A q \in Requests : pc'[q] = "idle"
  BY DEF DiesIn, Die
<1>c. ASSUME NEW p, NEW places, "idle" \notin places
      PROVE  Pending(p, places)' = 0
  BY <1>b, <1>c DEF Pending
<1>1. ReadsInOrder' /\ TrailIsUnbroken'
  BY <1>a, <1>b, ReadsLine, UnbrokenLine
<1>2. DigestsFollow'
  <2> SUFFICES ASSUME NEW p \in Plans
               PROVE  (/\ Cardinality(LinesOf(p, "execution_digest", "success"))
                            + Pending(p, {"guard", "digest"}) <= Cardinality(Successes(p))
                       /\ Cardinality(LinesOf(p, "execution_digest", "failure"))
                            + Pending(p, {"run failed"}) <= Cardinality(Failures(p)))'
    BY DEF DigestsFollow
  <2>1. PICK t, g, k, h, u, w :
          /\ t = Cardinality(LinesOf(p, "execution_digest", "success"))'
          /\ g = Cardinality(LinesOf(p, "execution_digest", "failure"))'
          /\ k = Pending(p, {"guard", "digest"})' /\ h = Pending(p, {"run failed"})'
          /\ u = Cardinality(Successes(p))' /\ w = Cardinality(Failures(p))'
    OBVIOUS
  <2>2. k = 0 /\ h = 0
    <3>1. PICK G, R : G = {"guard", "digest"} /\ R = {"run failed"}
      OBVIOUS
    <3>2. "idle" \notin G /\ "idle" \notin R
      BY <3>1
    <3>3. Pending(p, G)' = 0 /\ Pending(p, R)' = 0
      BY <1>c, <3>2
    <3> QED BY <2>1, <3>1, <3>3
  <2>3. t <= u /\ g <= w
    BY <1>a, <1>b, <2>1, DigestsLine
  <2>4. t \in Nat /\ g \in Nat
    <3>1. PICK e \in EntryType : e = Line(r)
      BY <1>a, <1>b, LoggerTyped
    <3>2. PICK event, good, bad :
            event = "execution_digest" /\ good = "success" /\ bad = "failure"
      OBVIOUS
    <3>3. log' = Append(log, e)
      BY <1>b, <3>1
    <3>4. /\ Cardinality(LinesOf(p, event, good)') \in Nat
          /\ Cardinality(LinesOf(p, event, bad)') \in Nat
      BY <1>a, <3>3, LinesCount
    <3> QED BY <2>1, <3>2, <3>4
  <2>5. t + k <= u /\ g + h <= w
    BY <2>2, <2>3, <2>4
  <2> QED BY <2>1, <2>5
<1>3. OutcomesApproved'
  <2>1. PICK Late : Late = Owing
    OBVIOUS
  <2>2. "idle" \notin Late
    BY <2>1, OwingPlaces
  <2>3. ASSUME NEW p \in Plans
        PROVE  Cardinality(OutcomesOf(p)') + Pending(p, Late)'
                 <= Cardinality(LinesOf(p, "approval", "approve")')
    <3>1. PICK k \in {0, 1} : k = 0
      OBVIOUS
    <3>2. Pending(p, Late)' = k
      BY <1>c, <2>2, <3>1
    <3>3. Cardinality(OutcomesOf(p)') + k <= Cardinality(LinesOf(p, "approval", "approve")')
      BY <1>a, <1>b, <3>1, OwnOutcome
    <3> QED BY <3>2, <3>3
  <2> QED BY <2>1, <2>3 DEF OutcomesApproved, Owing
<1>4. OutcomesFollow'
  <2>1. PICK a, o, d, x, y, z :
          /\ a = Cardinality(ApprovalLines) /\ o = Cardinality(OutcomeLines) /\ d = Owed
          /\ x = Cardinality(ApprovalLines)' /\ y = Cardinality(OutcomeLines)' /\ z = Owed'
    OBVIOUS
  <2>2. a <= o + faults + (life - 1) + d
    BY <1>a, <2>1 DEF OutcomesFollow, Owed, Owing
  <2>3. PICK e \in EntryType : e = Line(r)
    BY <1>a, <1>b, LoggerTyped
  <2>4. log' = Append(log, e)
    BY <1>b, <2>3
  <2>5. /\ a \in Nat /\ o \in Nat
        /\ x = a + (IF e.event = "approval" /\ e.value = "approve" THEN 1 ELSE 0)
        /\ y = o + (IF e.event = "execution_digest" \/ e.value = "query_budget" THEN 1 ELSE 0)
    BY <1>a, <2>1, <2>4, TallyCount
  <2>6. e.event = "approval" /\ e.value = "approve" => d = 0
    <3>1. e.event = "approval" /\ e.value = "approve" => pc[r] = "approved"
      BY <1>b, <2>3, OutcomeLine
    <3>2. pc[r] = "approved" => \A q \in Requests : pc[q] \notin Owing
      BY <1>a, <1>b, LoneHandler, OwingPlaces, OwedPlaces
    <3> QED BY <2>1, <3>1, <3>2 DEF Owed
  <2>7. d \in {0, 1} /\ z = 0
    BY <1>b, <2>1, OwingPlaces DEF Owed
  <2>8. faults \in Nat /\ life \in Nat
    BY <1>a DEF TypeOK, WorldOK
  <2>9. x <= y + faults' + (life' - 1) + z
    BY <1>b, <2>2, <2>5, <2>6, <2>7, <2>8
  <2> QED BY <2>1, <2>9 DEF OutcomesFollow, Owed, Owing
<1> QED BY <1>1, <1>2, <1>3, <1>4

(* So the process that dies leaves a log whose ledger is in order. *)
LEMMA OnFileStep ==
  ASSUME ServiceInv, LedgerInv, [NextService]_all
  PROVE  LedgerInv'
<1>a. SafetyInv' /\ IndInv /\ TypeOK /\ Tracked /\ Undecided
  BY LoopInvStep DEF LedgerInv, IndInv, SafetyInv
<1>1. CASE [Next]_vars
  <2>1. IndInv'
    BY <1>a, <1>1, UndecidedStep DEF IndInv
  <2> QED BY <1>1, <2>1, LedgerStep
<1>2. ASSUME NEW r \in Requests, DiesIn(r)
      PROVE  LedgerInv'
  <2>1. IndInv'
    BY <1>a, <1>2, DeathPromised DEF IndInv
  <2> QED BY <1>2, <2>1, DeathForgets, DeathCounted DEF LedgerInv
<1>3. CrashAndRestart => [Next]_vars
  BY DEF Next
<1> QED BY <1>1, <1>2, <1>3, GatewaySteps, HowItDies

(* And what Boundary sees is one of its steps, or none. *)
LEMMA OnFilePromised ==
  ASSUME ServiceInv, IndInv, [NextService]_all
  PROVE  [B!Next]_(B!vars)
<1>a. SafetyInv' /\ TypeOK'
  BY LoopInvStep DEF SafetyInv
<1>1. CASE [Next]_vars
  BY <1>a, <1>1, RefinementStep
<1>2. ASSUME NEW r \in Requests, DiesIn(r)
      PROVE  B!Next
  BY <1>2, DeathPromised
<1>3. CrashAndRestart => [Next]_vars
  BY DEF Next
<1> QED BY <1>1, <1>2, <1>3, GatewaySteps, HowItDies

-----------------------------------------------------------------------------
(***************************************************************************)
(*                             The theorems                                *)
(***************************************************************************)
(* The log begins as AuditLog's. *)
LEMMA InitIsLogs == InitService => A!Init
BY SameLines DEF InitService, Disk!Init, A!Init, Disk!GenesisHash, A!GenesisHash,
     Disk!NoReader, A!NoReader, Disk!NoView, A!NoView

LEMMA ServiceInit == InitService => ServiceInv
<1> SUFFICES ASSUME InitService PROVE ServiceInv
  OBVIOUS
<1>a. Init /\ Disk!Init
  BY DEF InitService
<1>1. SafetyInv
  BY <1>a, InvInit
<1>2. A!Init
  BY InitIsLogs
<1>3. Disk!SafetyInv
  BY <1>2, A!SafetyInit, EntriesAreReal, SameInv
<1>4. /\ file = << >> /\ acked = << >> /\ log = << >> /\ runs = << >> /\ tampers = 0
      /\ writing = Disk!Idle
  BY <1>a DEF Disk!Init, Init
<1>5. LineInProgress
  BY <1>4 DEF LineInProgress
<1>6. SettledIsTheTrail
  <2>1. Disk!Settled = << >>
    BY <1>4 DEF Disk!Settled
  <2>2. << >> = [n \in DOMAIN << >> |-> << >>[n].payload]
    OBVIOUS
  <2> QED BY <1>4, <2>1, <2>2 DEF SettledIsTheTrail
<1>7. SyncedFirst
  BY <1>a, <1>4 DEF SyncedFirst, Init
<1> QED BY <1>1, <1>3, <1>4, <1>5, <1>6, <1>7 DEF ServiceInv

LEMMA ServiceStep == ServiceInv /\ [NextService]_all => ServiceInv'
<1> SUFFICES ASSUME ServiceInv, [NextService]_all PROVE ServiceInv'
  OBVIOUS
<1>1. Disk!SafetyInv'
  <2>1. (Disk!SafetyInv <=> A!SafetyInv)'
    BY SameInv, PTL
  <2> QED BY <2>1, DiskInvStep
<1>2. tampers' = 0
  <2>1. tampers = 0
    BY DEF ServiceInv
  <2>2. Walks \/ Rests \/ Ends => tampers' = tampers
    BY DEF Walks, Rests, Ends, A!Open, A!OpenRefused, A!vars, A!Crash, disk
  <2>3. \A r \in Requests : Begins(r) \/ Returns(r) \/ Raises(r) \/ Refuses(r) => tampers' = tampers
    BY DEF Begins, Returns, Raises, Refuses, A!AppendStarts, A!AppendReturns, A!AppendRaises, disk
  <2> QED BY <2>1, <2>2, <2>3, ServiceKinds
<1> QED BY <1>1, <1>2, LoopInvStep, InProgressStep, SettledStep, SyncedStep DEF ServiceInv

(***************************************************************************)
(* The loop on the file is safe as the loop is without it: a deny is       *)
(* final, and nothing runs without the allow and the approval in the log,  *)
(* also when the process dies in the middle of a line (api/main.py,        *)
(* boundary/audit.py).                                                     *)
(***************************************************************************)
THEOREM OnFileInvariance == SpecService => []ServiceInv
BY ServiceInit, ServiceStep, PTL DEF SpecService

(***************************************************************************)
(* A file that verifies is the trail of the loop, line by line, whatever   *)
(* appends raised and whenever the process died (audit.py, append and      *)
(* verify; main.py's handlers).                                            *)
(***************************************************************************)
THEOREM FileCorrect == SpecService => []FileIsTheTrail
<1>1. ServiceInv => FileIsTheTrail
  <2> SUFFICES ASSUME ServiceInv, writing = Disk!Idle, Disk!Verifies(file)
               PROVE  log = [n \in DOMAIN file |-> file[n].payload]
    BY DEF FileIsTheTrail
  <2>1. Disk!Settled = file
    BY DEF Disk!Settled
  <2> QED BY <2>1 DEF ServiceInv, SettledIsTheTrail
<1> QED BY <1>1, OnFileInvariance, PTL

(***************************************************************************)
(* By the time a plan runs, the decision that allows it and the approval   *)
(* of whoever runs it are synced in the file, in this order, and a file    *)
(* that verifies shows them for good (main.py, approve).                   *)
(***************************************************************************)
THEOREM RunsOnFile == SpecService => []RunsAreOnFile
<1>1. ServiceInv => RunsAreOnFile
  <2> SUFFICES ASSUME ServiceInv, NEW i \in DOMAIN runs
               PROVE  \E a, b \in DOMAIN acked :
                        /\ a < b
                        /\ acked[a].payload = Entry("policy_decision", runs[i].plan, "allow", NoOne, 0)
                        /\ acked[b].payload = Entry("approval", runs[i].plan, "approve", runs[i].by, 0)
                        /\ Disk!Verifies(file) => {acked[a], acked[b]} \subseteq { file[n] : n \in DOMAIN file }
    BY DEF RunsAreOnFile
  <2>1. PICK a, b \in DOMAIN acked :
          /\ a < b
          /\ SaysAllowed(acked[a], runs[i].plan)
          /\ SaysApproved(acked[b], runs[i].plan, runs[i].by)
    BY SyncedParts DEF Synced
  <2>2. ASSUME A!Verifies(file), NEW m \in DOMAIN acked
        PROVE  acked[m] \in { file[n] : n \in DOMAIN file }
    <3>1. A!SafetyInv /\ A!TypeOK /\ tampers = 0
      BY InvParts
    <3>2. writing = A!Idle
      BY <2>2, <3>1, A!WritingFile, A!JunkBreaks, A!JunkIsLine, EntriesAreReal
    <3>3. A!Settled = file
      BY <3>2 DEF A!Settled
    <3>4. acked[m].seq + 1 \in DOMAIN file /\ file[acked[m].seq + 1] = acked[m]
      BY <2>2, <3>1, <3>3 DEF A!SafetyInv, A!AckedInPlace
    <3> QED BY <3>4
  <2>3. Disk!Verifies(file) <=> A!Verifies(file)
    BY SameLines
  <2> QED BY <2>1, <2>2, <2>3 DEF SaysAllowed, SaysApproved
<1> QED BY <1>1, OnFileInvariance, PTL

(***************************************************************************)
(* The whole ledger of the loop is kept on the file: what the log adds up  *)
(* to, in which order it reads, what the records, the budgets and the page *)
(* of a plan have to do with it, and that a process that died in the       *)
(* middle of a line left a log of which all that is still true (main.py,   *)
(* audit.py).                                                              *)
(***************************************************************************)
THEOREM LedgerOnFile == SpecService => []LedgerInv
<1>1. InitService => LedgerInv
  BY LedgerInit DEF InitService
<1>2. ServiceInv /\ LedgerInv /\ [NextService]_all => LedgerInv'
  BY OnFileStep
<1> QED BY <1>1, <1>2, OnFileInvariance, PTL DEF SpecService

(***************************************************************************)
(* The loop keeps its promise on the file too: a plan is decided once, an  *)
(* approval is of an allowed plan and is used up by one run, also where    *)
(* the process dies with the line of a decision or an approval in the      *)
(* file, and nothing of it in memory.                                      *)
(***************************************************************************)
THEOREM PromiseOnFile == SpecService => KeepsThePromise
<1>1. InitService => B!Init
  BY RefinementInit DEF InitService
<1>2. ServiceInv /\ LedgerInv /\ [NextService]_all => [B!Next]_(B!vars)
  BY OnFilePromised DEF LedgerInv
<1> QED BY <1>1, <1>2, OnFileInvariance, LedgerOnFile, PTL DEF SpecService, KeepsThePromise, B!Spec

(* A step of Service is one of the trail, or none. *)
LEMMA TrailOnFileStep ==
  ASSUME ServiceInv, ServiceInv', [NextService]_all
  PROVE  [A!T!Next]_(A!T!vars)
<1>1. A!TypeOK /\ A!Clock
  BY InvParts DEF A!SafetyInv
<1>2. A!TypeOK'
  BY DiskInvStep DEF A!SafetyInv
<1>3. ASSUME NEW r \in Requests, Refuses(r)
      PROVE  UNCHANGED A!T!vars
  <2>1. /\ file' = file /\ writing' = writing /\ acked' = acked /\ tampers' = tampers
    BY <1>3 DEF Refuses, disk
  <2>2. A!Settled' = A!Settled
    BY <2>1 DEF A!Settled
  <2> QED BY <2>1, <2>2 DEF A!T!vars, A!TheTrail, A!Confirmed
<1>4. CASE [A!Next]_(A!vars)
  BY <1>1, <1>2, <1>4, A!TrailStep, EntriesAreReal
<1> QED BY <1>3, <1>4, InvParts, ServiceKinds, DiskSteps

(***************************************************************************)
(* The log keeps the promise of Trail under the loop: whichever handler is *)
(* at it, refused appends and deaths included, its trail grows by one line *)
(* at a time, an entry whose append returned stays, and a spoilt log stays *)
(* spoilt (audit.py).                                                      *)
(***************************************************************************)
THEOREM TrailOnFile == SpecService => Disk!KeepsTheTrail
<1>1. InitService => Disk!T!Init
  <2> SUFFICES ASSUME InitService PROVE Disk!T!Init
    OBVIOUS
  <2>1. A!Init
    BY InitIsLogs
  <2>2. A!T!Init
    BY <2>1, A!TrailInit, EntriesAreReal
  <2> QED BY <2>2, SamePromise
<1>2. ServiceInv /\ ServiceInv' /\ [NextService]_all => [Disk!T!Next]_(Disk!T!vars)
  BY TrailOnFileStep, SamePromise
<1> QED BY <1>1, <1>2, OnFileInvariance, PTL DEF SpecService, Disk!KeepsTheTrail, Disk!T!Spec

=============================================================================
