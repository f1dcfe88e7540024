--------------------------- MODULE AuditLogProofs ---------------------------
(***************************************************************************)
(* Proofs of the safety properties of AuditLog.                            *)
(***************************************************************************)
EXTENDS AuditLog, SequenceTheorems, FiniteSetTheorems, WellFoundedInduction, TLAPS

-----------------------------------------------------------------------------
(***************************************************************************)
(* Facts about numbers and sequences.                                      *)
(***************************************************************************)
(* A set of numbers has a least one, if it has any. *)
LEMMA LeastNumber ==
  \A S \in SUBSET Nat : S # {} => \E x \in S : \A y \in S : x <= y
<1> SUFFICES ASSUME NEW S \in SUBSET Nat, S # {}
             PROVE  \E x \in S : \A y \in S : x <= y
  OBVIOUS
<1>1. \A x, y \in Nat : << y, x >> \in OpToRel(<, Nat) <=> y < x
  BY DEF OpToRel
<1>2. PICK x \in S : \A y \in S : ~ (<< y, x >> \in OpToRel(<, Nat))
  BY NatLessThanWellFounded, WFMin
<1>3. \A y \in S : ~ (y < x)
  BY <1>1, <1>2
<1> QED BY <1>3

(* What holds of 0 and of the next number holds of all: induction over a set. *)
LEMMA AllNumbers ==
  \A S \in SUBSET Nat : 0 \in S /\ (\A n \in S : n + 1 \in S) => S = Nat
<1> SUFFICES ASSUME NEW S \in SUBSET Nat, 0 \in S, \A n \in S : n + 1 \in S, Nat \ S # {}
             PROVE  FALSE
  OBVIOUS
<1>1. PICK x \in Nat \ S : \A y \in Nat \ S : x <= y
  BY LeastNumber
<1>2. x - 1 \in S
  BY <1>1
<1> QED BY <1>1, <1>2

(* All elements but the last of a sequence, and the last. *)
LEMMA FrontAndLast ==
  ASSUME NEW S, NEW s \in Seq(S), s # << >>
  PROVE  /\ Len(s) \in Nat \ {0}
         /\ Front(s) \in Seq(S)
         /\ Len(Front(s)) = Len(s) - 1
         /\ \A n \in 1 .. Len(s) - 1 : Front(s)[n] = s[n]
         /\ Last(s) = s[Len(s)] /\ Last(s) \in S
<1>1. Len(s) \in Nat \ {0}
  BY EmptySeq
<1>2. PICK m \in Nat : m = Len(s) - 1
  BY <1>1
<1>3. m <= Len(s) /\ 1 <= Len(s) + 1 /\ Front(s) = SubSeq(s, 1, m)
  BY <1>1, <1>2 DEF Front
<1>4. SubSeq(s, 1, m) \in Seq(S) /\ Len(SubSeq(s, 1, m)) = m
  BY <1>1, <1>2, <1>3
<1>5. \A n \in 1 .. m : SubSeq(s, 1, m)[n] = s[n]
  BY <1>1, <1>2, <1>3
<1>6. Last(s) = s[Len(s)] /\ Last(s) \in S
  BY <1>1 DEF Last
<1>7. PICK f : f = Front(s)
  OBVIOUS
<1>8. f \in Seq(S) /\ Len(f) = m /\ \A n \in 1 .. m : f[n] = s[n]
  BY <1>3, <1>4, <1>5, <1>7
<1> QED BY <1>1, <1>2, <1>6, <1>7, <1>8

(* Sequences that differ in their last elements only. *)
LEMMA SameFront ==
  ASSUME NEW S, NEW s \in Seq(S), NEW t \in Seq(S), s # << >>, t # << >>, Len(t) = Len(s),
         \A n \in 1 .. Len(s) - 1 : t[n] = s[n]
  PROVE  Front(t) = Front(s)
<1>1. /\ Front(t) \in Seq(S) /\ Len(Front(t)) = Len(s) - 1
      /\ \A n \in 1 .. Len(s) - 1 : Front(t)[n] = t[n]
  BY FrontAndLast
<1>2. /\ Front(s) \in Seq(S) /\ Len(Front(s)) = Len(s) - 1
      /\ \A n \in 1 .. Len(s) - 1 : Front(s)[n] = s[n]
  BY FrontAndLast
<1>3. \A n \in 1 .. Len(s) - 1 : Front(t)[n] = Front(s)[n]
  BY <1>1, <1>2
<1> QED BY <1>1, <1>2, <1>3

(* A sequence with one more element. *)
LEMMA LastAdded ==
  ASSUME NEW S, NEW s \in Seq(S), NEW e \in S, NEW t, t = s \o << e >>
  PROVE  /\ t \in Seq(S) /\ t # << >> /\ Len(t) = Len(s) + 1
         /\ \A n \in 1 .. Len(s) : t[n] = s[n]
         /\ Last(t) = e
         /\ Front(t) = s
<1>1. /\ t \in Seq(S) /\ Len(t) = Len(s) + 1 /\ Len(s) \in Nat
      /\ \A n \in 1 .. Len(s) : t[n] = s[n]
      /\ t[Len(s) + 1] = e
  OBVIOUS
<1>2. t # << >>
  BY <1>1
<1>3. Last(t) = e
  BY <1>1 DEF Last
<1>4. /\ Front(t) \in Seq(S) /\ Len(Front(t)) = Len(t) - 1
      /\ \A n \in 1 .. Len(t) - 1 : Front(t)[n] = t[n]
  BY <1>1, <1>2, FrontAndLast
<1>5. Front(t) = s
  BY <1>1, <1>4
<1> QED BY <1>1, <1>2, <1>3, <1>5

(* One sequence after another. *)
LEMMA Joined ==
  ASSUME NEW S, NEW s \in Seq(S), NEW t \in Seq(S)
  PROVE  /\ s \o t \in Seq(S) /\ Len(s \o t) = Len(s) + Len(t)
         /\ \A k \in 1 .. Len(s) : (s \o t)[k] = s[k]
         /\ \A k \in 1 .. Len(s) + Len(t) : k > Len(s) => (s \o t)[k] = t[k - Len(s)]
<1>1. Len(s) \in Nat /\ Len(t) \in Nat
  OBVIOUS
<1> QED BY <1>1, ConcatProperties

(* A sequence is the function of its elements. *)
LEMMA SpelledOut ==
  ASSUME NEW S, NEW s \in Seq(S)
  PROVE  s = [ m \in 1 .. Len(s) |-> s[m] ]
OBVIOUS

-----------------------------------------------------------------------------
(* Lines, files and hashes. *)

(* The place-holder is an unreadable line, and no one is writing it. *)
LEMMA JunkIsLine ==
  /\ Junk \in Lines /\ ~Junk.readable
  /\ Idle \in [entry : Lines, line : Lines]
<1>1. << >> \in Hashes
  BY DEF Hashes
<1>2. Junk \in [ readable : BOOLEAN, seq : Nat, ts : Nat, payload : Payloads \cup {NoPayload},
                 prev : Hashes, hash : Hashes ]
  BY <1>1 DEF Junk
<1>3. Junk.readable = FALSE /\ Junk.payload = NoPayload
  BY DEF Junk
<1> QED BY <1>2, <1>3, PayloadsAreReal DEF Lines, Idle

(* The fields of a line. *)
LEMMA LineFields ==
  ASSUME NEW l \in Lines
  PROVE  /\ l.readable \in BOOLEAN /\ l.seq \in Nat /\ l.ts \in Nat
         /\ l.prev \in Hashes /\ l.hash \in Hashes
         /\ l.readable <=> l.payload \in Payloads
BY DEF Lines

(* An entry is a readable line, made of what is given. *)
LEMMA EntryIsLine ==
  ASSUME NEW s \in Nat, NEW t \in Nat, NEW p \in Payloads, NEW h \in Hashes
  PROVE  /\ Entry(s, t, p, h) \in Lines
         /\ Entry(s, t, p, h).readable
         /\ Entry(s, t, p, h).seq = s /\ Entry(s, t, p, h).ts = t
         /\ Entry(s, t, p, h).payload = p /\ Entry(s, t, p, h).prev = h
         /\ Entry(s, t, p, h).hash = EntryHash(s, t, p, h)
<1>1. EntryHash(s, t, p, h) \in Hashes
  BY DEF EntryHash, Hashes
<1>2. Entry(s, t, p, h) \in [ readable : BOOLEAN, seq : Nat, ts : Nat,
                              payload : Payloads \cup {NoPayload}, prev : Hashes, hash : Hashes ]
  BY <1>1 DEF Entry
<1> QED BY <1>2 DEF Lines, Entry

(* A line whose payload is edited is a line. *)
LEMMA EditedIsLine ==
  ASSUME NEW l \in Lines, l.readable, NEW p \in Payloads
  PROVE  /\ [l EXCEPT !.payload = p] \in Lines
         /\ [l EXCEPT !.payload = p].payload = p
         /\ [l EXCEPT !.payload = p].readable
BY DEF Lines

(* A log verifies if it does up to its last line, and that line follows. *)
LEMMA VerifiesLast ==
  ASSUME NEW s \in Seq(Lines), s # << >>
  PROVE  Verifies(s) <=> /\ Verifies(Front(s))
                         /\ LineOK(Last(s), Len(s) - 1, LastHash(Front(s)))
<1> DEFINE f == Front(s)
<1>1. /\ Len(s) \in Nat \ {0} /\ f \in Seq(Lines) /\ Len(f) = Len(s) - 1
      /\ \A n \in 1 .. Len(s) - 1 : f[n] = s[n]
      /\ Last(s) = s[Len(s)]
  BY FrontAndLast
<1>2. \A n \in 1 .. Len(s) - 1 : HashBefore(f, n) = HashBefore(s, n)
  BY <1>1 DEF HashBefore
<1>3. HashBefore(s, Len(s)) = LastHash(f)
  BY <1>1 DEF HashBefore, LastHash, Last
<1>4. DOMAIN s = 1 .. Len(s) /\ DOMAIN f = 1 .. Len(s) - 1
  BY <1>1
<1>5. Verifies(f) <=> \A n \in 1 .. Len(s) - 1 : LineOK(s[n], n - 1, HashBefore(s, n))
  BY <1>1, <1>2, <1>4 DEF Verifies
<1> HIDE DEF f
<1>6. Verifies(s) <=> /\ \A n \in 1 .. Len(s) - 1 : LineOK(s[n], n - 1, HashBefore(s, n))
                      /\ LineOK(s[Len(s)], Len(s) - 1, HashBefore(s, Len(s)))
  <2>1. DOMAIN s = (1 .. Len(s) - 1) \cup {Len(s)}
    BY <1>1, <1>4
  <2> QED BY <2>1 DEF Verifies
<1> QED BY <1>1, <1>3, <1>5, <1>6 DEF f

(* Every line of a log that verifies follows the one before it. *)
LEMMA VerifiedLine ==
  ASSUME NEW s, Verifies(s), NEW n \in DOMAIN s
  PROVE  LineOK(s[n], n - 1, HashBefore(s, n))
BY DEF Verifies

(* Every line of a log that verifies can be read. *)
LEMMA VerifiedIsReadable ==
  ASSUME NEW s \in Seq(Lines), Verifies(s), NEW n \in DOMAIN s
  PROVE  s[n].readable /\ s[n].seq = n - 1
BY DEF Verifies, LineOK

(* A log that ends in an unreadable line does not verify. *)
LEMMA JunkBreaks ==
  ASSUME NEW s \in Seq(Lines), s # << >>, ~Last(s).readable
  PROVE  ~Verifies(s)
BY VerifiesLast DEF LineOK

-----------------------------------------------------------------------------
(* What the steps do to the file. *)

(* A file that is being written to is not empty. *)
LEMMA WritingFile ==
  ASSUME TypeOK, writing # Idle
  PROVE  /\ file \in Seq(Lines) /\ file # << >> /\ ~ended /\ up
         /\ Last(file) = Junk
         /\ writing.entry \in Lines /\ writing.entry.readable
         /\ writing.line \in Lines /\ writing.line \in {Junk, writing.entry}
BY DEF TypeOK

(* The entry that append puts together. *)
LEMMA NewEntry ==
  ASSUME TypeOK, NEW p \in Payloads, NEW e, e = Entry(next_seq, Cardinality(written), p, prev_hash)
  PROVE  /\ e \in Lines /\ e.readable
         /\ e.seq = next_seq /\ e.ts = Cardinality(written) /\ e.prev = prev_hash
         /\ e.hash = EntryHash(e.seq, e.ts, e.payload, e.prev)
         /\ Cardinality(written) \in Nat
<1>1. Cardinality(written) \in Nat
  BY FS_CardinalityType DEF TypeOK
<1>2. next_seq \in Nat /\ prev_hash \in Hashes
  BY DEF TypeOK
<1> QED BY <1>1, <1>2, EntryIsLine

(* An append that starts adds a line, or spoils one that has not ended. *)
LEMMA StartsFile ==
  ASSUME TypeOK, NEW p \in Payloads, AppendStarts(p)
  PROVE  /\ file' \in Seq(Lines) /\ file' # << >> /\ Last(file') = Junk
         /\ ended => Front(file') = file /\ Len(file') = Len(file) + 1
         /\ ~ended => file # << >> /\ Front(file') = Front(file) /\ Len(file') = Len(file)
<1>1. file \in Seq(Lines) /\ Junk \in Lines /\ ended \in BOOLEAN
  BY JunkIsLine DEF TypeOK
<1>2. CASE ended
  <2>1. file' = file \o << Junk >>
    BY <1>2 DEF AppendStarts
  <2> QED BY <1>1, <1>2, <2>1, LastAdded
<1>3. CASE ~ended
  <2>1. file' = Front(file) \o << Junk >>
    BY <1>3 DEF AppendStarts
  <2>2. file # << >>
    BY <1>3 DEF TypeOK
  <2>3. Front(file) \in Seq(Lines) /\ Len(Front(file)) = Len(file) - 1 /\ Len(file) \in Nat
    BY <1>1, <2>2, FrontAndLast
  <2>4. ASSUME NEW f \in Seq(Lines), file' = f \o << Junk >>
        PROVE  /\ file' \in Seq(Lines) /\ file' # << >> /\ Last(file') = Junk
               /\ Front(file') = f /\ Len(file') = Len(f) + 1
    BY <1>1, <2>4, LastAdded
  <2> QED BY <1>3, <2>1, <2>2, <2>3, <2>4
<1> QED BY <1>2, <1>3

(* All of a line that is being written. *)
LEMMA WholeFile ==
  ASSUME TypeOK, writing # Idle
  PROVE  /\ WholeLine \in Seq(Lines) /\ WholeLine # << >> /\ Len(WholeLine) = Len(file)
         /\ \A n \in 1 .. Len(file) - 1 : WholeLine[n] = file[n]
         /\ Last(WholeLine) = writing.line
         /\ Front(WholeLine) = Front(file)
         /\ writing.line = Junk => WholeLine = file
<1>1. file \in Seq(Lines) /\ file # << >> /\ writing.line \in Lines /\ Last(file) = Junk
  BY WritingFile
<1>2. WholeLine = [file EXCEPT ![Len(file)] = writing.line]
  BY DEF WholeLine
<1>3. /\ WholeLine \in Seq(Lines) /\ WholeLine # << >> /\ Len(WholeLine) = Len(file)
      /\ \A n \in 1 .. Len(file) - 1 : WholeLine[n] = file[n]
      /\ Last(WholeLine) = writing.line
      /\ Front(WholeLine) = Front(file)
  <2>1. Len(file) \in Nat \ {0}
    BY <1>1, FrontAndLast
  <2>2. /\ WholeLine \in Seq(Lines) /\ Len(WholeLine) = Len(file)
        /\ \A n \in 1 .. Len(file) - 1 : WholeLine[n] = file[n]
        /\ WholeLine[Len(file)] = writing.line
    BY <1>1, <1>2, <2>1
  <2>3. WholeLine # << >> /\ Last(WholeLine) = writing.line
    BY <2>1, <2>2 DEF Last
  <2> QED BY <1>1, <2>2, <2>3, SameFront
<1>4. ASSUME writing.line = Junk
      PROVE  WholeLine = file
  <2>1. file[Len(file)] = writing.line
    BY <1>1, <1>4, FrontAndLast
  <2> QED BY <1>1, <1>2, <2>1
<1> QED BY <1>3, <1>4

(* Others leave lines of the file, with another payload perhaps. *)
LEMMA TamperFile ==
  ASSUME TypeOK, Tamper
  PROVE  /\ file' \in Seq(Lines)
         /\ \A n \in DOMAIN file' :
              \E m \in DOMAIN file :
                \/ file'[n] = file[m]
                \/ /\ file[m].readable
                   /\ \E p \in Payloads : file'[n] = [file[m] EXCEPT !.payload = p]
<1>1. file \in Seq(Lines) /\ DOMAIN file = 1 .. Len(file) /\ Len(file) \in Nat
  BY DEF TypeOK
<1>2. PICK n \in DOMAIN file :
        \/ file[n].readable /\ \E p \in Payloads : file' = Edited(n, p)
        \/ file' = Without(n)
        \/ \E m \in 1 .. n - 1 : file' = Swapped(m, n)
        \/ file' = Cut(n)
  BY DEF Tamper
<1>3. CASE file[n].readable /\ \E p \in Payloads : file' = Edited(n, p)
  <2>1. PICK p \in Payloads : file' = Edited(n, p)
    BY <1>3
  <2>2. PICK l : l = [file[n] EXCEPT !.payload = p]
    OBVIOUS
  <2>3. l \in Lines
    BY <1>1, <1>3, <2>2, EditedIsLine
  <2>4. file' = [file EXCEPT ![n] = l]
    BY <2>1, <2>2 DEF Edited
  <2>5. file' \in Seq(Lines) /\ DOMAIN file' = DOMAIN file
    BY <1>1, <2>3, <2>4
  <2>6. \A k \in DOMAIN file : file'[k] = IF k = n THEN l ELSE file[k]
    BY <1>1, <2>4
  <2> QED BY <1>3, <2>2, <2>5, <2>6
<1>4. CASE file' = Without(n)
  <2>1. PICK a : a = SubSeq(file, 1, n - 1)
    OBVIOUS
  <2>2. PICK b : b = SubSeq(file, n + 1, Len(file))
    OBVIOUS
  <2>3. /\ a \in Seq(Lines) /\ Len(a) = n - 1
        /\ \A k \in 1 .. n - 1 : a[k] = file[k]
    BY <1>1, <2>1
  <2>4. /\ b \in Seq(Lines) /\ Len(b) = Len(file) - n
        /\ \A k \in 1 .. Len(file) - n : b[k] = file[n + k]
    BY <1>1, <2>2
  <2>5. file' = a \o b
    BY <1>4, <2>1, <2>2 DEF Without
  <2>6. /\ a \o b \in Seq(Lines) /\ Len(a \o b) = Len(a) + Len(b)
        /\ \A k \in 1 .. Len(a) : (a \o b)[k] = a[k]
        /\ \A k \in 1 .. Len(a) + Len(b) : k > Len(a) => (a \o b)[k] = b[k - Len(a)]
    BY <2>3, <2>4, Joined
  <2>7. file' \in Seq(Lines) /\ DOMAIN file' = 1 .. Len(file) - 1
    <3>1. Len(a \o b) = Len(file) - 1
      BY <1>1, <2>3, <2>4, <2>6
    <3> QED BY <2>6, <2>5, <3>1
  <2>8. ASSUME NEW k \in 1 .. Len(file) - 1
        PROVE  \E m \in DOMAIN file : file'[k] = file[m]
    <3>1. CASE k <= n - 1
      <4>1. file'[k] = a[k] /\ k \in DOMAIN file
        BY <1>1, <2>3, <2>4, <2>5, <3>1
      <4> QED BY <1>1, <2>3, <3>1, <4>1
    <3>2. CASE k > n - 1
      <4>0. Len(file) \in Nat /\ DOMAIN file = 1 .. Len(file)
        BY <1>1
      <4>1. k - (n - 1) \in 1 .. Len(file) - n /\ k + 1 \in DOMAIN file
        <5>1. n \in 1 .. Len(file)
          BY <1>1, <4>0
        <5> QED BY <3>2, <4>0, <5>1
      <4>2. (a \o b)[k] = b[k - (n - 1)]
        <5>1. Len(a) = n - 1 /\ Len(a) + Len(b) = Len(file) - 1
          BY <1>1, <2>3, <2>4
        <5>2. k \in 1 .. Len(a) + Len(b) /\ k > Len(a)
          BY <3>2, <4>0, <5>1
        <5> QED BY <2>6, <5>1, <5>2
      <4>3. b[k - (n - 1)] = file[n + (k - (n - 1))]
        BY <2>4, <4>1
      <4>4. file'[k] = file[n + (k - (n - 1))]
        BY <2>5, <4>2, <4>3
      <4>5. n + (k - (n - 1)) = k + 1
        BY <1>1
      <4> QED BY <4>1, <4>4, <4>5
    <3> QED BY <1>1, <3>1, <3>2
  <2> QED BY <2>7, <2>8
<1>5. CASE \E m \in 1 .. n - 1 : file' = Swapped(m, n)
  <2>1. PICK m \in 1 .. n - 1 : file' = [file EXCEPT ![m] = file[n], ![n] = file[m]]
    BY <1>5 DEF Swapped
  <2>2. m \in DOMAIN file
    BY <1>1
  <2>3. file' \in Seq(Lines) /\ DOMAIN file' = DOMAIN file
    BY <1>1, <2>1, <2>2
  <2>4. \A k \in DOMAIN file : \E l \in DOMAIN file : file'[k] = file[l]
    BY <1>1, <2>1, <2>2
  <2> QED BY <2>3, <2>4
<1>6. CASE file' = Cut(n)
  <2>1. n - 1 \in Nat /\ n - 1 < Len(file)
    BY <1>1
  <2>2. file' \in Seq(Lines) /\ DOMAIN file' = 1 .. n - 1
    BY <1>1, <1>6, <2>1 DEF Cut
  <2>3. \A k \in 1 .. n - 1 : k \in DOMAIN file /\ file'[k] = file[k]
    BY <1>1, <1>6, <2>1 DEF Cut
  <2> QED BY <2>2, <2>3
<1> QED BY <1>2, <1>3, <1>4, <1>5, <1>6

(* What an append that is not finished leaves in the file. *)
LEMMA AbandonedFile ==
  ASSUME TypeOK, writing # Idle, Abandoned
  PROVE  /\ file' \in Seq(Lines) /\ file' # << >> /\ Len(file') = Len(file) /\ ended' \in BOOLEAN
         /\ Front(file') = Front(file)
         /\ \/ file' = file /\ ended' = FALSE
            \/ file' = WholeLine
BY WritingFile, WholeFile DEF Abandoned

(* The hash of the last line is a hash. *)
LEMMA LastHashType ==
  ASSUME NEW s \in Seq(Lines)
  PROVE  LastHash(s) \in Hashes
<1>1. GenesisHash \in Hashes
  BY DEF GenesisHash, Hashes
<1>2. s # << >> => Last(s).hash \in Hashes
  BY FrontAndLast, LineFields
<1> QED BY <1>1, <1>2 DEF LastHash

-----------------------------------------------------------------------------
(* Types. *)

(* The types of what is counted. *)
LEMMA SimpleTypes ==
  ASSUME TypeOK
  PROVE  /\ faults \in Nat /\ tampers \in Nat /\ life \in Nat \ {0} /\ next_seq \in Nat
         /\ ended \in BOOLEAN /\ up \in BOOLEAN
         /\ file \in Seq(Lines) /\ DOMAIN file = 1 .. Len(file) /\ Len(file) \in Nat
         /\ acked \in Seq(Lines) /\ DOMAIN acked = 1 .. Len(acked) /\ Len(acked) \in Nat
<1>1. faults \in Nat /\ tampers \in Nat
  BY DEF TypeOK
<1>2. file \in Seq(Lines) /\ acked \in Seq(Lines)
  BY DEF TypeOK
<1>3. life \in Nat \ {0} /\ next_seq \in Nat /\ ended \in BOOLEAN /\ up \in BOOLEAN
  BY DEF TypeOK
<1> QED BY <1>1, <1>2, <1>3

(* The initial values have their types. *)
LEMMA TypeInit == Init => TypeOK
<1> SUFFICES ASSUME Init PROVE TypeOK
  OBVIOUS
<1>1. GenesisHash \in Hashes
  BY DEF GenesisHash, Hashes
<1>2. "none" \in Verdicts
  BY DEF Verdicts
<1>3. reader \in [pc : {"idle", "verify", "entries"}, count : Nat, prev : Hashes,
                  verdict : Verdicts, acked : Nat]
  BY <1>1, <1>2 DEF Init, NoReader
<1>4. view \in [verdict : Verdicts, verified : Nat, listed : Nat, acked : Nat, quiet : BOOLEAN]
  BY <1>2 DEF Init, NoView
<1>5. written \subseteq Lines /\ IsFiniteSet(written)
  BY FS_EmptySet DEF Init
<1>6. file \in Seq(Lines) /\ acked \in Seq(Lines)
  BY DEF Init
<1>7. {faults, tampers} \subseteq Nat /\ life \in Nat \ {0} /\ next_seq \in Nat
  BY DEF Init
<1>8. writing = Idle /\ writing \in [entry : Lines, line : Lines]
  BY JunkIsLine DEF Init
<1>9. file = << >> /\ ended = TRUE /\ up = FALSE /\ prev_hash = GenesisHash
  BY DEF Init
<1> HIDE DEF Init
<1> QED BY <1>1, <1>3, <1>4, <1>5, <1>6, <1>7, <1>8, <1>9 DEF TypeOK

(* A step of the process that has the log open, or opens it. *)
LEMMA TypeWriter ==
  ASSUME TypeOK, Writer
  PROVE  TypeOK'
<1>1. CASE Open
  <2>1. next_seq' \in Nat /\ prev_hash' \in Hashes
    BY <1>1, LastHashType DEF Open, TypeOK
  <2> QED BY <1>1, <2>1 DEF Open, TypeOK, theFile, page
<1>2. CASE OpenRefused \/ AppendRefused
  BY <1>2 DEF OpenRefused, AppendRefused, vars, TypeOK
<1>3. ASSUME NEW p \in Payloads, AppendStarts(p)
      PROVE  TypeOK'
  <2>1. PICK e : e = Entry(next_seq, Cardinality(written), p, prev_hash)
    OBVIOUS
  <2>2. e \in Lines /\ e.readable
    BY <2>1, NewEntry
  <2>3. writing' = [entry |-> e, line |-> IF ended THEN e ELSE Junk] /\ written' = written \cup {e}
    BY <1>3, <2>1 DEF AppendStarts
  <2>4. /\ writing' \in [entry : Lines, line : Lines]
        /\ writing'.entry = e /\ writing'.line \in {Junk, writing'.entry}
    BY <2>2, <2>3, JunkIsLine
  <2>5. written' \subseteq Lines /\ IsFiniteSet(written')
    BY <2>2, <2>3, FS_AddElement DEF TypeOK
  <2>6. file' \in Seq(Lines) /\ file' # << >> /\ Last(file') = Junk
    BY <1>3, StartsFile
  <2> QED BY <1>3, <2>2, <2>4, <2>5, <2>6 DEF AppendStarts, TypeOK, page
<1>4. CASE AppendReturns
  <2>1. file' \in Seq(Lines) /\ file' # << >>
    BY <1>4, WholeFile DEF AppendReturns
  <2>2. writing.entry \in Lines /\ writing.entry.hash \in Hashes
    BY <1>4, WritingFile, LineFields DEF AppendReturns
  <2>3. acked' \in Seq(Lines) /\ prev_hash' \in Hashes /\ next_seq' \in Nat
    BY <1>4, <2>2 DEF AppendReturns, TypeOK
  <2> QED BY <1>4, <2>1, <2>3, JunkIsLine DEF AppendReturns, TypeOK, page
<1>5. CASE AppendRaises
  <2>1. file' \in Seq(Lines) /\ file' # << >> /\ ended' \in BOOLEAN
    BY <1>5, AbandonedFile DEF AppendRaises
  <2> QED BY <1>5, <2>1, JunkIsLine DEF AppendRaises, TypeOK, page
<1>6. CASE Crash
  <2>1. file' \in Seq(Lines) /\ ended' \in BOOLEAN /\ (file' = << >> => ended')
    BY <1>6, AbandonedFile DEF Crash, TypeOK, theFile
  <2>2. GenesisHash \in Hashes /\ "none" \in Verdicts
    BY DEF GenesisHash, Hashes, Verdicts
  <2>3. reader' \in [pc : {"idle", "verify", "entries"}, count : Nat, prev : Hashes,
                     verdict : Verdicts, acked : Nat]
    BY <1>6, <2>2 DEF Crash, NoReader
  <2>4. {faults', tampers'} \subseteq Nat /\ life' \in Nat \ {0}
    BY <1>6 DEF Crash, TypeOK
  <2>5. writing' = Idle /\ writing' \in [entry : Lines, line : Lines]
    BY <1>6, JunkIsLine DEF Crash
  <2>6. up' \in BOOLEAN /\ next_seq' \in Nat /\ prev_hash' \in Hashes
    BY <1>6, <2>2 DEF Crash
  <2>7. UNCHANGED << view, acked, written >>
    BY <1>6 DEF Crash
  <2> QED BY <2>1, <2>3, <2>4, <2>5, <2>6, <2>7 DEF TypeOK
<1> QED BY <1>1, <1>2, <1>3, <1>4, <1>5, <1>6 DEF Writer

(* A step of the audit page. *)
LEMMA TypeReader ==
  ASSUME TypeOK, Reader
  PROVE  TypeOK'
<1> DEFINE Readers == [pc : {"idle", "verify", "entries"}, count : Nat, prev : Hashes,
                       verdict : Verdicts, acked : Nat]
<1> USE DEF Verdicts
<1>1. GenesisHash \in Hashes /\ NoReader \in Readers
  BY DEF GenesisHash, Hashes, NoReader
<1>2. reader \in Readers /\ Len(acked) \in Nat /\ Len(file) \in Nat
  BY DEF TypeOK
<1>3. CASE ViewStarts
  <2>1. reader' \in Readers
    BY <1>1, <1>2, <1>3 DEF ViewStarts
  <2> QED BY <1>3, <2>1 DEF ViewStarts, TypeOK, theFile, process
<1>4. CASE ViewLine
  <2>1. PICK line : line = file[reader.count + 1]
    OBVIOUS
  <2>2. line \in Lines /\ line.hash \in Hashes
    BY <1>2, <1>4, <2>1, LineFields DEF ViewLine, TypeOK
  <2>3. VerdictOf(line) \in Verdicts
    BY DEF VerdictOf
  <2>4. \/ reader' = [reader EXCEPT !.count = @ + 1, !.prev = line.hash]
        \/ reader' = [reader EXCEPT !.pc = "entries", !.verdict = VerdictOf(line)]
    BY <1>4, <2>1 DEF ViewLine
  <2>5. reader.count + 1 \in Nat
    BY <1>2
  <2>6. reader' \in Readers
    <3>1. CASE reader' = [reader EXCEPT !.count = @ + 1, !.prev = line.hash]
      BY <1>2, <2>2, <2>5, <3>1
    <3>2. CASE reader' = [reader EXCEPT !.pc = "entries", !.verdict = VerdictOf(line)]
      BY <1>2, <2>3, <3>2
    <3> QED BY <2>4, <3>1, <3>2
  <2> QED BY <1>4, <2>6 DEF ViewLine, TypeOK, theFile, process
<1>5. CASE ViewVerified
  <2>1. reader' \in Readers
    BY <1>2, <1>5 DEF ViewVerified
  <2> QED BY <1>5, <2>1 DEF ViewVerified, TypeOK, theFile, process
<1>6. CASE ViewShown
  <2>1. reader' \in Readers
    BY <1>1, <1>6 DEF ViewShown
  <2>2. view' \in [verdict : Verdicts, verified : Nat, listed : Nat, acked : Nat, quiet : BOOLEAN]
    BY <1>2, <1>6 DEF ViewShown, TypeOK
  <2> QED BY <1>6, <2>1, <2>2 DEF ViewShown, TypeOK, theFile, process
<1> QED BY <1>3, <1>4, <1>5, <1>6 DEF Reader

(* An edit made by others. *)
LEMMA TypeTamper ==
  ASSUME TypeOK, Tamper
  PROVE  TypeOK'
<1>1. file' \in Seq(Lines)
  BY TamperFile
<1> QED BY <1>1 DEF Tamper, TypeOK, process, page

(* Every step keeps the types. *)
LEMMA TypeStep ==
  ASSUME TypeOK, [Next]_vars
  PROVE  TypeOK'
<1>1. CASE UNCHANGED vars
  BY <1>1 DEF vars, TypeOK
<1> QED BY <1>1, TypeWriter, TypeReader, TypeTamper DEF Next

(* Every variable has its type in every state. *)
THEOREM Typed == Spec => []TypeOK
<1>1. Init => TypeOK
  BY TypeInit
<1>2. TypeOK /\ [Next]_vars => TypeOK'
  BY TypeStep
<1> QED BY <1>1, <1>2, PTL DEF Spec

-----------------------------------------------------------------------------
(* What the steps do to the entries. *)

(* A step that leaves the file and its entries alone. *)
Quiet == UNCHANGED << file, ended, writing, acked, written, tampers >>

(* An append that raises, or dies with its process. *)
GivesUp == writing # Idle /\ Abandoned /\ writing' = Idle /\ UNCHANGED << acked, written, tampers >>

(* What the steps are, as far as the file and its entries are concerned. *)
LEMMA StepKinds ==
  ASSUME [Next]_vars
  PROVE  \/ Quiet
         \/ \E p \in Payloads : AppendStarts(p)
         \/ AppendReturns
         \/ GivesUp
         \/ Tamper
<1>1. CASE UNCHANGED vars
  BY <1>1 DEF vars, Quiet
<1>2. Open \/ OpenRefused \/ AppendRefused => Quiet
  BY DEF Open, OpenRefused, AppendRefused, Quiet, theFile, vars
<1>3. AppendRaises => GivesUp
  BY DEF AppendRaises, GivesUp
<1>4. Crash => Quiet \/ GivesUp
  BY DEF Crash, Quiet, GivesUp, theFile
<1>5. Reader => Quiet
  BY DEF Reader, ViewStarts, ViewLine, ViewVerified, ViewShown, Quiet, theFile, process
<1> QED BY <1>1, <1>2, <1>3, <1>4, <1>5 DEF Next, Writer

(* A line that append wrote stays, gets another payload, or goes; no other line comes but what is being written. *)
LEMMA LineComesFrom ==
  ASSUME TypeOK, [Next]_vars, NEW n \in DOMAIN file', file'[n].readable
  PROVE  \/ \E m \in DOMAIN file :
              file[m].readable /\ file'[n] = [file[m] EXCEPT !.payload = file'[n].payload]
         \/ writing # Idle /\ file'[n] = writing.entry
<1>0. file \in Seq(Lines) /\ DOMAIN file = 1 .. Len(file) /\ Len(file) \in Nat
  BY DEF TypeOK
<1>1. \A l \in Lines : l = [l EXCEPT !.payload = l.payload]
  BY DEF Lines
<1>2. SUFFICES \/ \E m \in DOMAIN file : file'[n] = file[m]
               \/ \E m \in DOMAIN file : \E p \in Payloads :
                    file[m].readable /\ file'[n] = [file[m] EXCEPT !.payload = p]
               \/ writing # Idle /\ file'[n] = writing.entry
  <2>1. ASSUME NEW m \in DOMAIN file, file'[n] = file[m]
        PROVE  file[m].readable /\ file'[n] = [file[m] EXCEPT !.payload = file'[n].payload]
    BY <1>0, <1>1, <2>1
  <2>2. ASSUME NEW m \in DOMAIN file, NEW p \in Payloads,
               file[m].readable, file'[n] = [file[m] EXCEPT !.payload = p]
        PROVE  file'[n] = [file[m] EXCEPT !.payload = file'[n].payload]
    <3>1. file[m] \in Lines
      BY <1>0
    <3>2. file'[n].payload = p
      BY <2>2, <3>1, EditedIsLine
    <3> QED BY <2>2, <3>2
  <2> QED BY <2>1, <2>2
<1>3. CASE Quiet
  BY <1>3 DEF Quiet
<1>4. ASSUME NEW p \in Payloads, AppendStarts(p)
      PROVE  \E m \in DOMAIN file : file'[n] = file[m]
  <2>1. /\ file' \in Seq(Lines) /\ file' # << >> /\ Last(file') = Junk
        /\ ended => Front(file') = file /\ Len(file') = Len(file) + 1
        /\ ~ended => file # << >> /\ Front(file') = Front(file) /\ Len(file') = Len(file)
    BY <1>4, StartsFile
  <2>2. /\ Len(file') \in Nat /\ Last(file') = file'[Len(file')]
        /\ \A k \in 1 .. Len(file') - 1 : Front(file')[k] = file'[k]
    BY <2>1, FrontAndLast
  <2>3. n \in 1 .. Len(file') - 1
    BY <2>1, <2>2, JunkIsLine
  <2>4. CASE ended
    BY <1>0, <2>1, <2>2, <2>3, <2>4
  <2>5. CASE ~ended
    <3>1. \A k \in 1 .. Len(file) - 1 : Front(file)[k] = file[k]
      BY <1>0, <2>1, <2>5, FrontAndLast
    <3> QED BY <1>0, <2>1, <2>2, <2>3, <2>5, <3>1
  <2> QED BY <2>4, <2>5 DEF TypeOK
<1>5. ASSUME writing # Idle, file' = WholeLine
      PROVE  (\E m \in DOMAIN file : file'[n] = file[m]) \/ file'[n] = writing.entry
  <2>1. /\ file' \in Seq(Lines) /\ file' # << >> /\ Len(file') = Len(file)
        /\ \A k \in 1 .. Len(file) - 1 : file'[k] = file[k]
        /\ Last(file') = writing.line
    BY <1>5, WholeFile
  <2>2. file'[Len(file')] = writing.line
    BY <2>1, FrontAndLast
  <2>3. writing.line.readable => writing.line = writing.entry
    BY <1>5, WritingFile, JunkIsLine
  <2>4. DOMAIN file' = DOMAIN file /\ n \in 1 .. Len(file)
    BY <1>0, <2>1
  <2>5. CASE n = Len(file)
    BY <1>0, <2>1, <2>2, <2>3, <2>5
  <2>6. CASE n # Len(file)
    <3>1. n \in 1 .. Len(file) - 1
      BY <2>4, <2>6
    <3> QED BY <2>1, <2>4, <3>1
  <2> QED BY <2>5, <2>6
<1>6. CASE AppendReturns
  BY <1>5, <1>6 DEF AppendReturns
<1>7. CASE GivesUp
  BY <1>5, <1>7 DEF GivesUp, Abandoned
<1>8. CASE Tamper
  BY <1>8, TamperFile
<1> QED BY <1>3, <1>4, <1>6, <1>7, <1>8, StepKinds

(* The entries of the log are those that append made. *)
LEMMA ProvenanceStep ==
  ASSUME TypeOK, Provenance, [Next]_vars
  PROVE  Provenance'
<1>1. written \subseteq written'
  BY StepKinds DEF Quiet, AppendStarts, AppendReturns, GivesUp, Tamper
<1>2. \A e \in written' : e.readable /\ e.hash = EntryHash(e.seq, e.ts, e.payload, e.prev)
  <2>1. ASSUME NEW p \in Payloads, AppendStarts(p)
        PROVE  \A e \in written' : e.readable /\ e.hash = EntryHash(e.seq, e.ts, e.payload, e.prev)
    <3>1. PICK e : e = Entry(next_seq, Cardinality(written), p, prev_hash)
      OBVIOUS
    <3>2. written' = written \cup {e}
      BY <2>1, <3>1 DEF AppendStarts
    <3>3. e.readable /\ e.hash = EntryHash(e.seq, e.ts, e.payload, e.prev)
      BY <3>1, NewEntry
    <3> QED BY <3>2, <3>3 DEF Provenance
  <2> QED BY <2>1, StepKinds DEF Quiet, AppendReturns, GivesUp, Tamper, Provenance
<1>3. ASSUME NEW n \in DOMAIN file', file'[n].readable
      PROVE  \E e \in written' : file'[n] = [e EXCEPT !.payload = file'[n].payload]
  <2>1. ASSUME NEW m \in DOMAIN file, file[m].readable,
               file'[n] = [file[m] EXCEPT !.payload = file'[n].payload]
        PROVE  \E e \in written : file'[n] = [e EXCEPT !.payload = file'[n].payload]
    <3>1. PICK e \in written : file[m] = [e EXCEPT !.payload = file[m].payload]
      BY <2>1 DEF Provenance
    <3>2. e \in Lines
      BY DEF TypeOK
    <3>3. [file[m] EXCEPT !.payload = file'[n].payload] = [e EXCEPT !.payload = file'[n].payload]
      BY <3>1, <3>2 DEF Lines
    <3> QED BY <2>1, <3>3
  <2>2. ASSUME writing # Idle, file'[n] = writing.entry
        PROVE  \E e \in written : file'[n] = [e EXCEPT !.payload = file'[n].payload]
    <3>1. writing.entry \in written /\ writing.entry \in Lines
      BY <2>2, WritingFile DEF Provenance
    <3>2. writing.entry = [writing.entry EXCEPT !.payload = writing.entry.payload]
      BY <3>1 DEF Lines
    <3> QED BY <2>2, <3>1, <3>2
  <2> QED BY <1>1, <1>3, <2>1, <2>2, LineComesFrom
<1>4. writing' # Idle => writing'.entry \in written'
  <2>1. ASSUME NEW p \in Payloads, AppendStarts(p)
        PROVE  writing'.entry \in written'
    <3>1. PICK e : e = Entry(next_seq, Cardinality(written), p, prev_hash)
      OBVIOUS
    <3>2. writing' = [entry |-> e, line |-> IF ended THEN e ELSE Junk] /\ written' = written \cup {e}
      BY <2>1, <3>1 DEF AppendStarts
    <3> QED BY <3>2
  <2>2. CASE Quiet \/ Tamper
    BY <2>2 DEF Quiet, Tamper, process, Provenance
  <2> QED BY <2>1, <2>2, StepKinds DEF AppendReturns, GivesUp
<1>5. \A m \in DOMAIN acked' : acked'[m] \in written'
  <2>1. CASE AppendReturns
    <3>1. acked' = Append(acked, writing.entry) /\ acked \in Seq(Lines) /\ writing.entry \in Lines
      BY <2>1 DEF AppendReturns, TypeOK
    <3>2. writing.entry \in written' /\ \A m \in DOMAIN acked : acked[m] \in written'
      BY <1>1, <2>1 DEF AppendReturns, Provenance
    <3> QED BY <3>1, <3>2
  <2> QED BY <1>1, <2>1, StepKinds DEF Quiet, AppendStarts, GivesUp, Tamper, page, Provenance
<1> QED BY <1>2, <1>3, <1>4, <1>5 DEF Provenance

(* The time of a readable line is that of an entry. *)
LEMMA LineTime ==
  ASSUME TypeOK, Provenance, NEW n \in DOMAIN file, file[n].readable
  PROVE  \E e \in written : file[n].ts = e.ts
<1>1. PICK e \in written : file[n] = [e EXCEPT !.payload = file[n].payload]
  BY DEF Provenance
<1>2. e \in Lines
  BY DEF TypeOK
<1>3. [e EXCEPT !.payload = file[n].payload].ts = e.ts
  BY <1>2 DEF Lines
<1> QED BY <1>1, <1>3

(* Every entry has a time of its own. *)
LEMMA ClockStep ==
  ASSUME TypeOK, Provenance, Clock, [Next]_vars
  PROVE  Clock'
<1>0. file \in Seq(Lines) /\ acked \in Seq(Lines) /\ written \subseteq Lines /\ IsFiniteSet(written)
  BY DEF TypeOK
<1>1. ASSUME NEW p \in Payloads, AppendStarts(p)
      PROVE  Clock'
  <2>1. PICK e : e = Entry(next_seq, Cardinality(written), p, prev_hash)
    OBVIOUS
  <2>2. e \in Lines /\ e.ts = Cardinality(written) /\ Cardinality(written) \in Nat
    BY <2>1, NewEntry
  <2>3. /\ writing' = [entry |-> e, line |-> IF ended THEN e ELSE Junk]
        /\ written' = written \cup {e} /\ acked' = acked /\ writing = Idle /\ ended' = FALSE
    BY <1>1, <2>1 DEF AppendStarts, page
  <2>4. e \notin written
    BY <2>2 DEF Clock
  <2>5. Cardinality(written') = Cardinality(written) + 1
    BY <1>0, <2>3, <2>4, FS_AddElement
  <2>6. \A d \in written : d.ts \in Nat /\ d.ts < Cardinality(written)
    BY <1>0, LineFields DEF Clock
  <2>7. \A d \in written' : d.ts < Cardinality(written')
    BY <2>2, <2>3, <2>5, <2>6
  <2>8. \A c, d \in written' : d.ts = c.ts => d = c
    BY <2>2, <2>3, <2>6 DEF Clock
  <2>9. writing'.entry = e
    BY <2>3
  <2>10. \A m \in DOMAIN acked' : acked'[m].ts # writing'.entry.ts
    BY <2>2, <2>3, <2>6, <2>9 DEF Provenance
  <2>11. ASSUME NEW n \in DOMAIN file', file'[n].readable
         PROVE  file'[n].ts # writing'.entry.ts
    <3>1. PICK m \in DOMAIN file :
            file[m].readable /\ file'[n] = [file[m] EXCEPT !.payload = file'[n].payload]
      BY <2>3, <2>11, LineComesFrom
    <3>2. file[m] \in Lines
      BY <1>0
    <3>3. [file[m] EXCEPT !.payload = file'[n].payload].ts = file[m].ts
      BY <3>2 DEF Lines
    <3>4. file'[n].ts = file[m].ts
      BY <3>1, <3>3
    <3>5. PICK d \in written : file[m].ts = d.ts
      BY <3>1, LineTime
    <3>6. d.ts # e.ts
      BY <2>2, <2>6
    <3> QED BY <2>9, <3>4, <3>5, <3>6
  <2>12. ~Last(file').readable
    BY <1>1, StartsFile, JunkIsLine
  <2> QED BY <2>7, <2>8, <2>10, <2>11, <2>12 DEF Clock
<1>2. CASE AppendReturns
  BY <1>2 DEF AppendReturns, Clock
<1>3. CASE GivesUp
  <2>1. writing' = Idle /\ acked' = acked /\ written' = written
    BY <1>3 DEF GivesUp
  <2>2. Last(file').readable => Last(file') = writing.entry
    <3>1. CASE file' = file
      BY <1>3, <3>1, WritingFile, JunkIsLine DEF GivesUp
    <3>2. CASE file' = WholeLine
      BY <1>3, <3>2, WholeFile, WritingFile, JunkIsLine DEF GivesUp
    <3> QED BY <1>3, <3>1, <3>2 DEF GivesUp, Abandoned
  <2>3. \A m \in DOMAIN acked : acked[m].ts # writing.entry.ts
    BY <1>3 DEF GivesUp, Clock
  <2> QED BY <2>1, <2>2, <2>3 DEF Clock
<1>4. CASE Tamper
  BY <1>4 DEF Tamper, process, Clock
<1>5. CASE Quiet
  BY <1>5 DEF Quiet, Clock
<1> QED BY <1>1, <1>2, <1>3, <1>4, <1>5, StepKinds

-----------------------------------------------------------------------------
(* What the steps do to the settled lines. *)

(* The settled lines are lines of the file. *)
LEMMA SettledType ==
  ASSUME TypeOK
  PROVE  /\ Settled \in Seq(Lines)
         /\ DOMAIN Settled = 1 .. Len(Settled) /\ Len(Settled) \in Nat /\ Len(Settled) <= Len(file)
         /\ \A n \in DOMAIN Settled : n \in DOMAIN file /\ Settled[n] = file[n]
         /\ writing = Idle => Settled = file
<1>1. CASE writing # Idle /\ writing.line.readable
  <2>1. file \in Seq(Lines) /\ file # << >>
    BY <1>1, WritingFile
  <2> QED BY <1>1, <2>1, FrontAndLast DEF Settled
<1>2. CASE ~(writing # Idle /\ writing.line.readable)
  BY <1>2 DEF Settled, TypeOK
<1> QED BY <1>1, <1>2

(* The same, as a fact that can be stated of the state after a step. *)
LEMMA SettledInFile == TypeOK => Len(Settled) \in Nat /\ \A n \in DOMAIN Settled : Settled[n] = file[n]
BY SettledType

(* The settled lines grow by the entry that was being written. *)
Grows ==
  /\ writing # Idle /\ writing.line = writing.entry /\ writing' = Idle
  /\ file' = WholeLine
  /\ Settled' \in Seq(Lines) /\ Settled' # << >>
  /\ Front(Settled') = Settled /\ Last(Settled') = writing.entry
  /\ AppendReturns \/ GivesUp

(* The settled lines stay, end in what cannot be read, or grow. *)
LEMMA SettledSteps ==
  ASSUME TypeOK, TypeOK', [Next]_vars
  PROVE  \/ Quiet /\ Settled' = Settled
         \/ /\ \E p \in Payloads : AppendStarts(p)
            /\ IF ended THEN Settled' = Settled ELSE ~Verifies(Settled')
         \/ (AppendReturns \/ GivesUp) /\ ~Verifies(Settled') /\ Settled' = file' /\ Settled' # << >>
         \/ Grows
         \/ Tamper
<1>1. CASE Quiet
  BY <1>1 DEF Quiet, Settled
<1>2. ASSUME NEW p \in Payloads, AppendStarts(p)
      PROVE  IF ended THEN Settled' = Settled ELSE ~Verifies(Settled')
  <2>1. PICK e : e = Entry(next_seq, Cardinality(written), p, prev_hash)
    OBVIOUS
  <2>2. e.readable
    BY <2>1, NewEntry
  <2>3. writing' = [entry |-> e, line |-> IF ended THEN e ELSE Junk] /\ writing = Idle
    BY <1>2, <2>1 DEF AppendStarts
  <2>4. CASE ended
    <3>1. writing'.line.readable /\ writing' # Idle
      BY <2>2, <2>3, <2>4, JunkIsLine DEF Idle
    <3>2. Settled' = Front(file') /\ Settled = file
      BY <2>3, <3>1 DEF Settled
    <3> QED BY <1>2, <2>4, <3>2, StartsFile
  <2>5. CASE ~ended
    <3>1. ~writing'.line.readable
      BY <2>3, <2>5, JunkIsLine
    <3>2. Settled' = file'
      BY <3>1 DEF Settled
    <3> QED BY <1>2, <2>5, <3>2, StartsFile, JunkIsLine, JunkBreaks
  <2> QED BY <2>4, <2>5
<1>3. ASSUME writing # Idle, writing' = Idle, Abandoned \/ file' = WholeLine
      PROVE  \/ ~Verifies(Settled') /\ Settled' = file' /\ Settled' # << >>
             \/ /\ writing.line = writing.entry /\ file' = WholeLine
                /\ Settled' \in Seq(Lines) /\ Settled' # << >>
                /\ Front(Settled') = Settled /\ Last(Settled') = writing.entry
  <2>1. Settled' = file'
    BY <1>3 DEF Settled
  <2>2. CASE file' = file
    BY <1>3, <2>1, <2>2, WritingFile, JunkIsLine, JunkBreaks
  <2>3. CASE file' = WholeLine /\ ~writing.line.readable
    BY <1>3, <2>1, <2>3, WholeFile, JunkBreaks
  <2>4. CASE file' = WholeLine /\ writing.line.readable
    <3>1. writing.line = writing.entry
      BY <1>3, <2>4, WritingFile, JunkIsLine
    <3>2. Settled = Front(file)
      BY <1>3, <2>4 DEF Settled
    <3> QED BY <1>3, <2>1, <2>4, <3>1, <3>2, WholeFile
  <2> QED BY <1>3, <2>2, <2>3, <2>4 DEF Abandoned
<1>4. CASE AppendReturns \/ GivesUp
  BY <1>3, <1>4 DEF AppendReturns, GivesUp, Grows
<1> QED BY <1>1, <1>2, <1>4, StepKinds

(* What grew verifies if it did before, and if the entry follows. *)
LEMMA GrownVerifies ==
  ASSUME TypeOK, Grows
  PROVE  /\ Verifies(Settled') <=> Verifies(Settled) /\ LineOK(writing.entry, Len(Settled), LastHash(Settled))
         /\ Len(Settled') = Len(Settled) + 1
         /\ Settled'[Len(Settled) + 1] = writing.entry
         /\ \A n \in DOMAIN Settled : n \in DOMAIN Settled' /\ Settled'[n] = Settled[n]
<1>1. /\ Settled' \in Seq(Lines) /\ Settled' # << >>
      /\ Front(Settled') = Settled /\ Last(Settled') = writing.entry
  BY DEF Grows
<1>2. /\ Len(Settled') \in Nat \ {0} /\ Len(Settled) = Len(Settled') - 1
      /\ \A n \in 1 .. Len(Settled') - 1 : Settled[n] = Settled'[n]
      /\ Settled'[Len(Settled')] = writing.entry
  BY <1>1, FrontAndLast
<1>3. Settled \in Seq(Lines)
  BY SettledType
<1>4. Verifies(Settled') <=> Verifies(Settled) /\ LineOK(writing.entry, Len(Settled') - 1, LastHash(Settled))
  BY <1>1, VerifiesLast
<1>5. DOMAIN Settled = 1 .. Len(Settled) /\ DOMAIN Settled' = 1 .. Len(Settled')
  BY <1>1, <1>3
<1> QED BY <1>2, <1>4, <1>5

-----------------------------------------------------------------------------
(* What was acknowledged. *)

(* What is appended to a log that verifies goes after what was acknowledged. *)
LEMMA InPlaceStep ==
  ASSUME TypeOK, TypeOK', AckedInPlace, [Next]_vars
  PROVE  AckedInPlace'
<1> DEFINE InPlace(s, a) == \A m \in DOMAIN a :
                              /\ a[m].seq + 1 \in DOMAIN s
                              /\ s[a[m].seq + 1] = a[m]
                              /\ \A l \in 1 .. m - 1 : a[l].seq < a[m].seq
<1>1. SUFFICES ASSUME tampers' = 0, Verifies(Settled')
               PROVE  InPlace(Settled', acked')
  BY DEF AckedInPlace
<1>2. CASE Settled' = Settled /\ acked' = acked /\ tampers' = tampers
  BY <1>1, <1>2 DEF AckedInPlace
<1>3. CASE Grows
  <2>1. /\ Verifies(Settled) /\ LineOK(writing.entry, Len(Settled), LastHash(Settled))
        /\ Len(Settled') = Len(Settled) + 1
        /\ Settled'[Len(Settled) + 1] = writing.entry
        /\ \A n \in DOMAIN Settled : n \in DOMAIN Settled' /\ Settled'[n] = Settled[n]
    BY <1>1, <1>3, GrownVerifies
  <2>2. /\ DOMAIN Settled = 1 .. Len(Settled) /\ Len(Settled) \in Nat
        /\ DOMAIN Settled' = 1 .. Len(Settled') /\ acked \in Seq(Lines) /\ writing.entry \in Lines
    <3>1. Settled' \in Seq(Lines) /\ writing.entry \in Lines
      BY <1>3, WritingFile DEF Grows
    <3> QED BY <3>1, SettledType, SimpleTypes
  <2>3. tampers = 0 /\ InPlace(Settled, acked)
    BY <1>1, <1>3, <2>1 DEF Grows, AppendReturns, GivesUp, AckedInPlace
  <2>4. writing.entry.seq = Len(Settled)
    BY <2>1 DEF LineOK
  <2>5. InPlace(Settled', acked)
    BY <2>1, <2>3
  <2>6. CASE AppendReturns
    <3>1. acked' = Append(acked, writing.entry)
      BY <2>6 DEF AppendReturns
    <3>2. /\ Len(acked) \in Nat /\ DOMAIN acked = 1 .. Len(acked) /\ DOMAIN acked' = 1 .. Len(acked) + 1
          /\ \A m \in 1 .. Len(acked) : acked'[m] = acked[m]
          /\ acked'[Len(acked) + 1] = writing.entry
      BY <2>2, <3>1
    <3>3. ASSUME NEW m \in 1 .. Len(acked)
          PROVE  /\ acked'[m].seq + 1 \in DOMAIN Settled'
                 /\ Settled'[acked'[m].seq + 1] = acked'[m]
                 /\ \A l \in 1 .. m - 1 : acked'[l].seq < acked'[m].seq
      <4>1. \A l \in 1 .. m - 1 : acked'[l] = acked[l]
        BY <3>2
      <4> QED BY <2>5, <3>2, <4>1
    <3>4. ASSUME NEW m, m = Len(acked) + 1
          PROVE  /\ acked'[m].seq + 1 \in DOMAIN Settled'
                 /\ Settled'[acked'[m].seq + 1] = acked'[m]
                 /\ \A l \in 1 .. m - 1 : acked'[l].seq < acked'[m].seq
      <4>1. acked'[m] = writing.entry /\ m - 1 = Len(acked)
        BY <3>2, <3>4
      <4>2. Len(Settled) + 1 \in DOMAIN Settled'
        BY <2>1, <2>2
      <4>3. ASSUME NEW l \in 1 .. Len(acked)
            PROVE  acked'[l].seq < Len(Settled)
        <5>1. l \in DOMAIN acked /\ acked[l] \in Lines
          BY <2>2, <3>2
        <5>2. acked[l].seq + 1 \in 1 .. Len(Settled)
          BY <2>2, <2>3, <5>1
        <5>3. acked[l].seq \in Nat
          BY <5>1, LineFields
        <5> QED BY <2>2, <3>2, <5>2, <5>3
      <4>4. \A l \in 1 .. m - 1 : acked'[l].seq < Len(Settled)
        BY <4>1, <4>3
      <4>5. writing.entry.seq = Len(Settled)
        BY <2>4
      <4> QED BY <2>1, <2>4, <4>1, <4>2, <4>4, <4>5
    <3>5. \A m \in DOMAIN acked' : m \in 1 .. Len(acked) \/ m = Len(acked) + 1
      BY <3>2
    <3> QED BY <3>3, <3>4, <3>5
  <2>7. CASE GivesUp
    <3>1. acked' = acked
      BY <2>7 DEF GivesUp
    <3> HIDE DEF InPlace
    <3> QED BY <2>5, <3>1
  <2> QED BY <1>3, <2>6, <2>7 DEF Grows
<1>4. ~Tamper
  <2>1. tampers \in Nat
    BY DEF TypeOK
  <2> QED BY <1>1, <2>1 DEF Tamper
<1>5. ASSUME NEW p \in Payloads, AppendStarts(p)
      PROVE  acked' = acked /\ tampers' = tampers
  BY <1>5 DEF AppendStarts
<1> QED BY <1>1, <1>2, <1>3, <1>4, <1>5, SettledSteps DEF Quiet

(* An append takes a line for what it acknowledges. *)
LEMMA FitStep ==
  ASSUME TypeOK, TypeOK', AckedFit, [Next]_vars
  PROVE  AckedFit'
<1>0. Len(file) \in Nat /\ Len(acked) \in Nat /\ tampers \in Nat /\ ended \in BOOLEAN
  BY SimpleTypes
<1>1. CASE Quiet
  BY <1>1 DEF Quiet, AckedFit
<1>2. ASSUME NEW p \in Payloads, AppendStarts(p)
      PROVE  AckedFit'
  <2>1. acked' = acked /\ tampers' = tampers /\ ended' = FALSE
    BY <1>2 DEF AppendStarts
  <2>2. /\ ended => Len(file') = Len(file) + 1
        /\ ~ended => Len(file') = Len(file)
    BY <1>2, StartsFile
  <2> QED BY <1>0, <2>1, <2>2 DEF AckedFit
<1>3. CASE AppendReturns
  <2>1. Len(file') = Len(file) /\ ~ended
    BY <1>3, WholeFile, WritingFile DEF AppendReturns
  <2>2. ended' = TRUE /\ Len(acked') = Len(acked) + 1 /\ tampers' = tampers
    BY <1>3 DEF AppendReturns, TypeOK
  <2> QED BY <1>0, <2>1, <2>2 DEF AckedFit
<1>4. CASE GivesUp
  <2>1. Len(file') = Len(file) /\ ~ended
    BY <1>4, AbandonedFile, WritingFile DEF GivesUp
  <2> QED BY <1>0, <1>4, <2>1 DEF GivesUp, AckedFit
<1>5. CASE Tamper
  BY <1>0, <1>5 DEF Tamper, AckedFit
<1> QED BY <1>1, <1>2, <1>3, <1>4, <1>5, StepKinds

-----------------------------------------------------------------------------
(* The memory of the process, and a log nothing has happened to. *)

(* As long as no append raises, the process knows the end of the log. *)
LEMMA MemoryStep ==
  ASSUME TypeOK, TypeOK', MemoryFollows, [Next]_vars
  PROVE  MemoryFollows'
<1>0. /\ faults \in Nat /\ tampers \in Nat
      /\ Settled \in Seq(Lines) /\ Len(Settled) \in Nat
      /\ writing = Idle => Settled = file
  BY SimpleTypes, SettledType
<1>1. CASE Quiet /\ UNCHANGED << up, next_seq, prev_hash, faults >>
  <2>1. Settled' = Settled
    BY <1>1 DEF Quiet, Settled
  <2> QED BY <1>1, <2>1 DEF Quiet, MemoryFollows
<1>2. CASE Open
  <2>1. writing = Idle
    BY <1>2 DEF Open, TypeOK
  <2>2. writing' = Idle /\ Settled' = file
    BY <1>2, <2>1 DEF Open, Settled, theFile
  <2> QED BY <1>2, <2>2 DEF Open, MemoryFollows
<1>3. ASSUME NEW p \in Payloads, AppendStarts(p)
      PROVE  MemoryFollows'
  <2>1. PICK e : e = Entry(next_seq, Cardinality(written), p, prev_hash)
    OBVIOUS
  <2>2. e.seq = next_seq /\ e.prev = prev_hash
    BY <2>1, NewEntry
  <2>3. writing'.entry = e
    BY <1>3, <2>1 DEF AppendStarts
  <2>4. UNCHANGED << up, next_seq, prev_hash, faults, tampers >>
    BY <1>3 DEF AppendStarts
  <2>5. Verifies(Settled') => Settled' = Settled
    <3>1. ~ (Quiet \/ AppendReturns \/ GivesUp \/ Tamper \/ Grows)
      <4>1. writing = Idle /\ writing'.entry.readable /\ ~Idle.entry.readable
        BY <1>3, <2>1, <2>3, NewEntry, JunkIsLine DEF AppendStarts, Idle
      <4> QED BY <4>1 DEF Quiet, AppendReturns, GivesUp, Tamper, Grows, process
    <3> QED BY <3>1, SettledSteps
  <2> QED BY <2>2, <2>3, <2>4, <2>5 DEF MemoryFollows
<1>4. CASE AppendReturns
  <2>1. CASE Grows
    <3>1. Len(Settled') = Len(Settled) + 1 /\ (Verifies(Settled') => Verifies(Settled))
      BY <2>1, GrownVerifies
    <3>2. LastHash(Settled') = writing.entry.hash
      BY <2>1 DEF Grows, LastHash
    <3>3. /\ next_seq' = next_seq + 1 /\ prev_hash' = writing.entry.hash /\ writing' = Idle
          /\ UNCHANGED << up, faults, tampers >>
      BY <1>4 DEF AppendReturns
    <3> QED BY <3>1, <3>2, <3>3 DEF MemoryFollows
  <2>2. CASE ~Verifies(Settled')
    BY <1>4, <2>2 DEF AppendReturns, MemoryFollows
  <2>3. ~ (Quiet \/ Tamper \/ \E p \in Payloads : AppendStarts(p))
    BY <1>4 DEF AppendReturns, Quiet, Tamper, AppendStarts
  <2> QED BY <2>1, <2>2, <2>3, SettledSteps
<1>5. CASE AppendRaises \/ Crash \/ Tamper
  <2>1. faults' # 0 \/ ~up' \/ tampers' # 0
    BY <1>0, <1>5 DEF AppendRaises, Crash, Tamper
  <2> QED BY <2>1 DEF MemoryFollows
<1>6. OpenRefused \/ AppendRefused \/ Reader \/ UNCHANGED vars
        => Quiet /\ UNCHANGED << up, next_seq, prev_hash, faults >>
  BY DEF OpenRefused, AppendRefused, Reader, ViewStarts, ViewLine, ViewVerified, ViewShown,
         Quiet, theFile, process, vars
<1> QED BY <1>1, <1>2, <1>3, <1>4, <1>5, <1>6 DEF Next, Writer

(* A log nothing has happened to verifies. *)
LEMMA PristineStep ==
  ASSUME TypeOK, TypeOK', Provenance, MemoryFollows, Pristine, [Next]_vars
  PROVE  Pristine'
<1>0. /\ faults \in Nat /\ tampers \in Nat /\ life \in Nat \ {0}
  BY SimpleTypes
<1>1. CASE Quiet /\ UNCHANGED << faults, life >>
  <2>1. Settled' = Settled
    BY <1>1 DEF Quiet, Settled
  <2> QED BY <1>1, <2>1 DEF Quiet, Pristine
<1>2. ASSUME NEW p \in Payloads, AppendStarts(p), faults' = 0, tampers' = 0, life' = 1
      PROVE  Verifies(Settled') /\ writing' # Idle /\ writing'.line = writing'.entry
  <2>1. PICK e : e = Entry(next_seq, Cardinality(written), p, prev_hash)
    OBVIOUS
  <2>2. e.readable /\ ~Idle.entry.readable
    BY <2>1, NewEntry, JunkIsLine DEF Idle
  <2>3. writing' = [entry |-> e, line |-> IF ended THEN e ELSE Junk] /\ writing = Idle
        /\ UNCHANGED << faults, tampers, life >>
    BY <1>2, <2>1 DEF AppendStarts
  <2>4. ended /\ Verifies(Settled)
    BY <1>2, <2>3 DEF Pristine
  <2>5. writing'.entry = e /\ writing'.line = e
    BY <2>3, <2>4
  <2>6. Settled' = Settled
    <3>1. ~ (AppendReturns \/ GivesUp \/ Tamper \/ Grows)
      BY <2>2, <2>3, <2>5 DEF AppendReturns, GivesUp, Tamper, Grows, process
    <3> QED BY <2>4, <3>1, SettledSteps
  <2> QED BY <2>2, <2>4, <2>5, <2>6
<1>3. ASSUME AppendReturns, faults' = 0, tampers' = 0, life' = 1
      PROVE  Verifies(Settled') /\ writing' = Idle /\ ended'
  <2>1. /\ writing # Idle /\ writing' = Idle /\ ended' = TRUE /\ file' = WholeLine
        /\ UNCHANGED << faults, tampers, life >>
    BY <1>3 DEF AppendReturns
  <2>2. Verifies(Settled) /\ writing.line = writing.entry
    BY <1>3, <2>1 DEF Pristine
  <2>3. /\ writing.entry.readable /\ up
    BY <2>1, WritingFile
  <2>4. writing.entry.hash = EntryHash(writing.entry.seq, writing.entry.ts, writing.entry.payload,
                                       writing.entry.prev)
    BY <2>1 DEF Provenance
  <2>5. LineOK(writing.entry, Len(Settled), LastHash(Settled))
    BY <1>3, <2>1, <2>2, <2>3, <2>4 DEF MemoryFollows, LineOK
  <2>6. Grows
    <3>1. Settled' = file' /\ Settled = Front(file)
      BY <2>1, <2>2, <2>3 DEF Settled
    <3> QED BY <1>3, <2>1, <2>2, <3>1, WholeFile DEF Grows
  <2> QED BY <2>1, <2>2, <2>5, <2>6, GrownVerifies
<1>4. CASE AppendRaises \/ Crash \/ Tamper
  BY <1>0, <1>4 DEF AppendRaises, Crash, Tamper, Pristine
<1>5. Open \/ OpenRefused \/ AppendRefused \/ Reader \/ UNCHANGED vars
        => Quiet /\ UNCHANGED << faults, life >>
  BY DEF Open, OpenRefused, AppendRefused, Reader, ViewStarts, ViewLine, ViewVerified, ViewShown,
         Quiet, theFile, process, vars
<1> QED BY <1>1, <1>2, <1>3, <1>4, <1>5 DEF Next, Writer, Pristine

-----------------------------------------------------------------------------
(* The audit page. *)

(* Lines of the file are not taken away but by others. *)
LEMMA LinesStay ==
  ASSUME TypeOK, TypeOK', Pristine', [Next]_vars, tampers' = 0
  PROVE  /\ tampers = 0 /\ Len(file) <= Len(file') /\ Len(acked) <= Len(acked')
         /\ faults' = 0 /\ life' = 1 =>
              /\ faults = 0 /\ life = 1
              /\ Len(Settled) <= Len(Settled')
              /\ \A n \in DOMAIN Settled : n \in DOMAIN Settled' /\ Settled'[n] = Settled[n]
<1>0. /\ faults \in Nat /\ tampers \in Nat /\ life \in Nat \ {0}
      /\ Len(file) \in Nat /\ Len(acked) \in Nat /\ acked \in Seq(Lines)
      /\ Settled \in Seq(Lines) /\ Len(Settled) \in Nat
  BY SimpleTypes, SettledType
<1>1. tampers = 0 /\ ~Tamper
  <2>1. ~Tamper
    BY <1>0 DEF Tamper
  <2>2. AppendReturns \/ GivesUp \/ Quiet \/ (\E p \in Payloads : AppendStarts(p)) => tampers' = tampers
    BY DEF Quiet, AppendStarts, AppendReturns, GivesUp
  <2> QED BY <2>1, <2>2, StepKinds
<1>2. Len(file) <= Len(file')
  <2>1. ASSUME NEW p \in Payloads, AppendStarts(p)
        PROVE  Len(file) <= Len(file')
    BY <1>0, <2>1, StartsFile
  <2>2. CASE AppendReturns
    BY <1>0, <2>2, WholeFile DEF AppendReturns
  <2>3. CASE GivesUp
    BY <1>0, <2>3, AbandonedFile DEF GivesUp
  <2> QED BY <1>0, <1>1, <2>1, <2>2, <2>3, StepKinds DEF Quiet
<1>3. Len(acked) <= Len(acked')
  <2>1. CASE AppendReturns
    BY <1>0, <2>1 DEF AppendReturns
  <2>2. Quiet \/ GivesUp \/ (\E p \in Payloads : AppendStarts(p)) => acked' = acked
    BY DEF Quiet, AppendStarts, GivesUp
  <2> QED BY <1>0, <1>1, <2>1, <2>2, StepKinds
<1>4. faults' = 0 /\ life' = 1 => faults = 0 /\ life = 1
  <2>1. UNCHANGED faults \/ faults' = faults + 1
    BY DEF Next, Writer, Open, OpenRefused, AppendRefused, AppendStarts, AppendReturns, AppendRaises, Crash,
           Reader, ViewStarts, ViewLine, ViewVerified, ViewShown, Tamper, vars
  <2>2. UNCHANGED life \/ life' = life + 1
    BY DEF Next, Writer, Open, OpenRefused, AppendRefused, AppendStarts, AppendReturns, AppendRaises, Crash,
           Reader, ViewStarts, ViewLine, ViewVerified, ViewShown, Tamper, vars
  <2> QED BY <1>0, <2>1, <2>2
<1>5. ASSUME faults' = 0, life' = 1
      PROVE  /\ Len(Settled) <= Len(Settled')
             /\ \A n \in DOMAIN Settled : n \in DOMAIN Settled' /\ Settled'[n] = Settled[n]
  <2>1. CASE Settled' = Settled
    BY <1>0, <2>1
  <2>2. CASE Grows
    BY <1>0, <2>2, GrownVerifies
  <2>3. Verifies(Settled')
    BY <1>5 DEF Pristine
  <2> QED BY <1>1, <2>1, <2>2, <2>3, SettledSteps
<1> QED BY <1>1, <1>2, <1>3, <1>4, <1>5

(* Verification gets past line n of the settled lines, and no line after them. *)
LEMMA PageReads ==
  ASSUME TypeOK, NEW n \in DOMAIN file, NEW c, NEW h, LineOK(file[n], c, h)
  PROVE  n \in DOMAIN Settled
<1>1. file[n].readable
  BY DEF LineOK
<1>2. CASE writing # Idle /\ writing.line.readable
  <2>1. file \in Seq(Lines) /\ file # << >> /\ Last(file) = Junk
    BY <1>2, WritingFile
  <2>2. Len(file) \in Nat \ {0} /\ Last(file) = file[Len(file)]
    BY <2>1, FrontAndLast
  <2>3. n # Len(file)
    BY <1>1, <2>1, <2>2, JunkIsLine
  <2>4. Settled \in Seq(Lines) /\ Len(Settled) = Len(file) - 1
    BY <1>2, <2>1, FrontAndLast DEF Settled
  <2> QED BY <2>1, <2>2, <2>3, <2>4
<1>3. CASE ~(writing # Idle /\ writing.line.readable)
  BY <1>3 DEF Settled
<1> QED BY <1>2, <1>3

(* The page keeps to the chain while the file grows under it. *)
LEMMA ReaderStep ==
  ASSUME TypeOK, TypeOK', Pristine, Pristine', AckedFit, ReaderFollows, [Next]_vars
  PROVE  ReaderFollows'
<1> DEFINE Readers == [pc : {"idle", "verify", "entries"}, count : Nat, prev : Hashes,
                       verdict : Verdicts, acked : Nat]
           HashAt(f, r) == IF r.count = 0 THEN GenesisHash ELSE f[r.count].hash
<1>1. SUFFICES ASSUME tampers' = 0
               PROVE  /\ reader'.pc # "idle" => reader'.count <= Len(file') /\ reader'.acked <= Len(acked')
                      /\ reader'.pc = "entries" /\ reader'.verdict = "ok" => reader'.acked <= reader'.count
                      /\ reader'.pc = "entries" /\ reader'.verdict # "ok" => reader'.count < Len(file')
                      /\ faults' = 0 /\ life' = 1 =>
                           /\ reader'.verdict # "mismatch"
                           /\ reader'.pc = "entries" => reader'.acked <= reader'.count
                           /\ reader'.pc = "verify" =>
                                reader'.count <= Len(Settled') /\ reader'.prev = HashAt(file', reader')
  BY DEF ReaderFollows
<1>2. /\ tampers = 0 /\ Len(file) <= Len(file') /\ Len(acked) <= Len(acked')
      /\ faults' = 0 /\ life' = 1 =>
           /\ faults = 0 /\ life = 1
           /\ Len(Settled) <= Len(Settled')
           /\ \A n \in DOMAIN Settled : n \in DOMAIN Settled' /\ Settled'[n] = Settled[n]
  BY <1>1, LinesStay
<1>3. /\ reader \in Readers /\ reader' \in Readers
      /\ Len(file) \in Nat /\ Len(file') \in Nat /\ Len(acked) \in Nat /\ Len(acked') \in Nat
      /\ DOMAIN file = 1 .. Len(file) /\ ended \in BOOLEAN
  <2>1. reader \in Readers /\ reader' \in Readers /\ file' \in Seq(Lines) /\ acked' \in Seq(Lines)
    BY DEF TypeOK
  <2> QED BY <2>1, SimpleTypes
<1>4. /\ DOMAIN Settled = 1 .. Len(Settled) /\ Len(Settled) \in Nat /\ Len(Settled) <= Len(file)
      /\ \A n \in DOMAIN Settled : n \in DOMAIN file /\ Settled[n] = file[n]
      /\ Len(Settled') \in Nat
      /\ \A n \in DOMAIN Settled' : Settled'[n] = file'[n]
  <2>1. /\ Len(Settled') \in Nat
        /\ \A n \in DOMAIN Settled' : Settled'[n] = file'[n]
    <3>1. (TypeOK => Len(Settled) \in Nat /\ \A n \in DOMAIN Settled : Settled[n] = file[n])'
      BY SettledInFile, PTL
    <3> QED BY <3>1
  <2> QED BY <2>1, SettledType
<1>5. ASSUME reader' = reader
      PROVE  ReaderFollows'
  <2>1. ASSUME faults' = 0, life' = 1, reader.pc = "verify"
        PROVE  reader.count <= Len(Settled') /\ reader.prev = HashAt(file', reader)
    <3>1. reader.count <= Len(Settled) /\ reader.prev = HashAt(file, reader)
      BY <1>2, <2>1 DEF ReaderFollows
    <3>2. reader.count # 0 => file'[reader.count] = file[reader.count]
      BY <1>2, <1>3, <1>4, <2>1, <3>1
    <3> QED BY <1>2, <1>3, <1>4, <2>1, <3>1, <3>2
  <2>2. /\ reader.pc # "idle" => reader.count <= Len(file') /\ reader.acked <= Len(acked')
        /\ reader.pc = "entries" /\ reader.verdict = "ok" => reader.acked <= reader.count
        /\ reader.pc = "entries" /\ reader.verdict # "ok" => reader.count < Len(file')
    BY <1>2, <1>3 DEF ReaderFollows
  <2>3. faults' = 0 /\ life' = 1 =>
          /\ reader.verdict # "mismatch"
          /\ reader.pc = "entries" => reader.acked <= reader.count
    BY <1>2 DEF ReaderFollows
  <2> QED BY <1>5, <2>1, <2>2, <2>3 DEF ReaderFollows
<1>6. CASE reader' = NoReader
  BY <1>6 DEF NoReader
<1>7. CASE ViewStarts
  <2>1. reader' = [NoReader EXCEPT !.pc = "verify", !.acked = Len(acked)]
    BY <1>7 DEF ViewStarts
  <2>2. /\ reader'.pc = "verify" /\ reader'.count = 0 /\ reader'.acked = Len(acked)
        /\ reader'.verdict = "none" /\ reader'.prev = GenesisHash
    BY <2>1 DEF NoReader
  <2> QED BY <1>2, <1>3, <1>4, <2>2
<1>8. CASE ViewLine
  <2>1. PICK line : line = file[reader.count + 1]
    OBVIOUS
  <2>2. /\ reader.pc = "verify" /\ reader.count < Len(file) /\ reader.count + 1 \in DOMAIN file
        /\ theFile' = theFile /\ process' = process /\ acked' = acked
        /\ reader' = IF LineOK(line, reader.count, reader.prev)
                     THEN [reader EXCEPT !.count = @ + 1, !.prev = line.hash]
                     ELSE [reader EXCEPT !.pc = "entries", !.verdict = VerdictOf(line)]
    BY <1>3, <1>8, <2>1 DEF ViewLine
  <2>3. CASE LineOK(line, reader.count, reader.prev)
    <3>1. /\ reader'.pc = "verify" /\ reader'.count = reader.count + 1 /\ reader'.prev = line.hash
          /\ reader'.verdict = reader.verdict /\ reader'.acked = reader.acked
      BY <1>3, <2>2, <2>3
    <3>2. reader.count + 1 \in DOMAIN Settled
      BY <2>1, <2>2, <2>3, PageReads
    <3>3. file' = file /\ Settled' = Settled
      BY <2>2 DEF theFile, process, Settled
    <3>4. reader.acked <= Len(acked) /\ (faults' = 0 /\ life' = 1 => reader.verdict # "mismatch")
      BY <1>2, <2>2 DEF ReaderFollows
    <3> QED BY <1>2, <1>3, <1>4, <2>1, <2>2, <3>1, <3>2, <3>3, <3>4
  <2>4. CASE ~LineOK(line, reader.count, reader.prev)
    <3>1. /\ reader'.pc = "entries" /\ reader'.count = reader.count
          /\ reader'.verdict = VerdictOf(line) /\ reader'.acked = reader.acked
      BY <1>3, <2>2, <2>4
    <3>2. VerdictOf(line) # "ok" /\ (VerdictOf(line) = "mismatch" => line.readable)
      BY DEF VerdictOf
    <3>3. ASSUME faults' = 0, life' = 1, line.readable
          PROVE  FALSE
      <4>1. /\ Verifies(Settled) /\ reader.count <= Len(Settled)
            /\ reader.prev = HashAt(file, reader)
            /\ writing # Idle => writing.line = writing.entry
        BY <1>2, <2>2, <3>3 DEF Pristine, ReaderFollows
      <4>2. reader.count + 1 \in DOMAIN Settled
        <5>1. CASE writing # Idle
          <6>1. file \in Seq(Lines) /\ file # << >> /\ Last(file) = Junk /\ writing.line.readable
            BY <4>1, <5>1, WritingFile
          <6>2. Len(file) \in Nat \ {0} /\ Junk = file[Len(file)] /\ Len(Front(file)) = Len(file) - 1
            BY <6>1, FrontAndLast
          <6>3. Settled = Front(file)
            BY <5>1, <6>1 DEF Settled
          <6>4. reader.count + 1 # Len(file)
            BY <2>1, <3>3, <6>2, JunkIsLine
          <6> QED BY <1>3, <1>4, <2>2, <6>2, <6>3, <6>4
        <5>2. CASE writing = Idle
          BY <2>2, <5>2, SettledType
        <5> QED BY <5>1, <5>2
      <4>3. PICK k \in DOMAIN Settled : k = reader.count + 1
        BY <4>2
      <4>4. LineOK(Settled[k], k - 1, HashBefore(Settled, k))
        BY <4>1, VerifiedLine
      <4>5. Settled[k] = line /\ k - 1 = reader.count
        <5>1. reader.count \in Nat
          BY <1>3
        <5>2. Settled[k] = file[reader.count + 1]
          BY <1>4, <4>3
        <5>3. file[reader.count + 1] = line
          BY <2>1
        <5> QED BY <4>3, <5>1, <5>2, <5>3
      <4>6. HashBefore(Settled, k) = reader.prev
        <5>1. reader.count # 0 => reader.count \in DOMAIN Settled
          BY <1>3, <1>4, <4>1
        <5> QED BY <1>3, <1>4, <4>1, <4>3, <5>1 DEF HashBefore
      <4> QED BY <2>4, <4>4, <4>5, <4>6
    <3>4. reader.acked <= Len(acked) /\ reader.count < Len(file) /\ theFile' = theFile
      BY <1>2, <2>2 DEF ReaderFollows
    <3>5. ASSUME faults' = 0, life' = 1, ~line.readable
          PROVE  reader.acked <= reader.count
      <4>1. Verifies(Settled) /\ reader.count <= Len(Settled)
        BY <1>2, <2>2, <3>5 DEF Pristine, ReaderFollows
      <4>2. reader.count + 1 \notin DOMAIN Settled
        <5> SUFFICES ASSUME reader.count + 1 \in DOMAIN Settled
                     PROVE  FALSE
          OBVIOUS
        <5>1. PICK k \in DOMAIN Settled : k = reader.count + 1
          OBVIOUS
        <5>2. LineOK(Settled[k], k - 1, HashBefore(Settled, k)) /\ Settled[k] = line
          BY <1>4, <2>1, <4>1, <5>1, VerifiedLine
        <5> QED BY <3>5, <5>2 DEF LineOK
      <4>3. Len(Settled) <= reader.count /\ Len(Settled) < Len(file)
        BY <1>3, <1>4, <3>4, <4>1, <4>2
      <4>4. writing # Idle
        BY <4>3, SettledType
      <4>5. ~ended /\ Len(Settled) >= Len(file) - 1
        <5>1. file \in Seq(Lines) /\ file # << >> /\ ~ended
          BY <4>4 DEF TypeOK
        <5>2. Settled = file \/ Settled = Front(file)
          BY DEF Settled
        <5> QED BY <1>3, <5>1, <5>2, FrontAndLast
      <4>6. Len(acked) <= Len(file) - 1
        BY <1>2, <4>5 DEF AckedFit
      <4> QED BY <1>3, <1>4, <3>4, <4>3, <4>5, <4>6
    <3>6. Len(file') = Len(file)
      BY <3>4 DEF theFile
    <3> QED BY <1>2, <1>3, <2>2, <3>1, <3>2, <3>3, <3>4, <3>5, <3>6
  <2> QED BY <2>3, <2>4
<1>9. CASE ViewVerified
  <2>1. /\ reader.pc = "verify" /\ reader.count >= Len(file)
        /\ reader' = [reader EXCEPT !.pc = "entries", !.verdict = "ok"]
    BY <1>9 DEF ViewVerified
  <2>2. /\ reader'.pc = "entries" /\ reader'.verdict = "ok"
        /\ reader'.count = reader.count /\ reader'.acked = reader.acked
    BY <1>3, <2>1
  <2>3. reader.acked <= Len(acked) /\ Len(acked) <= Len(file) /\ reader.count <= Len(file)
    BY <1>2, <1>3, <2>1 DEF ReaderFollows, AckedFit
  <2> QED BY <1>2, <1>3, <2>1, <2>2, <2>3
<1>10. \/ reader' = reader \/ reader' = NoReader \/ ViewStarts \/ ViewLine \/ ViewVerified
  <2>1. ASSUME NEW p \in Payloads, AppendStarts(p)
        PROVE  reader' = reader
    BY <2>1 DEF AppendStarts, page
  <2>2. Open \/ OpenRefused \/ AppendRefused \/ AppendReturns \/ AppendRaises \/ Tamper \/ UNCHANGED vars
          => reader' = reader
    BY DEF Open, OpenRefused, AppendRefused, AppendReturns, AppendRaises, Tamper, vars, page
  <2>3. Crash \/ ViewShown => reader' = NoReader
    BY DEF Crash, ViewShown
  <2> QED BY <2>1, <2>2, <2>3 DEF Next, Writer, Reader
<1> QED BY <1>1, <1>5, <1>6, <1>7, <1>8, <1>9, <1>10 DEF ReaderFollows

(* A page that is shown says what it has read. *)
LEMMA ViewStep ==
  ASSUME TypeOK, ReaderFollows, ViewIsComplete, FalseBreakIsInProgress, [Next]_vars
  PROVE  ViewIsComplete' /\ FalseBreakIsInProgress'
<1>0. /\ tampers \in Nat /\ Len(file) \in Nat /\ reader.count \in Nat /\ reader.acked \in Nat
      /\ view \in [verdict : Verdicts, verified : Nat, listed : Nat, acked : Nat, quiet : BOOLEAN]
  BY SimpleTypes DEF TypeOK
<1>1. tampers' = tampers \/ tampers' = tampers + 1
  <2>1. Tamper => tampers' = tampers + 1
    BY DEF Tamper
  <2>2. AppendReturns \/ GivesUp \/ Quiet \/ (\E p \in Payloads : AppendStarts(p)) => tampers' = tampers
    BY DEF Quiet, AppendStarts, AppendReturns, GivesUp
  <2> QED BY <2>1, <2>2, StepKinds
<1>2. CASE view' = view
  BY <1>0, <1>1, <1>2 DEF ViewIsComplete, FalseBreakIsInProgress, SaysBroken
<1>3. CASE ViewShown /\ view' = [ verdict |-> reader.verdict, verified |-> reader.count,
                                  listed |-> Len(file), acked |-> reader.acked,
                                  quiet |-> faults = 0 /\ tampers = 0 /\ life = 1 ]
  <2>1. /\ view'.verdict = reader.verdict /\ view'.verified = reader.count /\ view'.listed = Len(file)
        /\ view'.acked = reader.acked /\ view'.quiet = (faults = 0 /\ tampers = 0 /\ life = 1)
    BY <1>3
  <2>2. reader.pc = "entries" /\ tampers' = tampers
    BY <1>3 DEF ViewShown
  <2>3. tampers = 0 =>
          /\ reader.count <= Len(file)
          /\ reader.verdict = "ok" => reader.acked <= reader.count
          /\ reader.verdict # "ok" => reader.count < Len(file)
          /\ faults = 0 /\ life = 1 => reader.verdict # "mismatch" /\ reader.acked <= reader.count
    BY <2>2 DEF ReaderFollows
  <2>4. ViewIsComplete'
    BY <2>1, <2>2, <2>3 DEF ViewIsComplete
  <2>5. FalseBreakIsInProgress'
    <3>1. ASSUME view'.quiet, SaysBroken'
          PROVE  /\ view'.verdict = "unreadable"
                 /\ view'.acked <= view'.verified /\ view'.verified < view'.listed
      <4>1. reader.verdict \in Verdicts
        BY DEF TypeOK
      <4>2. reader.verdict \notin {"none", "ok"} /\ faults = 0 /\ tampers = 0 /\ life = 1
        BY <2>1, <3>1 DEF SaysBroken
      <4> QED BY <2>1, <2>3, <4>1, <4>2 DEF Verdicts
    <3> QED BY <3>1 DEF FalseBreakIsInProgress
  <2> QED BY <2>4, <2>5
<1>4. \/ view' = view
      \/ ViewShown /\ view' = [ verdict |-> reader.verdict, verified |-> reader.count,
                                listed |-> Len(file), acked |-> reader.acked,
                                quiet |-> faults = 0 /\ tampers = 0 /\ life = 1 ]
  <2>1. ASSUME NEW p \in Payloads, AppendStarts(p)
        PROVE  view' = view
    BY <2>1 DEF AppendStarts, page
  <2>2. Open \/ OpenRefused \/ AppendRefused \/ AppendReturns \/ AppendRaises \/ Tamper \/ UNCHANGED vars
          \/ Crash \/ ViewStarts \/ ViewLine \/ ViewVerified
          => view' = view
    BY DEF Open, OpenRefused, AppendRefused, AppendReturns, AppendRaises, Tamper, vars, page,
           Crash, ViewStarts, ViewLine, ViewVerified
  <2>3. ViewShown => \/ view' = view
                     \/ view' = [ verdict |-> reader.verdict, verified |-> reader.count,
                                  listed |-> Len(file), acked |-> reader.acked,
                                  quiet |-> faults = 0 /\ tampers = 0 /\ life = 1 ]
    BY DEF ViewShown
  <2> QED BY <2>1, <2>2, <2>3 DEF Next, Writer, Reader
<1> QED BY <1>2, <1>3, <1>4

-----------------------------------------------------------------------------
(* The inductive invariant. *)

(* It holds at first. *)
LEMMA SafetyInit == Init => SafetyInv
<1> SUFFICES ASSUME Init PROVE SafetyInv
  OBVIOUS
<1>1. TypeOK
  BY TypeInit
<1>2. /\ file = << >> /\ acked = << >> /\ written = {} /\ writing = Idle /\ ended = TRUE /\ up = FALSE
      /\ reader = NoReader /\ view = NoView
  BY DEF Init
<1>3. DOMAIN file = {} /\ DOMAIN acked = {} /\ Len(file) = 0 /\ Len(acked) = 0
  BY <1>2
<1>4. Provenance /\ Clock
  BY <1>2, <1>3 DEF Provenance, Clock
<1>5. AckedInPlace /\ AckedFit
  BY <1>2, <1>3 DEF AckedInPlace, AckedFit
<1>6. MemoryFollows
  BY <1>2 DEF MemoryFollows
<1>7. Pristine
  BY <1>2, <1>3 DEF Pristine, Settled, Verifies
<1>8. ReaderFollows
  BY <1>2 DEF ReaderFollows, NoReader
<1>9. ViewIsComplete /\ FalseBreakIsInProgress
  BY <1>2 DEF ViewIsComplete, FalseBreakIsInProgress, SaysBroken, NoView
<1> QED BY <1>1, <1>4, <1>5, <1>6, <1>7, <1>8, <1>9 DEF SafetyInv

(* Every step keeps it. *)
LEMMA SafetyStep == SafetyInv /\ [Next]_vars => SafetyInv'
<1> SUFFICES ASSUME SafetyInv, [Next]_vars PROVE SafetyInv'
  OBVIOUS
<1>1. /\ TypeOK /\ Provenance /\ Clock /\ AckedInPlace /\ AckedFit /\ MemoryFollows
      /\ Pristine /\ ReaderFollows /\ ViewIsComplete /\ FalseBreakIsInProgress
  BY DEF SafetyInv
<1>2. TypeOK'
  BY <1>1, TypeStep
<1>3. Provenance' /\ Clock'
  BY <1>1, ProvenanceStep, ClockStep
<1>4. AckedInPlace' /\ AckedFit'
  BY <1>1, <1>2, InPlaceStep, FitStep
<1>5. MemoryFollows' /\ Pristine'
  BY <1>1, <1>2, MemoryStep, PristineStep
<1>6. ReaderFollows'
  BY <1>1, <1>2, <1>5, ReaderStep
<1>7. ViewIsComplete' /\ FalseBreakIsInProgress'
  BY <1>1, ViewStep
<1> QED BY <1>2, <1>3, <1>4, <1>5, <1>6, <1>7 DEF SafetyInv

(* It holds in every state. *)
LEMMA Safe == Spec => []SafetyInv
BY SafetyInit, SafetyStep, PTL DEF Spec

-----------------------------------------------------------------------------
(* A line that verifies is as append wrote it: the hash it has spells the payload it has. *)
LEMMA VerifiedIsWritten ==
  ASSUME TypeOK, Provenance, Verifies(file), NEW n \in DOMAIN file
  PROVE  file[n] \in written
<1>1. LineOK(file[n], n - 1, HashBefore(file, n)) /\ file[n] \in Lines
  BY VerifiedLine, SimpleTypes
<1>2. PICK e \in written : file[n] = [e EXCEPT !.payload = file[n].payload]
  BY <1>1 DEF Provenance, LineOK
<1>3. e \in Lines /\ e.readable /\ e.hash = EntryHash(e.seq, e.ts, e.payload, e.prev)
  BY <1>2 DEF TypeOK, Provenance
<1>4. PICK p \in Payloads : file[n].payload = p
  BY <1>1 DEF LineOK, Lines
<1>5. file[n] = [e EXCEPT !.payload = p]
  BY <1>2, <1>4
<1>6. /\ file[n].seq = e.seq /\ file[n].ts = e.ts /\ file[n].prev = e.prev /\ file[n].hash = e.hash
  BY <1>3, <1>5 DEF Lines
<1>7. EntryHash(e.seq, e.ts, e.payload, e.prev) = EntryHash(e.seq, e.ts, p, e.prev)
  BY <1>1, <1>3, <1>4, <1>6 DEF LineOK
<1>8. /\ e.seq \in Nat /\ e.ts \in Nat /\ e.payload \in Payloads /\ e.prev \in Seq(Nat \X Nat \X Payloads)
  BY <1>3 DEF Lines, Hashes
<1>9. << e.seq, e.ts, e.payload >> = << e.seq, e.ts, p >>
  <2>1. Append(e.prev, << e.seq, e.ts, e.payload >>) = Append(e.prev, << e.seq, e.ts, p >>)
    BY <1>7 DEF EntryHash
  <2>2. /\ << e.seq, e.ts, e.payload >> \in Nat \X Nat \X Payloads
        /\ << e.seq, e.ts, p >> \in Nat \X Nat \X Payloads
    BY <1>8
  <2> QED BY <1>8, <2>1, <2>2, AppendProperties
<1>10. e.payload = p
  BY <1>9
<1>11. [e EXCEPT !.payload = p] = e
  BY <1>3, <1>10 DEF Lines
<1> QED BY <1>5, <1>11

(* The hash of a line spells the lines up to it. *)
LEMMA HashSpellsLog ==
  ASSUME TypeOK, Verifies(file), NEW n \in DOMAIN file
  PROVE  file[n].hash = [ m \in 1 .. n |-> << file[m].seq, file[m].ts, file[m].payload >> ]
<1> DEFINE Said(m) == << file[m].seq, file[m].ts, file[m].payload >>
           Spells(k) == /\ Len(file[k].hash) = k
                        /\ \A m \in 1 .. k : file[k].hash[m] = Said(m)
           Good == { k \in Nat : k + 1 \in DOMAIN file => Spells(k + 1) }
<1>0. /\ file \in Seq(Lines) /\ DOMAIN file = 1 .. Len(file) /\ Len(file) \in Nat
  BY SimpleTypes
<1>1. ASSUME NEW k \in DOMAIN file
      PROVE  /\ file[k].hash = Append(HashBefore(file, k), Said(k))
             /\ file[k].hash \in Seq(Nat \X Nat \X Payloads)
             /\ Said(k) \in Nat \X Nat \X Payloads
  <2>1. LineOK(file[k], k - 1, HashBefore(file, k)) /\ file[k] \in Lines
    BY <1>0, VerifiedLine
  <2>2. /\ file[k].seq \in Nat /\ file[k].ts \in Nat /\ file[k].hash \in Hashes /\ file[k].payload \in Payloads
    BY <2>1, LineFields DEF LineOK
  <2> QED BY <2>1, <2>2 DEF LineOK, EntryHash, Hashes
<1>2. 0 \in Good
  <2>1. ASSUME 1 \in DOMAIN file
        PROVE  Spells(1)
    <3>1. file[1].hash = Append(<< >>, Said(1)) /\ Said(1) \in Nat \X Nat \X Payloads
      BY <1>1, <2>1 DEF HashBefore, GenesisHash
    <3>2. file[1].hash = << Said(1) >>
      BY <3>1
    <3> HIDE DEF Said
    <3> QED BY <3>2
  <2> QED BY <2>1
<1>3. ASSUME NEW k \in Good
      PROVE  k + 1 \in Good
  <2>1. k \in Nat
    OBVIOUS
  <2>2. SUFFICES ASSUME k + 1 + 1 \in DOMAIN file
                 PROVE  Spells(k + 1 + 1)
    BY <2>1
  <2>3. PICK h : h = file[k + 1].hash
    OBVIOUS
  <2>4. PICK j \in DOMAIN file : j = k + 1 + 1
    BY <2>2
  <2>5. k + 1 \in DOMAIN file /\ k + 1 = j - 1 /\ j # 1
    BY <1>0, <2>1, <2>2, <2>4
  <2>6. Spells(k + 1)
    BY <2>5
  <2>7. h \in Seq(Nat \X Nat \X Payloads) /\ Len(h) = j - 1 /\ \A m \in 1 .. j - 1 : h[m] = Said(m)
    BY <1>1, <2>3, <2>5, <2>6
  <2>8. file[j].hash = Append(h, Said(j)) /\ Said(j) \in Nat \X Nat \X Payloads
    <3>1. HashBefore(file, j) = h
      BY <2>3, <2>5 DEF HashBefore
    <3> QED BY <1>1, <3>1
  <2> HIDE DEF Said
  <2>9. Spells(j)
    BY <1>0, <2>7, <2>8
  <2> QED BY <2>4, <2>9
<1>4. Good = Nat
  BY <1>2, <1>3, AllNumbers
<1>5. n - 1 \in Good /\ n - 1 + 1 = n
  BY <1>0, <1>4
<1>6. Spells(n)
  BY <1>5
<1>7. file[n].hash \in Seq(Nat \X Nat \X Payloads)
  BY <1>1
<1> HIDE DEF Said
<1>8. file[n].hash = [ m \in 1 .. n |-> file[n].hash[m] ]
  BY <1>6, <1>7, SpelledOut
<1>9. [ m \in 1 .. n |-> file[n].hash[m] ] = [ m \in 1 .. n |-> Said(m) ]
  BY <1>6
<1> QED BY <1>8, <1>9 DEF Said

-----------------------------------------------------------------------------
(***************************************************************************)
(* Whatever others do to the file, a log that verifies consists of entries *)
(* that append wrote, each in its place in the chain (verify, append).     *)
(***************************************************************************)
THEOREM Genuine == Spec => []VerifiedMeansGenuine
<1>1. SafetyInv => VerifiedMeansGenuine
  BY VerifiedIsWritten, HashSpellsLog DEF SafetyInv, VerifiedMeansGenuine
<1> QED BY <1>1, Safe, PTL

(***************************************************************************)
(* Unless others edit it, a log that verifies holds what was acknowledged, *)
(* in that order, over crashes, restarts and appends that raise.           *)
(***************************************************************************)
THEOREM Complete == Spec => []VerifiedMeansComplete
<1>1. ASSUME SafetyInv, tampers = 0, Verifies(file)
      PROVE  \E at \in [DOMAIN acked -> DOMAIN file] :
               \A m, n \in DOMAIN acked : file[at[n]] = acked[n] /\ (m < n => at[m] < at[n])
  <2>1. TypeOK /\ AckedInPlace
    BY <1>1 DEF SafetyInv
  <2>2. writing = Idle
    BY <1>1, <2>1, WritingFile, JunkIsLine, JunkBreaks
  <2>3. Settled = file
    BY <2>2 DEF Settled
  <2>4. \A m \in DOMAIN acked :
          /\ acked[m].seq + 1 \in DOMAIN file
          /\ file[acked[m].seq + 1] = acked[m]
          /\ \A l \in 1 .. m - 1 : acked[l].seq < acked[m].seq
    BY <1>1, <2>1, <2>3 DEF AckedInPlace
  <2>5. PICK at : at = [m \in DOMAIN acked |-> acked[m].seq + 1]
    OBVIOUS
  <2>6. at \in [DOMAIN acked -> DOMAIN file]
    BY <2>4, <2>5
  <2>7. ASSUME NEW m \in DOMAIN acked, NEW n \in DOMAIN acked
        PROVE  file[at[n]] = acked[n] /\ (m < n => at[m] < at[n])
    <3>1. file[at[n]] = acked[n]
      BY <2>4, <2>5
    <3>2. ASSUME m < n
          PROVE  at[m] < at[n]
      <4>1. m \in 1 .. n - 1 /\ acked[m] \in Lines /\ acked[n] \in Lines
        BY <2>1, <3>2, SimpleTypes
      <4>2. acked[m].seq < acked[n].seq /\ acked[m].seq \in Nat /\ acked[n].seq \in Nat
        BY <2>4, <4>1, LineFields
      <4>3. at[m] = acked[m].seq + 1 /\ at[n] = acked[n].seq + 1
        BY <2>5
      <4> QED BY <4>2, <4>3
    <3> QED BY <3>1, <3>2
  <2> QED BY <2>6, <2>7
<1>2. SafetyInv => VerifiedMeansComplete
  BY <1>1 DEF VerifiedMeansComplete
<1> QED BY <1>2, Safe, PTL

(***************************************************************************)
(* As long as no append has raised, what the process remembers of the log  *)
(* is what the log ends in, over restarts: the next entry follows.         *)
(***************************************************************************)
THEOREM MemoryMatches == Spec => []MemoryMatchesFile
<1>1. ASSUME SafetyInv, up, writing = Idle, faults = 0, tampers = 0, Verifies(file)
      PROVE  next_seq = Len(file) /\ prev_hash = LastHash(file)
  <2>1. Settled = file
    BY <1>1 DEF Settled
  <2> QED BY <1>1, <2>1 DEF SafetyInv, MemoryFollows
<1>2. SafetyInv => MemoryMatchesFile
  BY <1>1 DEF MemoryMatchesFile
<1> QED BY <1>2, Safe, PTL

(***************************************************************************)
(* An audit page that says the log verifies has read all that was          *)
(* acknowledged when it was asked for, though the log grew as it read.     *)
(***************************************************************************)
THEOREM ViewComplete == Spec => []ViewIsComplete
<1>1. SafetyInv => ViewIsComplete
  BY DEF SafetyInv
<1> QED BY <1>1, Safe, PTL

(***************************************************************************)
(* As long as nothing has gone wrong, the page says CHAIN BROKEN only      *)
(* where it met a line in the middle of its write: it has read all that    *)
(* was acknowledged when it was asked for, and it lists that line.         *)
(***************************************************************************)
THEOREM FalseAlarmExplained == Spec => []FalseBreakIsInProgress
<1>1. SafetyInv => FalseBreakIsInProgress
  BY DEF SafetyInv
<1> QED BY <1>1, Safe, PTL

-----------------------------------------------------------------------------
(* The part of the log that verifies. *)

(* Verification gets past the first k lines of s. *)
Past(s, k) ==
  /\ \A n \in 1 .. k : LineOK(s[n], n - 1, HashBefore(s, n))
  /\ k < Len(s) => ~LineOK(s[k + 1], k, HashBefore(s, k + 1))

(* It stops somewhere: at the first line that does not follow, or at the end. *)
LEMMA SoundPartIs ==
  ASSUME NEW s \in Seq(Lines)
  PROVE  SoundPart(s) \in 0 .. Len(s) /\ Past(s, SoundPart(s))
<1> DEFINE Follows(n) == LineOK(s[n], n - 1, HashBefore(s, n))
           Stops == { k \in 0 .. Len(s) : k < Len(s) => ~LineOK(s[k + 1], k, HashBefore(s, k + 1)) }
<1>0. Len(s) \in Nat
  OBVIOUS
<1>1. Stops \in SUBSET Nat /\ Len(s) \in Stops
  BY <1>0
<1>2. PICK k \in Stops : \A j \in Stops : k <= j
  BY <1>1, LeastNumber
<1>3. ASSUME NEW n \in 1 .. k
      PROVE  Follows(n)
  <2>1. n - 1 \in 0 .. Len(s) /\ n - 1 \notin Stops /\ n - 1 + 1 = n
    BY <1>0, <1>2
  <2>2. LineOK(s[n - 1 + 1], n - 1, HashBefore(s, n - 1 + 1))
    BY <2>1
  <2> QED BY <2>1, <2>2
<1>4. k \in 0 .. Len(s) /\ Past(s, k)
  BY <1>2, <1>3 DEF Past
<1> QED BY <1>4 DEF SoundPart, Past

(* It stops at one place only. *)
LEMMA SoundPartUnique ==
  ASSUME NEW s \in Seq(Lines), NEW k \in 0 .. Len(s), Past(s, k)
  PROVE  SoundPart(s) = k
<1>0. Len(s) \in Nat
  OBVIOUS
<1>1. ASSUME NEW i \in 0 .. Len(s), NEW j \in 0 .. Len(s), Past(s, i), Past(s, j), i < j
      PROVE  FALSE
  <2>1. PICK n \in 1 .. j : n = i + 1
    BY <1>0, <1>1
  <2>2. LineOK(s[n], n - 1, HashBefore(s, n))
    BY <1>1 DEF Past
  <2>3. i < Len(s) /\ n - 1 = i
    BY <1>0, <1>1, <2>1
  <2>4. ~LineOK(s[n], i, HashBefore(s, n))
    BY <1>1, <2>1, <2>3 DEF Past
  <2> QED BY <2>2, <2>3, <2>4
<1>2. SoundPart(s) \in 0 .. Len(s) /\ Past(s, SoundPart(s))
  BY SoundPartIs
<1> QED BY <1>0, <1>1, <1>2

(* All of a log that verifies, and of another no more than of its front. *)
LEMMA SoundPartOfFront ==
  ASSUME NEW s \in Seq(Lines), s # << >>
  PROVE  /\ Verifies(s) => SoundPart(s) = Len(s)
         /\ ~Verifies(s) => SoundPart(s) = SoundPart(Front(s))
<1> DEFINE f == Front(s)
           k == SoundPart(f)
<1>1. /\ Len(s) \in Nat \ {0} /\ f \in Seq(Lines) /\ Len(f) = Len(s) - 1
      /\ \A n \in 1 .. Len(s) - 1 : f[n] = s[n]
      /\ Last(s) = s[Len(s)] /\ DOMAIN s = 1 .. Len(s) /\ DOMAIN f = 1 .. Len(s) - 1
  BY FrontAndLast
<1>2. \A n \in 1 .. Len(s) - 1 : HashBefore(f, n) = HashBefore(s, n)
  BY <1>1 DEF HashBefore
<1>3. HashBefore(s, Len(s)) = LastHash(f)
  BY <1>1 DEF HashBefore, LastHash, Last
<1>4. k \in 0 .. Len(s) - 1 /\ Past(f, k)
  BY <1>1, SoundPartIs
<1> HIDE DEF f, k
<1>5. ASSUME Verifies(s)
      PROVE  SoundPart(s) = Len(s)
  <2>1. Past(s, Len(s))
    BY <1>1, <1>5 DEF Past, Verifies
  <2> QED BY <1>1, <2>1, SoundPartUnique
<1>6. ASSUME ~Verifies(s)
      PROVE  SoundPart(s) = k
  <2>1. \A n \in 1 .. k : LineOK(s[n], n - 1, HashBefore(s, n))
    BY <1>1, <1>2, <1>4 DEF Past
  <2>2. CASE k < Len(s) - 1
    <3>1. PICK n \in 1 .. Len(s) - 1 : n = k + 1
      BY <1>1, <1>4, <2>2
    <3>2. ~LineOK(f[n], k, HashBefore(f, n))
      BY <1>1, <1>4, <2>2, <3>1 DEF Past
    <3>3. ~LineOK(s[n], k, HashBefore(s, n))
      BY <1>1, <1>2, <3>2
    <3>4. Past(s, k)
      BY <2>1, <3>1, <3>3 DEF Past
    <3> QED BY <1>1, <1>4, <3>4, SoundPartUnique
  <2>3. CASE k = Len(s) - 1
    <3>1. Verifies(f)
      BY <1>1, <1>4, <2>3 DEF Past, Verifies
    <3>2. ~LineOK(s[Len(s)], Len(s) - 1, HashBefore(s, Len(s)))
      BY <1>1, <1>3, <1>6, <3>1, VerifiesLast DEF f
    <3>3. Past(s, k)
      BY <1>1, <2>1, <2>3, <3>2 DEF Past
    <3> QED BY <1>1, <1>4, <3>3, SoundPartUnique
  <2> QED BY <1>1, <1>4, <2>2, <2>3
<1> QED BY <1>5, <1>6 DEF f, k

(* A log that verifies is sound to its end. *)
LEMMA SoundWhole ==
  ASSUME NEW s \in Seq(Lines), Verifies(s)
  PROVE  SoundPart(s) = Len(s)
<1>1. Len(s) \in Nat /\ DOMAIN s = 1 .. Len(s)
  OBVIOUS
<1>2. Past(s, Len(s))
  BY <1>1 DEF Past, Verifies
<1> QED BY <1>1, <1>2, SoundPartUnique

(* The trail is a list of payloads, made of lines that can be read. *)
LEMMA TrailType ==
  ASSUME TypeOK
  PROVE  /\ SoundPart(Settled) \in Nat /\ SoundPart(Settled) <= Len(Settled)
         /\ \A n \in 1 .. SoundPart(Settled) : n \in DOMAIN Settled /\ Settled[n].readable
         /\ TheTrail \in Seq(Payloads) /\ Len(TheTrail) = SoundPart(Settled)
         /\ \A n \in 1 .. SoundPart(Settled) : TheTrail[n] = Settled[n].payload
         /\ Confirmed \subseteq DOMAIN TheTrail
<1> DEFINE k == SoundPart(Settled)
<1>1. /\ Settled \in Seq(Lines) /\ DOMAIN Settled = 1 .. Len(Settled) /\ Len(Settled) \in Nat
  BY SettledType
<1>2. k \in 0 .. Len(Settled) /\ \A n \in 1 .. k : LineOK(Settled[n], n - 1, HashBefore(Settled, n))
  BY <1>1, SoundPartIs DEF Past
<1>3. ASSUME NEW n \in 1 .. k
      PROVE  n \in DOMAIN Settled /\ Settled[n].readable /\ Settled[n].payload \in Payloads
  <2>1. n \in DOMAIN Settled /\ Settled[n].readable
    BY <1>1, <1>2 DEF LineOK
  <2>2. Settled[n] \in Lines
    BY <1>1, <2>1
  <2> QED BY <2>1, <2>2 DEF Lines
<1> HIDE DEF k
<1>4. TheTrail = [ n \in 1 .. k |-> Settled[n].payload ]
  BY DEF TheTrail, k
<1>5. TheTrail \in Seq(Payloads) /\ Len(TheTrail) = k /\ DOMAIN TheTrail = 1 .. k
  BY <1>1, <1>2, <1>3, <1>4
<1>6. Confirmed \subseteq 1 .. k
  BY DEF Confirmed, k
<1> QED BY <1>1, <1>2, <1>3, <1>4, <1>5, <1>6 DEF k

-----------------------------------------------------------------------------
(* Every step is a step of Trail, or leaves its variables as they are. *)

(* What is acknowledged changes nothing about the lines that were settled before. *)
LEMMA OldConfirmed ==
  ASSUME TypeOK, Clock, acked' = acked \/ AppendReturns, NEW n \in 1 .. SoundPart(Settled)
  PROVE  (\E m \in DOMAIN acked' : acked'[m].ts = Settled[n].ts)
           <=> (\E m \in DOMAIN acked : acked[m].ts = Settled[n].ts)
<1>1. CASE acked' = acked
  BY <1>1
<1>2. CASE AppendReturns
  <2>1. n \in DOMAIN file /\ Settled[n] = file[n] /\ file[n].readable
    BY TrailType, SettledType
  <2>2. writing.entry.ts # Settled[n].ts
    BY <1>2, <2>1 DEF AppendReturns, Clock
  <2>3. acked' = Append(acked, writing.entry) /\ acked \in Seq(Lines) /\ writing.entry \in Lines
    BY <1>2, WritingFile DEF AppendReturns, TypeOK
  <2>4. /\ Len(acked) \in Nat /\ DOMAIN acked = 1 .. Len(acked) /\ DOMAIN acked' = 1 .. Len(acked) + 1
        /\ \A m \in 1 .. Len(acked) : acked'[m] = acked[m]
        /\ acked'[Len(acked) + 1] = writing.entry
    BY <2>3
  <2> QED BY <2>2, <2>4
<1> QED BY <1>1, <1>2

(* The trail is what it was when verification stops where it did, after the same lines. *)
LEMMA SameTrail ==
  ASSUME TypeOK, Clock, acked' = acked \/ AppendReturns,
         SoundPart(Settled') = SoundPart(Settled),
         \A n \in 1 .. SoundPart(Settled) : Settled'[n] = Settled[n]
  PROVE  TheTrail' = TheTrail /\ Confirmed' = Confirmed
<1>1. TheTrail' = [ n \in 1 .. SoundPart(Settled') |-> Settled'[n].payload ]
  BY DEF TheTrail
<1>2. TheTrail' = TheTrail
  BY <1>1 DEF TheTrail
<1>3. Confirmed' = { n \in 1 .. SoundPart(Settled') : \E m \in DOMAIN acked' : acked'[m].ts = Settled'[n].ts }
  BY DEF Confirmed
<1>4. Confirmed' = { n \in 1 .. SoundPart(Settled) : \E m \in DOMAIN acked' : acked'[m].ts = Settled[n].ts }
  BY <1>3
<1>5. Confirmed' = Confirmed
  BY <1>4, OldConfirmed DEF Confirmed
<1> QED BY <1>2, <1>5

(* The log is spoilt, if it was not before. *)
LEMMA SpoiltStep ==
  ASSUME TheTrail' = TheTrail, Confirmed' = Confirmed, tampers' = tampers, ~Verifies(Settled')
  PROVE  [T!Next]_(T!vars)
<1>1. CASE Verifies(Settled)
  BY <1>1 DEF T!Next, T!Spoil
<1>2. CASE ~Verifies(Settled)
  <2>1. Verifies(Settled') = Verifies(Settled)
    BY <1>2 DEF Verifies
  <2> QED BY <2>1 DEF T!vars
<1> QED BY <1>1, <1>2

(* An append that spoils the line left behind by one that did not return. *)
LEMMA OverwriteStep ==
  ASSUME TypeOK, TypeOK', Clock, NEW p \in Payloads, AppendStarts(p), ~ended, ~Verifies(Settled')
  PROVE  [T!Next]_(T!vars)
<1>1. writing = Idle /\ acked' = acked /\ tampers' = tampers
  BY DEF AppendStarts
<1>2. /\ Settled = file /\ file \in Seq(Lines) /\ file # << >>
      /\ file' \in Seq(Lines) /\ file' # << >> /\ Last(file') = Junk
      /\ Front(file') = Front(file) /\ Len(file') = Len(file)
  BY <1>1, StartsFile, SettledType, SimpleTypes
<1>3. Settled' = file'
  <2>1. PICK e : e = Entry(next_seq, Cardinality(written), p, prev_hash)
    OBVIOUS
  <2>2. ~writing'.line.readable
    BY <2>1, JunkIsLine DEF AppendStarts
  <2> QED BY <2>2 DEF Settled
<1>4. /\ Len(file) \in Nat \ {0} /\ Len(Front(file)) = Len(file) - 1 /\ Front(file) \in Seq(Lines)
      /\ \A n \in 1 .. Len(file) - 1 : Front(file)[n] = file[n]
      /\ \A n \in 1 .. Len(file) - 1 : Front(file')[n] = file'[n]
      /\ Last(file) = file[Len(file)]
  BY <1>2, FrontAndLast
<1>5. \A n \in 1 .. Len(file) - 1 : Settled'[n] = Settled[n]
  BY <1>2, <1>3, <1>4
<1>6. SoundPart(Settled') = SoundPart(Front(file))
  BY <1>2, <1>3, SoundPartOfFront
<1>7. CASE ~Verifies(file)
  <2>1. SoundPart(Settled) = SoundPart(Front(file)) /\ SoundPart(Front(file)) \in 0 .. Len(file) - 1
    BY <1>2, <1>4, <1>7, SoundPartOfFront, SoundPartIs
  <2>2. \A n \in 1 .. SoundPart(Settled) : Settled'[n] = Settled[n]
    BY <1>4, <1>5, <2>1
  <2>3. TheTrail' = TheTrail /\ Confirmed' = Confirmed
    BY <1>1, <1>6, <2>1, <2>2, SameTrail
  <2> QED BY <1>1, <2>3, SpoiltStep
<1>8. CASE Verifies(file)
  <2>1. SoundPart(Settled) = Len(file) /\ SoundPart(Settled') = Len(file) - 1
    BY <1>2, <1>4, <1>6, <1>8, SoundPartOfFront, SoundWhole, VerifiesLast
  <2>2. Last(file).readable
    BY <1>2, <1>8, JunkBreaks
  <2>3. \A m \in DOMAIN acked : acked[m].ts # file[Len(file)].ts
    BY <1>2, <1>4, <2>2 DEF Clock
  <2>4. TheTrail \in Seq(Payloads) /\ Len(TheTrail) = Len(file) /\ TheTrail # << >>
    BY <1>4, <2>1, TrailType
  <2>5. TheTrail' = SubSeq(TheTrail, 1, Len(TheTrail) - 1)
    <3>1. TheTrail' = [ n \in 1 .. Len(file) - 1 |-> Settled'[n].payload ]
      BY <2>1 DEF TheTrail
    <3>2. TheTrail' = [ n \in 1 .. Len(file) - 1 |-> Settled[n].payload ]
      BY <1>5, <3>1
    <3>3. \A n \in 1 .. Len(file) - 1 : n \in 1 .. Len(file) /\ TheTrail[n] = Settled[n].payload
      BY <1>4, <2>1, TrailType
    <3>4. SubSeq(TheTrail, 1, Len(TheTrail) - 1) = [ n \in 1 .. Len(file) - 1 |-> TheTrail[n] ]
      BY <1>4, <2>4
    <3> QED BY <3>2, <3>3, <3>4
  <2>6. Len(TheTrail) \notin Confirmed
    BY <1>2, <2>3, <2>4 DEF Confirmed
  <2>7. Confirmed' = Confirmed
    <3>1. Confirmed' = { n \in 1 .. Len(file) - 1 : \E m \in DOMAIN acked : acked[m].ts = Settled[n].ts }
      BY <1>1, <1>5, <2>1 DEF Confirmed
    <3>2. Confirmed = { n \in 1 .. Len(file) : \E m \in DOMAIN acked : acked[m].ts = Settled[n].ts }
      BY <2>1 DEF Confirmed
    <3> QED BY <1>4, <2>4, <2>6, <3>1, <3>2
  <2>8. T!Spoil
    BY <1>1, <1>2, <1>8, <2>4, <2>5, <2>6, <2>7 DEF T!Spoil
  <2> QED BY <2>8 DEF T!Next
<1> QED BY <1>7, <1>8

(* A write that ends, and leaves a line that does not follow. *)
LEMMA BadLineStep ==
  ASSUME TypeOK, TypeOK', Clock, AppendReturns \/ GivesUp,
         ~Verifies(Settled'), Settled' = file', Settled' # << >>
  PROVE  [T!Next]_(T!vars)
<1>1. /\ writing # Idle /\ tampers' = tampers /\ (acked' = acked \/ AppendReturns)
      /\ file' \in Seq(Lines) /\ Front(file') = Front(file)
  <2>1. CASE AppendReturns
    BY <2>1, WholeFile DEF AppendReturns
  <2>2. CASE GivesUp
    BY <2>2, AbandonedFile DEF GivesUp
  <2> QED BY <2>1, <2>2
<1>2. file \in Seq(Lines) /\ file # << >> /\ Last(file) = Junk
  BY <1>1, WritingFile
<1>3. /\ Len(file) \in Nat \ {0} /\ Front(file) \in Seq(Lines) /\ Len(Front(file)) = Len(file) - 1
      /\ \A n \in 1 .. Len(file) - 1 : Front(file)[n] = file[n]
      /\ Len(file') \in Nat \ {0} /\ Len(Front(file')) = Len(file') - 1
      /\ \A n \in 1 .. Len(file') - 1 : Front(file')[n] = file'[n]
  BY <1>1, <1>2, FrontAndLast
<1>4. SoundPart(Settled') = SoundPart(Front(file)) /\ SoundPart(Front(file)) \in 0 .. Len(file) - 1
  BY <1>1, <1>3, SoundPartOfFront, SoundPartIs
<1>5. /\ SoundPart(Settled) = SoundPart(Front(file))
      /\ \A n \in 1 .. Len(file) - 1 : Settled[n] = file[n]
  <2>1. CASE writing.line.readable
    <3>1. Settled = Front(file)
      BY <1>1, <2>1 DEF Settled
    <3> QED BY <1>3, <3>1
  <2>2. CASE ~writing.line.readable
    <3>1. Settled = file /\ ~Verifies(file)
      BY <1>2, <2>2, JunkIsLine, JunkBreaks DEF Settled
    <3> QED BY <1>2, <3>1, SoundPartOfFront
  <2> QED BY <2>1, <2>2
<1>6. \A n \in 1 .. SoundPart(Settled) : Settled'[n] = Settled[n]
  BY <1>1, <1>3, <1>4, <1>5
<1>7. TheTrail' = TheTrail /\ Confirmed' = Confirmed
  BY <1>1, <1>4, <1>5, <1>6, SameTrail
<1> QED BY <1>1, <1>7, SpoiltStep

(* A write that ends, and leaves all of its line: the trail has one more entry, if the line follows. *)
LEMMA GrowsStep ==
  ASSUME TypeOK, TypeOK', Clock, Grows
  PROVE  [T!Next]_(T!vars)
<1>1. /\ Settled' \in Seq(Lines) /\ Settled' # << >> /\ Front(Settled') = Settled
      /\ Settled \in Seq(Lines) /\ Len(Settled) \in Nat
      /\ writing # Idle /\ writing.entry \in Lines /\ writing.entry.readable
      /\ tampers' = tampers /\ (acked' = acked \/ AppendReturns)
  BY SettledType, WritingFile DEF Grows, AppendReturns, GivesUp
<1>2. /\ Verifies(Settled') => Verifies(Settled)
      /\ Len(Settled') = Len(Settled) + 1
      /\ Settled'[Len(Settled) + 1] = writing.entry
      /\ \A n \in DOMAIN Settled : n \in DOMAIN Settled' /\ Settled'[n] = Settled[n]
  BY GrownVerifies
<1>3. \A n \in 1 .. SoundPart(Settled) : Settled'[n] = Settled[n]
  BY <1>2, TrailType
<1>4. CASE ~Verifies(Settled')
  <2>1. SoundPart(Settled') = SoundPart(Settled)
    BY <1>1, <1>4, SoundPartOfFront
  <2>2. TheTrail' = TheTrail /\ Confirmed' = Confirmed
    BY <1>1, <1>3, <2>1, SameTrail
  <2> QED BY <1>1, <1>4, <2>2, SpoiltStep
<1>5. CASE Verifies(Settled')
  <2> DEFINE k == Len(Settled)
  <2>1. Verifies(Settled) /\ SoundPart(Settled) = k /\ SoundPart(Settled') = k + 1
    BY <1>1, <1>2, <1>5, SoundWhole
  <2>2. TheTrail \in Seq(Payloads) /\ Len(TheTrail) = k /\ \A n \in 1 .. k : TheTrail[n] = Settled[n].payload
    BY <2>1, TrailType
  <2>3. writing.entry.payload \in Payloads
    BY <1>1, LineFields
  <2>4. TheTrail' = Append(TheTrail, writing.entry.payload)
    <3>1. TheTrail' = [ n \in 1 .. k + 1 |-> Settled'[n].payload ]
      BY <2>1 DEF TheTrail
    <3>2. \A n \in 1 .. k + 1 : Settled'[n].payload = IF n = k + 1 THEN writing.entry.payload ELSE TheTrail[n]
      BY <1>1, <1>2, <1>3, <2>1, <2>2
    <3>3. TheTrail' = [ n \in 1 .. k + 1 |-> IF n = k + 1 THEN writing.entry.payload ELSE TheTrail[n] ]
      BY <3>1, <3>2
    <3>4. Append(TheTrail, writing.entry.payload)
            = [ n \in 1 .. k + 1 |-> IF n = k + 1 THEN writing.entry.payload ELSE TheTrail[n] ]
      BY <1>1, <2>2, <2>3
    <3> QED BY <3>3, <3>4
  <2>5. Len(TheTrail') = k + 1
    BY <1>1, <2>2, <2>3, <2>4
  <2>6. Confirmed' = { n \in 1 .. k + 1 : \E m \in DOMAIN acked' : acked'[m].ts = Settled'[n].ts }
    BY <2>1 DEF Confirmed
  <2>7. Confirmed = { n \in 1 .. k : \E m \in DOMAIN acked : acked[m].ts = Settled[n].ts }
    BY <2>1 DEF Confirmed
  <2>8. \A n \in 1 .. k : n \in Confirmed' <=> n \in Confirmed
    <3>1. ASSUME NEW n \in 1 .. k
          PROVE  (\E m \in DOMAIN acked' : acked'[m].ts = Settled'[n].ts)
                   <=> (\E m \in DOMAIN acked : acked[m].ts = Settled[n].ts)
      BY <1>1, <1>3, <2>1, OldConfirmed
    <3>2. \A n \in 1 .. k : n \in 1 .. k + 1
      BY <1>1
    <3> QED BY <2>6, <2>7, <3>1, <3>2
  <2>9. Confirmed' \in {Confirmed, Confirmed \cup {k + 1}}
    <3>1. Confirmed \subseteq 1 .. k /\ Confirmed' \subseteq 1 .. k + 1
      BY <2>6, <2>7
    <3>2. \A n \in 1 .. k + 1 : n \in 1 .. k \/ n = k + 1
      BY <1>1
    <3>3. ~(k + 1 \in 1 .. k)
      BY <1>1
    <3> HIDE DEF k
    <3>4. CASE k + 1 \in Confirmed'
      BY <2>8, <3>1, <3>2, <3>4
    <3>5. CASE k + 1 \notin Confirmed'
      BY <2>8, <3>1, <3>2, <3>3, <3>5
    <3> QED BY <3>4, <3>5
  <2>10. Verifies(Settled') = Verifies(Settled)
    BY <1>5, <2>1 DEF Verifies
  <2>11. T!Write
    BY <1>1, <2>1, <2>3, <2>4, <2>5, <2>9, <2>10 DEF T!Write
  <2> QED BY <2>11 DEF T!Next
<1> QED BY <1>4, <1>5

(* The trail is a trail, as a fact that can be stated of the state after a step. *)
LEMMA TrailIsTyped == TypeOK => TheTrail \in Seq(Payloads) /\ Confirmed \subseteq DOMAIN TheTrail
BY TrailType

(* Every step of the log is one of the trail. *)
LEMMA TrailStep ==
  ASSUME TypeOK, TypeOK', Clock, [Next]_vars
  PROVE  [T!Next]_(T!vars)
<1>1. CASE Quiet /\ Settled' = Settled
  BY <1>1 DEF Quiet, TheTrail, Confirmed, T!vars
<1>2. ASSUME NEW p \in Payloads, AppendStarts(p), IF ended THEN Settled' = Settled ELSE ~Verifies(Settled')
      PROVE  [T!Next]_(T!vars)
  <2>1. CASE ended
    BY <1>2, <2>1 DEF AppendStarts, TheTrail, Confirmed, T!vars
  <2>2. CASE ~ended
    BY <1>2, <2>2, OverwriteStep
  <2> QED BY <2>1, <2>2
<1>3. CASE Tamper
  <2>1. (TypeOK => TheTrail \in Seq(Payloads) /\ Confirmed \subseteq DOMAIN TheTrail)'
    BY TrailIsTyped, PTL
  <2>2. Verifies(Settled') \in BOOLEAN
    BY DEF Verifies
  <2>3. tampers' = tampers + 1
    BY <1>3 DEF Tamper
  <2> QED BY <2>1, <2>2, <2>3 DEF T!Next, T!Rewrite
<1> QED BY <1>1, <1>2, <1>3, SettledSteps, BadLineStep, GrowsStep

(* The log begins as the trail does. *)
LEMMA TrailInit == Init => T!Init
<1> SUFFICES ASSUME Init PROVE T!Init
  OBVIOUS
<1>1. TypeOK
  BY TypeInit
<1>2. Settled = << >> /\ acked = << >> /\ tampers = 0
  BY DEF Init, Settled
<1>3. Verifies(Settled) = TRUE
  BY <1>2 DEF Verifies
<1>4. Len(TheTrail) = 0 /\ TheTrail \in Seq(Payloads)
  BY <1>1, <1>2, TrailType, SettledType
<1>5. TheTrail = << >>
  BY <1>4
<1>6. Confirmed = {}
  BY <1>2 DEF Confirmed
<1> QED BY <1>2, <1>3, <1>5, <1>6 DEF T!Init

(***************************************************************************)
(* The log keeps the promise of Trail, whatever appends raise, whenever    *)
(* the process dies and whatever others do to the file (audit.py).         *)
(***************************************************************************)
THEOREM TrailKept == Spec => KeepsTheTrail
<1>1. Init => T!Init
  BY TrailInit
<1>2. SafetyInv /\ SafetyInv' /\ [Next]_vars => [T!Next]_(T!vars)
  BY TrailStep DEF SafetyInv
<1> QED BY <1>1, <1>2, Safe, PTL DEF Spec, KeepsTheTrail, T!Spec

-----------------------------------------------------------------------------
(***************************************************************************)
(* What follows from the promise of Trail, whoever keeps it.               *)
(***************************************************************************)
(* What is confirmed is part of the trail. *)
LEMMA PromiseTyped == T!Spec => []T!TrailOK
<1>1. T!Init => T!TrailOK
  BY DEF T!Init, T!TrailOK
<1>2. T!TrailOK /\ [T!Next]_(T!vars) => T!TrailOK'
  <2> SUFFICES ASSUME T!TrailOK, [T!Next]_(T!vars) PROVE T!TrailOK'
    OBVIOUS
  <2>1. CASE T!Write
    BY <2>1 DEF T!Write, T!TrailOK
  <2>2. CASE T!Spoil
    <3>1. CASE TheTrail' = TheTrail
      BY <2>2, <3>1 DEF T!Spoil, T!TrailOK
    <3>2. CASE /\ TheTrail # << >>
               /\ Len(TheTrail) \notin Confirmed
               /\ TheTrail' = SubSeq(TheTrail, 1, Len(TheTrail) - 1)
      <4>1. TheTrail' \in Seq(Payloads) /\ DOMAIN TheTrail' = 1 .. Len(TheTrail) - 1
        BY <3>2 DEF T!TrailOK
      <4>2. \A n \in Confirmed : n \in 1 .. Len(TheTrail) - 1
        BY <3>2 DEF T!TrailOK
      <4>3. QED
        BY <2>2, <4>1, <4>2 DEF T!Spoil, T!TrailOK
    <3>3. QED
      BY <2>2, <3>1, <3>2 DEF T!Spoil
  <2>3. CASE T!Rewrite
    BY <2>3 DEF T!Rewrite, T!TrailOK
  <2>4. CASE UNCHANGED T!vars
    BY <2>4 DEF T!vars, T!TrailOK
  <2>5. QED
    BY <2>1, <2>2, <2>3, <2>4 DEF T!Next
<1>3. QED
  BY <1>1, <1>2, PTL DEF T!Spec

(* Every step of the promise leaves what is confirmed alone, whatever the payloads are. *)
LEMMA PromiseUndoesNothing == T!Spec => T!NothingIsUndone
<1> DEFINE Kept ==
      tampers' = tampers =>
        /\ \A n \in Confirmed :
             n \in Confirmed' /\ \A m \in 1 .. n : m \in DOMAIN TheTrail' /\ TheTrail'[m] = TheTrail[m]
        /\ Verifies(Settled)' => Verifies(Settled)
<1>1. T!TrailOK /\ [T!Next]_(T!vars) => [Kept]_(T!vars)
  <2> SUFFICES ASSUME T!TrailOK, T!Next PROVE Kept
    OBVIOUS
  <2>1. CASE T!Write
    <3>1. PICK p \in Payloads : TheTrail' = Append(TheTrail, p)
      BY <2>1 DEF T!Write
    <3>2. \A m \in 1 .. Len(TheTrail) : m \in DOMAIN TheTrail' /\ TheTrail'[m] = TheTrail[m]
      BY <3>1 DEF T!TrailOK
    <3>3. \A n \in Confirmed : n \in 1 .. Len(TheTrail)
      BY DEF T!TrailOK
    <3>4. QED
      BY <2>1, <3>2, <3>3 DEF T!Write
  <2>2. CASE T!Spoil
    <3>1. CASE TheTrail' = TheTrail
      BY <2>2, <3>1 DEF T!Spoil, T!TrailOK
    <3>2. CASE /\ TheTrail # << >>
               /\ Len(TheTrail) \notin Confirmed
               /\ TheTrail' = SubSeq(TheTrail, 1, Len(TheTrail) - 1)
      <4>1. \A m \in 1 .. Len(TheTrail) - 1 : m \in DOMAIN TheTrail' /\ TheTrail'[m] = TheTrail[m]
        BY <3>2 DEF T!TrailOK
      <4>2. \A n \in Confirmed : n \in 1 .. Len(TheTrail) - 1
        BY <3>2 DEF T!TrailOK
      <4>3. QED
        BY <2>2, <4>1, <4>2 DEF T!Spoil
    <3>3. QED
      BY <2>2, <3>1, <3>2 DEF T!Spoil
  <2>3. CASE T!Rewrite
    BY <2>3 DEF T!Rewrite, T!TrailOK
  <2>4. QED
    BY <2>1, <2>2, <2>3 DEF T!Next
<1>2. QED
  BY <1>1, PromiseTyped, PTL DEF T!Spec, T!NothingIsUndone

(***************************************************************************)
(* Unless others edit the file, a confirmed entry stays what and where it  *)
(* is, with everything before it, and a log that does not verify never     *)
(* verifies again: nothing that goes wrong is covered up by what follows.  *)
(***************************************************************************)
THEOREM NothingUndone == Spec => T!NothingIsUndone
BY TrailKept, PromiseUndoesNothing, PTL DEF KeepsTheTrail

=============================================================================
