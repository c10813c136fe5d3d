----------------------------- MODULE AuthProofs -----------------------------
(***************************************************************************)
(* Theorems about Auth, for every set of credentials, every length of the  *)
(* file and every clock, with and without failing allocations.             *)
(***************************************************************************)
EXTENDS Auth, SequenceTheorems, TLAPS

(* Lines are sequences, and a prefix of lines are lines.                   *)
LEMMA LinesAreSequences ==
  ASSUME NEW lines \in Lines
  PROVE  /\ lines \in Seq(Line)
         /\ Len(lines) \in 0..MaxLines
         /\ DOMAIN lines = 1..Len(lines)
<1>1. PICK n \in 0..MaxLines : lines \in [1..n -> Line]
  BY DEF Lines
<1>2. lines \in Seq(Line) /\ Len(lines) = n
  BY <1>1, AuthAssumption DEF AuthAssumption
<1> QED
  BY <1>1, <1>2

LEMMA PrefixOfLines ==
  ASSUME NEW lines \in Lines, NEW n \in 0..Len(lines)
  PROVE  /\ SubSeq(lines, 1, n) \in Lines
         /\ Listed(SubSeq(lines, 1, n)) = Entries(lines, n)
         /\ n = Len(lines) => SubSeq(lines, 1, n) = lines
<1> DEFINE prefix == SubSeq(lines, 1, n)
<1>1. lines \in Seq(Line) /\ Len(lines) \in 0..MaxLines /\ n \in Nat
  BY LinesAreSequences, AuthAssumption DEF AuthAssumption
<1>2. \A k \in 1..n : lines[k] \in Line
  BY <1>1, ElementOfSeq
<1>3. /\ prefix \in Seq(Line)
      /\ Len(prefix) = n
      /\ \A k \in 1..n : prefix[k] = lines[k]
  BY <1>1, <1>2, SubSeqProperties
<1>4. prefix \in [1..n -> Line]
  BY <1>3, LenProperties
<1>5. prefix \in Lines
  BY <1>1, <1>4, AuthAssumption DEF Lines, AuthAssumption
<1>6. Listed(prefix) = Entries(lines, n)
  BY <1>3 DEF Listed, Entries
<1>7. n = Len(lines) => prefix = lines
  BY <1>1, <1>3, SeqEqual
<1> QED
  BY <1>5, <1>6, <1>7

(* The entries before a line are entries of the file.                      *)
LEMMA EntriesAreListed ==
  ASSUME NEW lines \in Lines, NEW n \in Int, n <= Len(lines)
  PROVE  /\ Entries(lines, n) \subseteq Listed(lines)
         /\ Listed(lines) \subseteq Cred
  BY LinesAreSequences DEF Entries, Listed

-----------------------------------------------------------------------------
(***************************************************************************)
(* The inductive invariant.  Memory holds at least what was read to the    *)
(* end the last time and at most what the file ever had.                   *)
(***************************************************************************)
IInv ==
  /\ TypeOK
  /\ Listed(loaded) \subseteq passwords
  /\ passwords \subseteq listed
  /\ Listed(file.lines) \subseteq listed
  /\ OnlyListedAdmitted
  /\ ListedAdmitted
  /\ OnlyLateChangesMissed

LEMMA IInvInit == Init => IInv
<1> SUFFICES ASSUME Init PROVE IInv
  OBVIOUS
<1>1. << >> \in Lines /\ Listed(<< >>) = {}
  <2>1. << >> \in [1..0 -> Line]
    OBVIOUS
  <2> QED
    BY <2>1, AuthAssumption DEF AuthAssumption, Lines, Listed, Entries
<1> QED
  BY <1>1 DEF Init, IInv, TypeOK, Line, OnlyListedAdmitted, ListedAdmitted,
              OnlyLateChangesMissed

(* What a step may do to the parts of the invariant about the last answer. *)
LEMMA VerdictStep ==
  ASSUME NEW cred \in Line, passwords' \subseteq listed',
         Listed(loaded') \subseteq passwords',
         Answer(cred, passwords') \/ Refuse(cred)
  PROVE  /\ verdict' \in [cred : Line, ok : BOOLEAN, failed : BOOLEAN]
         /\ OnlyListedAdmitted'
         /\ ListedAdmitted'
<1>1. PICK c \in Line, ok \in BOOLEAN, failed \in BOOLEAN :
         /\ verdict' = [cred |-> c, ok |-> ok, failed |-> failed]
         /\ ok => c \in passwords'
         /\ ~ failed /\ c \in passwords' => ok
  <2>1. CASE Refuse(cred)
    BY <2>1 DEF Refuse
  <2>2. CASE \E c \in Decoded(cred) : Judge(c, passwords')
    <3>1. PICK c \in Decoded(cred) : Judge(c, passwords')
      BY <2>2
    <3>2. c \in Line
      BY DEF Decoded
    <3>3. (c \in passwords') \in BOOLEAN
      OBVIOUS
    <3> QED
      BY <3>1, <3>2, <3>3, Zenon DEF Judge
  <2> QED
    BY <2>1, <2>2 DEF Answer
<1>2. verdict' \in [cred : Line, ok : BOOLEAN, failed : BOOLEAN]
  BY <1>1
<1>3. verdict'.cred = c /\ (verdict'.ok <=> ok) /\ (verdict'.failed <=> failed)
  BY <1>1
<1> QED
  BY <1>1, <1>2, <1>3 DEF OnlyListedAdmitted, ListedAdmitted

LEMMA IInvNext == IInv /\ [Next]_vars => IInv'
<1> SUFFICES ASSUME IInv, [Next]_vars PROVE IInv'
  OBVIOUS
<1> USE DEF IInv
<1>t. TypeOK
  OBVIOUS
<1>1. ASSUME NEW lines \in Lines, NEW t \in Time, Write(lines, t)
      PROVE  IInv'
  <2>1. /\ file'.lines = lines /\ file'.mtime = t
        /\ file' \in [there : BOOLEAN, readable : BOOLEAN, lines : Lines, mtime : Nat]
        /\ listed' = listed \cup Listed(lines)
        /\ missing' = (t <= source_last_read)
        /\ now' = now
    BY <1>1 DEF Write, Time
  <2>2. UNCHANGED << passwords, source_last_read, request, loaded, verdict >>
    BY <1>1 DEF Write, server
  <2>3. Listed(lines) \subseteq Cred
    BY DEF Listed, Entries
  <2>4. OnlyLateChangesMissed'
    <3>1. CASE t <= source_last_read
      BY <2>1, <3>1, Zenon DEF OnlyLateChangesMissed
    <3>2. CASE ~ (t <= source_last_read)
      <4>1. file'.mtime > source_last_read'
        BY <2>1, <2>2, <3>2, <1>t DEF TypeOK, Time
      <4> QED
        BY <4>1 DEF OnlyLateChangesMissed
    <3> QED
      BY <3>1, <3>2
  <2> QED
    BY <2>1, <2>2, <2>3, <2>4 DEF TypeOK, OnlyListedAdmitted, ListedAdmitted
<1>2. ASSUME NEW there \in BOOLEAN, NEW readable \in BOOLEAN, Protect(there, readable)
      PROVE  IInv'
  <2>1. file' = [file EXCEPT !.there = there, !.readable = readable]
    BY <1>2 DEF Protect
  <2>2. /\ file' \in [there : BOOLEAN, readable : BOOLEAN, lines : Lines, mtime : Nat]
        /\ file'.lines = file.lines
        /\ file'.mtime = file.mtime
    BY <2>1, <1>t DEF TypeOK
  <2> QED
    BY <1>2, <2>2 DEF Protect, server, TypeOK, OnlyListedAdmitted, ListedAdmitted,
                      OnlyLateChangesMissed
<1>3. CASE Tick
  BY <1>3 DEF Tick, server, TypeOK, OnlyListedAdmitted, ListedAdmitted,
              OnlyLateChangesMissed
<1>4. ASSUME NEW cred \in Line, StatFails(cred) \/ NotModified(cred)
      PROVE  IInv'
  <2>1. /\ Answer(cred, passwords) \/ Refuse(cred)
        /\ UNCHANGED << file, now, listed, passwords, source_last_read, request,
                        loaded, missing >>
    BY <1>4 DEF StatFails, NotModified, world
  <2>2. /\ verdict' \in [cred : Line, ok : BOOLEAN, failed : BOOLEAN]
        /\ OnlyListedAdmitted' /\ ListedAdmitted'
    <3>1. Answer(cred, passwords') \/ Refuse(cred)
      BY <2>1
    <3> QED
      BY <2>1, <3>1, VerdictStep
  <2> QED
    BY <2>1, <2>2 DEF TypeOK, OnlyLateChangesMissed
<1>5. ASSUME NEW cred \in Line, Modified(cred)
      PROVE  IInv'
  BY <1>5 DEF Modified, world, TypeOK, OnlyListedAdmitted, ListedAdmitted,
              OnlyLateChangesMissed
<1>6. CASE OpenFails
  <2>1. PICK r \in request : Refuse(r.cred)
    BY <1>6 DEF OpenFails
  <2>2. /\ UNCHANGED << file, now, listed, passwords, source_last_read, loaded, missing >>
        /\ request' = {}
    BY <1>6 DEF OpenFails, world
  <2>3. r.cred \in Line
    BY <1>t DEF TypeOK
  <2>4. /\ verdict' \in [cred : Line, ok : BOOLEAN, failed : BOOLEAN]
        /\ OnlyListedAdmitted' /\ ListedAdmitted'
    BY <2>1, <2>2, <2>3, VerdictStep
  <2> QED
    BY <2>2, <2>4 DEF TypeOK, OnlyLateChangesMissed
<1>7. ASSUME NEW n \in 0..MaxLines, ReadEnds(n)
      PROVE  IInv'
  <2>0. file.lines \in Lines /\ n \in Int
    BY <1>t, AuthAssumption DEF TypeOK, AuthAssumption
  <2>1. n \in 0..Len(file.lines)
    BY <1>7, <2>0, LinesAreSequences, AuthAssumption DEF ReadEnds, AuthAssumption
  <2>2. /\ loaded' = SubSeq(file.lines, 1, n)
        /\ passwords' = passwords \cup Entries(file.lines, n)
        /\ missing' = (n < Len(file.lines))
        /\ request' = {}
        /\ UNCHANGED << file, now, listed >>
    BY <1>7 DEF ReadEnds, world
  <2>3. PICK r \in request : source_last_read' = r.mtime /\ Answer(r.cred, passwords')
    BY <1>7 DEF ReadEnds
  <2>4. r.cred \in Line /\ r.mtime \in Nat
    BY <1>t DEF TypeOK
  <2>5. /\ loaded' \in Lines
        /\ Listed(loaded') = Entries(file.lines, n)
        /\ n = Len(file.lines) => loaded' = file.lines
    BY <2>0, <2>1, <2>2, PrefixOfLines
  <2>6. /\ Entries(file.lines, n) \subseteq listed
        /\ Entries(file.lines, n) \subseteq Cred
    BY <2>0, <2>1, LinesAreSequences, EntriesAreListed
  <2>7. passwords' \subseteq listed' /\ Listed(loaded') \subseteq passwords'
    BY <2>2, <2>5, <2>6
  <2>8. /\ verdict' \in [cred : Line, ok : BOOLEAN, failed : BOOLEAN]
        /\ OnlyListedAdmitted' /\ ListedAdmitted'
    BY <2>3, <2>4, <2>7, VerdictStep
  <2>9. OnlyLateChangesMissed'
    <3>1. Len(file.lines) \in Int
      BY <2>0, LinesAreSequences, AuthAssumption DEF AuthAssumption
    <3>2. CASE n < Len(file.lines)
      BY <2>2, <3>2, Zenon DEF OnlyLateChangesMissed
    <3>3. CASE ~ (n < Len(file.lines))
      <4>1. n = Len(file.lines)
        BY <2>1, <3>1, <3>3
      <4>2. file'.lines = loaded'
        BY <2>2, <2>5, <4>1
      <4> QED
        BY <4>2 DEF OnlyLateChangesMissed
    <3> QED
      BY <3>2, <3>3
  <2>10. TypeOK'
    BY <1>t, <2>2, <2>3, <2>4, <2>5, <2>6, <2>8 DEF TypeOK
  <2> QED
    BY <2>2, <2>7, <2>8, <2>9, <2>10
<1>8. ASSUME NEW n \in 0..MaxLines, ReadStops(n)
      PROVE  IInv'
  <2>0. file.lines \in Lines /\ n \in Int
    BY <1>t, AuthAssumption DEF TypeOK, AuthAssumption
  <2>1. n \in 1..Len(file.lines)
    BY <1>8, <2>0, LinesAreSequences DEF ReadStops
  <2>2. /\ passwords' = passwords \cup Entries(file.lines, n - 1)
        /\ request' = {}
        /\ UNCHANGED << file, now, listed, source_last_read, loaded, missing >>
    BY <1>8 DEF ReadStops, world
  <2>3. PICK r \in request : Refuse(r.cred)
    BY <1>8 DEF ReadStops
  <2>4. r.cred \in Line
    BY <1>t DEF TypeOK
  <2>5. /\ Entries(file.lines, n - 1) \subseteq listed
        /\ Entries(file.lines, n - 1) \subseteq Cred
    BY <2>0, <2>1, LinesAreSequences, EntriesAreListed
  <2>6. passwords' \subseteq listed' /\ Listed(loaded') \subseteq passwords'
    BY <2>2, <2>5
  <2>7. /\ verdict' \in [cred : Line, ok : BOOLEAN, failed : BOOLEAN]
        /\ OnlyListedAdmitted' /\ ListedAdmitted'
    BY <2>3, <2>4, <2>6, VerdictStep
  <2> QED
    BY <1>t, <2>2, <2>5, <2>6, <2>7 DEF TypeOK, OnlyLateChangesMissed
<1>9. CASE UNCHANGED vars
  BY <1>9 DEF vars, TypeOK, OnlyListedAdmitted, ListedAdmitted, OnlyLateChangesMissed
<1> QED
  BY <1>1, <1>2, <1>3, <1>4, <1>5, <1>6, <1>7, <1>8, <1>9 DEF Next

LEMMA IInvAlways == Spec => []IInv
  BY IInvInit, IInvNext, PTL DEF Spec

-----------------------------------------------------------------------------
(* Every variable of Auth keeps its type.                                  *)
THEOREM AuthTypeCorrect == Spec => []TypeOK
<1>1. IInv => TypeOK
  BY DEF IInv
<1> QED
  BY IInvAlways, <1>1, PTL

(* Nobody is let in with credentials that the file never had, however many *)
(* times it changes, disappears or cannot be read.                         *)
THEOREM NobodyElseAdmitted == Spec => []OnlyListedAdmitted
<1>1. IInv => OnlyListedAdmitted
  BY DEF IInv
<1> QED
  BY IInvAlways, <1>1, PTL

(* Who was listed when the file was last read to its end is not turned     *)
(* away by a request that consults the list.                               *)
THEOREM EverybodyListedAdmitted == Spec => []ListedAdmitted
<1>1. IInv => ListedAdmitted
  BY DEF IInv
<1> QED
  BY IInvAlways, <1>1, PTL

(* A version of the file with a later time stamp is never overlooked, even *)
(* one that is written while a request reads the file.                     *)
THEOREM LaterVersionsAreRead == Spec => []OnlyLateChangesMissed
<1>1. IInv => OnlyLateChangesMissed
  BY DEF IInv
<1> QED
  BY IInvAlways, <1>1, PTL
=============================================================================
