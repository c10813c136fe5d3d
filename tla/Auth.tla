-------------------------------- MODULE Auth --------------------------------
(***************************************************************************)
(* The plaintext password file (auth-plaintext.c) behind every request to  *)
(* a server with authentication.  Each request looks at the file's time    *)
(* stamp, reads the file when it is newer than the version last read, and  *)
(* then looks for its credentials in memory.  The file belongs to others:  *)
(* it is written, removed and made unreadable at any time, also between    *)
(* the stat and the fopen of one request.                                  *)
(***************************************************************************)
EXTENDS Integers, Sequences

CONSTANTS
  Cred,      \* user names, up to letter case, with their passwords
  Malformed, \* a line of the file, or a header, that cannot be parsed
  MaxLines,  \* bound on the lines of the file
  MaxTime,   \* bound on the clock, in seconds
  Faults     \* may allocations fail while the file is read

ASSUME AuthAssumption ==
  /\ Malformed \notin Cred
  /\ MaxLines \in Nat
  /\ MaxTime \in Nat
  /\ Faults \in BOOLEAN

VARIABLES
  file,      \* the password file: its lines, its time stamp, and whether stat
             \* and fopen find it
  now,       \* the clock
  passwords, \* the entries in memory, whose order decides nothing
  source_last_read, \* the time stamp of the version last read, 0 before
  request,   \* the request between its stat and its fopen, if any
  loaded,    \* the lines taken for the whole file when it was last read
  listed,    \* the credentials that the file has ever had
  missing,   \* there are lines that nothing will make the program read
  verdict    \* the last answer

vars == << file, now, passwords, source_last_read, request, loaded, listed,
           missing, verdict >>
world == << file, now, listed >>

Time == 1..MaxTime
Line == Cred \cup {Malformed}
Lines == UNION { [1..n -> Line] : n \in 0..MaxLines }

(***************************************************************************)
(* The credentials in the first n lines.                                   *)
(***************************************************************************)
Entries(lines, n) == { lines[k] : k \in 1..n } \cap Cred

Listed(lines) == Entries(lines, Len(lines))

Init ==
  /\ file = [there |-> FALSE, readable |-> FALSE, lines |-> << >>, mtime |-> 1]
  /\ now = 1
  /\ passwords = {}
  /\ source_last_read = 0
  /\ request = {}
  /\ loaded = << >>
  /\ listed = {}
  /\ missing = FALSE
  /\ verdict = [cred |-> Malformed, ok |-> FALSE, failed |-> FALSE]

-----------------------------------------------------------------------------
(***************************************************************************)
(* The file, in the hands of the administrator.                            *)
(***************************************************************************)
server == << passwords, source_last_read, request, loaded, verdict >>

\* A new version, with the time of now or an older one, as a restored file has.
Write(lines, t) ==
  /\ t \in 1..now
  /\ file' = [there |-> TRUE, readable |-> TRUE, lines |-> lines, mtime |-> t]
  /\ listed' = listed \cup Listed(lines)
  /\ missing' = (t <= source_last_read)
  /\ UNCHANGED << now, server >>

\* It is removed, or its permissions change.
Protect(there, readable) ==
  /\ file' = [file EXCEPT !.there = there, !.readable = readable]
  /\ UNCHANGED << now, listed, missing, server >>

Tick ==
  /\ now < MaxTime
  /\ now' = now + 1
  /\ UNCHANGED << file, listed, missing, server >>

-----------------------------------------------------------------------------
(***************************************************************************)
(* auth_plaintext_verify_, once the file has been dealt with.              *)
(***************************************************************************)
\* Mutant: an empty list lets everybody in.
JudgeOpen(cred, entries) ==
  verdict' = [cred |-> cred, ok |-> entries = {} \/ cred \in entries, failed |-> FALSE]

Judge(cred, entries) ==
  verdict' = [cred |-> cred, ok |-> cred \in entries, failed |-> FALSE]

Refuse(cred) == verdict' = [cred |-> cred, ok |-> FALSE, failed |-> TRUE]

(***************************************************************************)
(* What a header is read as.  One that has nothing behind "Basic " is read *)
(* on past its end, where anything may follow.                             *)
(***************************************************************************)
Decoded(cred) == IF cred = Malformed THEN Line ELSE {cred}

\* The header is decoded, unless memory for it runs out, and looked for.
Answer(cred, entries) ==
  (\E c \in Decoded(cred) : Judge(c, entries)) \/ (Faults /\ Refuse(cred))

\* stat fails: what is in memory will do, if the file has been read before.
StatFails(cred) ==
  /\ request = {}
  /\ ~ file.there
  /\ IF source_last_read # 0 THEN Answer(cred, passwords) ELSE Refuse(cred)
  /\ UNCHANGED << world, passwords, source_last_read, request, loaded, missing >>

\* The file is no newer than the version last read.
NotModified(cred) ==
  /\ request = {}
  /\ file.there
  /\ source_last_read # 0
  /\ file.mtime <= source_last_read
  /\ Answer(cred, passwords)
  /\ UNCHANGED << world, passwords, source_last_read, request, loaded, missing >>

\* It is newer, or has not been read yet.
Modified(cred) ==
  /\ request = {}
  /\ file.there
  /\ source_last_read # 0 => file.mtime > source_last_read
  /\ request' = { [cred |-> cred, mtime |-> file.mtime] }
  /\ UNCHANGED << world, passwords, source_last_read, loaded, missing, verdict >>

\* fopen fails.
OpenFails ==
  /\ ~ (file.there /\ file.readable)
  /\ \E r \in request : Refuse(r.cred)
  /\ request' = {}
  /\ UNCHANGED << world, passwords, source_last_read, loaded, missing >>

\* Mutant: a malformed line is entered like any other.
ReadEndsUnchecked(n) ==
  /\ file.there /\ file.readable
  /\ n = Len(file.lines)
  /\ passwords' = passwords \cup { file.lines[k] : k \in 1..n }
  /\ \E r \in request :
        /\ source_last_read' = r.mtime
        /\ Answer(r.cred, passwords')
  /\ request' = {}
  /\ loaded' = file.lines
  /\ missing' = FALSE
  /\ UNCHANGED world

(***************************************************************************)
(* Lines are read up to the end of the file and their entries added to     *)
(* those that are there.  A line that cannot be allocated is taken for the *)
(* end.                                                                    *)
(***************************************************************************)
ReadEnds(n) ==
  /\ file.there /\ file.readable
  /\ n = Len(file.lines) \/ (Faults /\ n < Len(file.lines))
  /\ \A k \in 1..n : file.lines[k] \in Cred
  /\ passwords' = passwords \cup Entries(file.lines, n)
  /\ \E r \in request :
        /\ source_last_read' = r.mtime
        /\ Answer(r.cred, passwords')
  /\ request' = {}
  /\ loaded' = SubSeq(file.lines, 1, n)
  /\ missing' = (n < Len(file.lines))
  /\ UNCHANGED world

\* Mutant: the list is emptied before the file is read.
ReadStopsEmptied(n) ==
  /\ file.there /\ file.readable
  /\ n \in DOMAIN file.lines
  /\ \A k \in 1..(n-1) : file.lines[k] \in Cred
  /\ file.lines[n] \notin Cred
  /\ passwords' = Entries(file.lines, n - 1)
  /\ \E r \in request : Refuse(r.cred)
  /\ request' = {}
  /\ UNCHANGED << world, source_last_read, loaded, missing >>

\* Mutant: the time stamp is kept although the reading failed.
ReadStopsMarked(n) ==
  /\ file.there /\ file.readable
  /\ n \in DOMAIN file.lines
  /\ \A k \in 1..(n-1) : file.lines[k] \in Cred
  /\ file.lines[n] \notin Cred
  /\ passwords' = passwords \cup Entries(file.lines, n - 1)
  /\ \E r \in request : Refuse(r.cred) /\ source_last_read' = r.mtime
  /\ request' = {}
  /\ UNCHANGED << world, loaded, missing >>

(***************************************************************************)
(* The entry of line n cannot be parsed (or allocated): the request is     *)
(* refused, the file counts as unread, the entries before stay.            *)
(***************************************************************************)
ReadStops(n) ==
  /\ file.there /\ file.readable
  /\ n \in DOMAIN file.lines
  /\ \A k \in 1..(n-1) : file.lines[k] \in Cred
  /\ file.lines[n] \notin Cred \/ Faults
  /\ passwords' = passwords \cup Entries(file.lines, n - 1)
  /\ \E r \in request : Refuse(r.cred)
  /\ request' = {}
  /\ UNCHANGED << world, source_last_read, loaded, missing >>

-----------------------------------------------------------------------------
Next ==
  \/ \E lines \in Lines, t \in Time : Write(lines, t)
  \/ \E there, readable \in BOOLEAN : Protect(there, readable)
  \/ Tick
  \/ \E cred \in Line : StatFails(cred) \/ NotModified(cred) \/ Modified(cred)
  \/ OpenFails
  \/ \E n \in 0..MaxLines : ReadEnds(n) \/ ReadStops(n)

Spec == Init /\ [][Next]_vars

-----------------------------------------------------------------------------
(***************************************************************************)
(* Properties.                                                             *)
(***************************************************************************)
(* Every variable has its type. *)
TypeOK ==
  /\ file \in [there : BOOLEAN, readable : BOOLEAN, lines : Lines, mtime : Nat]
  /\ now \in Nat
  /\ passwords \subseteq Cred
  /\ source_last_read \in Nat
  /\ request \subseteq [cred : Line, mtime : Nat]
  /\ loaded \in Lines
  /\ listed \subseteq Cred
  /\ missing \in BOOLEAN
  /\ verdict \in [cred : Line, ok : BOOLEAN, failed : BOOLEAN]

(* Whatever happens to the file, and wherever its reading fails, nobody is *)
(* let in with credentials that it never had.                              *)
OnlyListedAdmitted == verdict.ok => verdict.cred \in listed

(* Credentials in the version last read to its end are accepted whenever a *)
(* request gets as far as looking for them (auth-plaintext.c:247), also    *)
(* when the file has gone since, or later versions of it could not be read *)
(* to their end.                                                           *)
ListedAdmitted ==
  ~ verdict.failed /\ verdict.cred \in Listed(loaded) => verdict.ok

(* Where memory and file differ, the file's time stamp will make the next  *)
(* request read it, also when the file changed between stat and fopen or a *)
(* reading failed.  Only a version whose time stamp is no later than the   *)
(* one it replaced is missed (auth-plaintext.c:401), and the lines after   *)
(* one for which there was no memory (auth-plaintext.c:412).               *)
OnlyLateChangesMissed ==
  file.lines # loaded =>
    missing \/ source_last_read = 0 \/ file.mtime > source_last_read

(***************************************************************************)
(* Claims of auth.h.                                                       *)
(***************************************************************************)
(* "verify an authentication attempt - returns 1 if credentials are valid" *)
(* (auth.h:39): credentials are accepted only if the file, as it was last  *)
(* read, has them.                                                         *)
OnlyValidAdmitted == verdict.ok => verdict.cred \in Listed(loaded)
=============================================================================
