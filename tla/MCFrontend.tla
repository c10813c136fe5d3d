----------------------------- MODULE MCFrontend -----------------------------
(***************************************************************************)
(* Values for the constants of Frontend: the files that can be written     *)
(* with a few entries.                                                     *)
(***************************************************************************)
EXTENDS Frontend

CONSTANTS any, local, a, A, b, pem1, pem2, bad

MCAuthFold == [x \in {a, A, b} |-> IF x = A THEN a ELSE x]

Auth(name, known) == [name |-> name, known |-> known]

MCAuths ==
  { << Auth(a, TRUE) >>, << Auth(a, TRUE), Auth(A, TRUE) >>,
    << Auth(a, TRUE), Auth(b, FALSE) >> }

Server(host, port, cert, key, auth) ==
  [host |-> host, port |-> port, cert |-> cert, key |-> key, auth |-> auth]

\* Entries that start, and entries that fail somewhere.
Good ==
  { Server(any, 3682, None, None, a), Server(any, SHRT_MAX, pem1, pem1, a),
    Server(any, 443, pem2, pem2, A) }

Bad ==
  { Server(any, 443, None, None, None), Server(any, SHRT_MAX + 1, None, None, a),
    Server(any, 443, pem1, None, a), Server(any, 80, pem1, pem2, a),
    Server(any, 80, bad, bad, a), Server(any, 80, None, None, b),
    Server(None, 80, None, None, a), Server(local, 3682, None, None, a) }

MCServers ==
  { << >> } \cup { << s >> : s \in Good \cup Bad }
    \cup { << s, t >> : s \in Good, t \in Good \cup Bad }

MCFile == [auths : MCAuths, servers : MCServers]
=============================================================================
