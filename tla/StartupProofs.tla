--------------------------- MODULE StartupProofs ---------------------------
(***************************************************************************)
(* Theorems about Startup, for any configuration files, certificates and   *)
(* names.                                                                  *)
(***************************************************************************)
EXTENDS Startup, SequenceTheorems, TLAPS

Phase == {"command_line", "authentication", "servers", "begin", "create"} \cup Ended

Entries(f) == [entry : DOMAIN f.servers, auth : SUBSET DOMAIN f.auths]

Loaded(pem) == [initialised |-> TRUE, keypair_loaded |-> 2, cert |-> pem, key |-> pem]

Read == {"servers", "begin", "create", "running"}
Serving == {"create", "running"}

\* The list of authentications is what was read of the file, newest first.
AuthsInv(f) ==
  /\ authentications \in Seq(DOMAIN f.auths)
  /\ Len(authentications) <= Len(f.auths)
  /\ \A k \in DOMAIN authentications : authentications[k] = Len(authentications) + 1 - k
  /\ phase \in Read => Len(authentications) = Len(f.auths)

\* A list of the first entries of the file, newest first, each with the
\* authentication it names.
EntriesOf(f, list) ==
  /\ list \in Seq(Entries(f))
  /\ Len(list) <= Len(f.servers)
  /\ \A k \in DOMAIN list :
        list[k].entry = Len(list) + 1 - k /\ list[k].auth = Named(f, list[k].entry)

ServersInv(f) ==
  /\ EntriesOf(f, servers)
  /\ EntriesOf(f, iter)
  /\ Len(iter) <= Len(servers)
  /\ phase \in Read \ {"servers"} => Len(servers) = Len(f.servers)

\* The servers that are not in iter any more have their callbacks.
CallbacksInv(f) ==
  /\ DOMAIN callbacks \subseteq DOMAIN f.servers
  /\ \A n \in DOMAIN callbacks :
        /\ callbacks[n] \in [Path -> Callback(f)]
        /\ \A p \in Path :
             /\ callbacks[n][p].checks
             /\ callbacks[n][p].auth = Named(f, n) \/ (Faults /\ callbacks[n][p].auth = {})
  /\ phase \in Serving => DOMAIN callbacks = (Len(iter) + 1)..Len(servers)

\* The context is loaded once one of them is secured.
SslInv(f) ==
  phase \in Serving => \A n \in DOMAIN callbacks : Secured(f.servers[n]) => ssl # NoSsl

StartupInv ==
  /\ file \in { {f} : f \in File } \cup {{}}
  /\ phase \in Phase
  /\ ssl \in { Loaded(pem) : pem \in Pem } \cup {NoSsl}
  /\ file = {} => authentications = << >> /\ servers = << >>
  /\ phase \in Serving => file # {}
  /\ phase = "running" => iter = << >>
  /\ phase \in Phase \ (Ended \cup {"create"}) =>
        iter = << >> /\ callbacks = << >> /\ ssl = NoSsl
  /\ phase \in {"command_line", "authentication"} => servers = << >>
  /\ \A f \in file : AuthsInv(f) /\ ServersInv(f) /\ CallbacksInv(f) /\ SslInv(f)

-----------------------------------------------------------------------------
(***************************************************************************)
(* The operators of Startup.                                               *)
(***************************************************************************)
LEMMA Lengths ==
  ASSUME NEW f \in File
  PROVE  /\ Len(f.auths) \in Nat /\ DOMAIN f.auths = 1..Len(f.auths)
         /\ Len(f.servers) \in Nat /\ DOMAIN f.servers = 1..Len(f.servers)
  BY StartupAssumption DEF StartupAssumption

\* SLIST_INSERT_HEAD.
LEMMA Prepended ==
  ASSUME NEW S, NEW list \in Seq(S), NEW e \in S
  PROVE  /\ << e >> \o list \in Seq(S)
         /\ Len(<< e >> \o list) = Len(list) + 1
         /\ (<< e >> \o list)[1] = e
         /\ \A k \in 2..(Len(list) + 1) : (<< e >> \o list)[k] = list[k - 1]
  OBVIOUS

LEMMA TailOf ==
  ASSUME NEW S, NEW list \in Seq(S), list # << >>
  PROVE  /\ Head(list) = list[1] /\ Head(list) \in S
         /\ Tail(list) \in Seq(S)
         /\ Len(list) \in Nat \ {0} /\ Len(Tail(list)) = Len(list) - 1
         /\ \A k \in 1..(Len(list) - 1) : Tail(list)[k] = list[k + 1]
  BY HeadTailProperties, EmptySeq

(* The authentication that config.c finds for an entry is the one that the *)
(* entry names.                                                            *)
LEMMA NamedIsFound ==
  ASSUME NEW f \in File, AuthsInv(f), Len(authentications) = Len(f.auths),
         NEW n \in DOMAIN f.servers
  PROVE  Configured(f, n) = [entry |-> n, auth |-> Named(f, n)]
<1> DEFINE name == f.servers[n].auth
           L == Len(f.auths)
           Same(k) == AuthFold[f.auths[k].name] = AuthFold[name]
           same == { k \in DOMAIN authentications : Same(authentications[k]) }
<1>1. /\ L \in Nat /\ DOMAIN f.auths = 1..L /\ DOMAIN authentications = 1..L
      /\ \A k \in 1..L : authentications[k] = L + 1 - k
  BY Lengths, LenProperties DEF AuthsInv
<1>2. Named(f, n) = { k \in 1..L : /\ name # None /\ Same(k)
                                   /\ \A j \in 1..L : Same(j) => j <= k }
  BY <1>1 DEF Named
<1>3. config_authentication_get_(f, name) =
        { authentications[k] : k \in { k \in same : \A j \in same : k <= j } }
  BY DEF config_authentication_get_
<1> HIDE DEF L, Same
<1>4. CASE name # None
  <2>1. ASSUME NEW a, a \in config_authentication_get_(f, name)
        PROVE  a \in Named(f, n)
    <3>1. PICK k \in same : a = authentications[k] /\ \A j \in same : k <= j
      BY <1>3, <2>1
    <3>2. k \in 1..L /\ a = L + 1 - k /\ Same(a)
      BY <1>1, <3>1
    <3>3. ASSUME NEW j \in 1..L, Same(j)
          PROVE  j <= a
      <4>1. L + 1 - j \in 1..L /\ authentications[L + 1 - j] = j
        BY <1>1
      <4>2. L + 1 - j \in same
        BY <1>1, <3>3, <4>1
      <4> QED
        BY <1>1, <3>1, <3>2, <4>2
    <3> QED
      BY <1>1, <1>2, <1>4, <3>2, <3>3
  <2>2. ASSUME NEW a, a \in Named(f, n)
        PROVE  a \in config_authentication_get_(f, name)
    <3>1. a \in 1..L /\ Same(a) /\ \A j \in 1..L : Same(j) => j <= a
      BY <1>2, <2>2
    <3> DEFINE k == L + 1 - a
    <3>2. k \in 1..L /\ authentications[k] = a
      BY <1>1, <3>1
    <3>3. k \in same
      BY <1>1, <3>1, <3>2
    <3>4. ASSUME NEW j \in same
          PROVE  k <= j
      <4>1. j \in 1..L /\ L + 1 - j \in 1..L /\ Same(L + 1 - j)
        BY <1>1
      <4> QED
        BY <1>1, <3>1, <4>1
    <3> QED
      BY <1>3, <3>2, <3>3, <3>4
  <2> QED
    BY <1>4, <2>1, <2>2 DEF Configured
<1>5. CASE name = None
  BY <1>2, <1>5 DEF Configured
<1> QED
  BY <1>4, <1>5

\* A context into which entry s may be loaded.
Context(s) == [initialised : BOOLEAN, keypair_loaded : Int,
               cert : {None, s.cert}, key : {None, s.key}]

LEMMA CertificateLoaded ==
  ASSUME NEW s, NEW c \in Context(s), c.keypair_loaded = 0
  PROVE  ssl_load_certificate(c, s.cert) =
           [initialised |-> c.initialised, keypair_loaded |-> 1, cert |-> s.cert, key |-> c.key]
<1>1. ssl_load_certificate(c, s.cert) = [c EXCEPT !.cert = s.cert, !.keypair_loaded = @ + 1]
  BY DEF ssl_load_certificate
<1>2. ssl_load_certificate(c, s.cert) =
        [initialised |-> c.initialised, keypair_loaded |-> c.keypair_loaded + 1,
         cert |-> s.cert, key |-> c.key]
  BY <1>1 DEF Context
<1>3. c.keypair_loaded + 1 = 1
  OBVIOUS
<1> QED
  BY <1>2, <1>3, Zenon

LEMMA KeyLoaded ==
  ASSUME NEW s, NEW c \in Context(s), c.keypair_loaded = 1
  PROVE  ssl_load_privatekey(c, s.key) =
           [initialised |-> c.initialised, keypair_loaded |-> 2, cert |-> c.cert, key |-> s.key]
<1>1. ssl_load_privatekey(c, s.key) = [c EXCEPT !.key = s.key, !.keypair_loaded = @ + 1]
  BY DEF ssl_load_privatekey
<1>2. ssl_load_privatekey(c, s.key) =
        [initialised |-> c.initialised, keypair_loaded |-> c.keypair_loaded + 1,
         cert |-> c.cert, key |-> s.key]
  BY <1>1 DEF Context
<1>3. c.keypair_loaded + 1 = 2
  OBVIOUS
<1> QED
  BY <1>2, <1>3, Zenon

(* A certificate and its key are loaded for the first server that is       *)
(* secured, and what is loaded stays.                                      *)
LEMMA SslForProperties ==
  ASSUME ssl \in { Loaded(pem) : pem \in Pem } \cup {NoSsl},
         NEW s, Secured(s) => Loads(ssl, s)
  PROVE  /\ ~ Secured(s) => SslFor(s) = ssl
         /\ Secured(s) /\ ssl # NoSsl => SslFor(s) = ssl
         /\ Secured(s) /\ ssl = NoSsl => s.cert \in Pem /\ SslFor(s) = Loaded(s.cert)
<1>1. CASE Secured(s) /\ ssl # NoSsl
  BY <1>1 DEF SslFor, Loaded, ssl_setup, ssl_load_certificate, ssl_load_privatekey
<1>2. CASE Secured(s) /\ ssl = NoSsl
  <2> DEFINE made == [initialised |-> TRUE, keypair_loaded |-> 0, cert |-> None, key |-> None]
             cert == [initialised |-> TRUE, keypair_loaded |-> 1, cert |-> s.cert, key |-> None]
  <2>1. ssl_setup(ssl) = made
    BY <1>2 DEF ssl_setup, NoSsl
  <2>2. ssl_load_certificate(made, s.cert) = cert
    <3>1. made \in Context(s) /\ made.keypair_loaded = 0
      BY DEF Context
    <3>2. made.initialised = TRUE /\ made.key = None
      OBVIOUS
    <3> HIDE DEF made
    <3>3. ssl_load_certificate(made, s.cert) =
            [initialised |-> made.initialised, keypair_loaded |-> 1,
             cert |-> s.cert, key |-> made.key]
      BY <3>1, CertificateLoaded
    <3> QED
      BY <3>2, <3>3, Zenon
  <2>3. s.cert \in Pem /\ s.key = s.cert
    BY <1>2, <2>1, <2>2 DEF Loads
  <2>4. ssl_load_privatekey(cert, s.key) = Loaded(s.cert)
    <3>1. cert \in Context(s) /\ cert.keypair_loaded = 1
      BY DEF Context
    <3>2. cert.initialised = TRUE /\ cert.cert = s.cert
      OBVIOUS
    <3> HIDE DEF cert
    <3>3. ssl_load_privatekey(cert, s.key) =
            [initialised |-> cert.initialised, keypair_loaded |-> 2,
             cert |-> cert.cert, key |-> s.key]
      BY <3>1, KeyLoaded
    <3> QED
      BY <2>3, <3>2, <3>3, Zenon DEF Loaded
  <2> QED
    BY <1>2, <2>1, <2>2, <2>3, <2>4 DEF SslFor
<1> QED
  BY <1>1, <1>2 DEF SslFor

(* manager_add_server leaves no path without a check.                      *)
LEMMA CallbacksForProperties ==
  ASSUME NEW auth, auth # {}, NEW registered \in CallbacksFor(auth)
  PROVE  /\ registered \in [Path -> [checks : {TRUE}, auth : {auth, {}}]]
         /\ ~ Faults => \A p \in Path : registered[p].auth = auth
<1>1. PICK q \in Path \cup {None} :
        /\ registered = [p \in Path |-> Checked(auth \ (IF p = q THEN auth ELSE {}))]
        /\ ~ Faults => q = None
  BY StartupAssumption DEF CallbacksFor, StartupAssumption
<1>2. \A p \in Path : registered[p] = Checked(auth \ (IF p = q THEN auth ELSE {}))
  BY <1>1
<1>3. ASSUME NEW p \in Path
      PROVE  /\ registered[p] \in [checks : {TRUE}, auth : {auth, {}}]
             /\ p # q => registered[p].auth = auth
  <2>1. CASE p = q
    <3>1. auth \ (IF p = q THEN auth ELSE {}) = {}
      BY <2>1
    <3>2. registered[p] = [checks |-> TRUE, auth |-> {}]
      BY <1>2, <3>1, Zenon DEF Checked
    <3> QED
      BY <2>1, <3>2
  <2>2. CASE p # q
    <3>1. auth \ (IF p = q THEN auth ELSE {}) = auth
      BY <2>2
    <3>2. registered[p] = [checks |-> TRUE, auth |-> auth]
      BY <1>2, <3>1, Zenon DEF Checked
    <3> QED
      BY <3>2
  <2> QED
    BY <2>1, <2>2
<1> QED
  BY <1>1, <1>3, StartupAssumption DEF StartupAssumption

LEMMA EntriesOfPrepended ==
  ASSUME NEW f \in File, NEW list, EntriesOf(f, list), Len(list) + 1 \in DOMAIN f.servers
  PROVE  EntriesOf(f, << [entry |-> Len(list) + 1, auth |-> Named(f, Len(list) + 1)] >> \o list)
<1> DEFINE n == Len(list) + 1
           e == [entry |-> n, auth |-> Named(f, n)]
           new == << e >> \o list
<1>1. list \in Seq(Entries(f)) /\ Len(list) \in Nat /\ n \in Nat
  BY LenProperties DEF EntriesOf
<1>2. e \in Entries(f) /\ e.entry = n /\ e.auth = Named(f, n)
  BY DEF Entries, Named
<1> HIDE DEF e
<1>3. /\ new \in Seq(Entries(f)) /\ Len(new) = n /\ new[1] = e
      /\ \A k \in 2..n : new[k] = list[k - 1]
  BY <1>1, <1>2, Prepended
<1>4. n <= Len(f.servers)
  BY <1>1, Lengths
<1>5. ASSUME NEW k \in 1..n
      PROVE  new[k].entry = n + 1 - k /\ new[k].auth = Named(f, new[k].entry)
  <2>1. CASE k = 1
    BY <1>1, <1>2, <1>3, <2>1
  <2>2. CASE k # 1
    <3>1. k - 1 \in DOMAIN list /\ k \in 2..n
      BY <1>1, <2>2, LenProperties
    <3>2. list[k - 1].entry = Len(list) + 1 - (k - 1)
          /\ list[k - 1].auth = Named(f, list[k - 1].entry)
      BY <3>1 DEF EntriesOf
    <3> QED
      BY <1>1, <1>3, <3>1, <3>2
  <2> QED
    BY <2>1, <2>2
<1> HIDE DEF new
<1>6. DOMAIN new = 1..n
  BY <1>3, LenProperties
<1>7. EntriesOf(f, new)
  BY <1>3, <1>4, <1>5, <1>6 DEF EntriesOf
<1> QED
  BY <1>7 DEF new, e

LEMMA EntriesOfTail ==
  ASSUME NEW f \in File, NEW list, EntriesOf(f, list), list # << >>
  PROVE  /\ EntriesOf(f, Tail(list))
         /\ Len(list) \in Nat \ {0} /\ Len(Tail(list)) = Len(list) - 1
         /\ Head(list).entry = Len(list) /\ Head(list).auth = Named(f, Len(list))
         /\ Len(list) \in DOMAIN f.servers
<1>1. list \in Seq(Entries(f)) /\ DOMAIN list = 1..Len(list)
  BY LenProperties DEF EntriesOf
<1>2. /\ Head(list) = list[1] /\ Head(list) \in Entries(f)
      /\ Tail(list) \in Seq(Entries(f))
      /\ Len(list) \in Nat \ {0} /\ Len(Tail(list)) = Len(list) - 1
      /\ \A k \in 1..(Len(list) - 1) : Tail(list)[k] = list[k + 1]
  BY <1>1, TailOf
<1>3. DOMAIN Tail(list) = 1..(Len(list) - 1)
  BY <1>2, LenProperties
<1>4. ASSUME NEW k \in 1..(Len(list) - 1)
      PROVE  /\ Tail(list)[k].entry = Len(Tail(list)) + 1 - k
             /\ Tail(list)[k].auth = Named(f, Tail(list)[k].entry)
  <2>1. k + 1 \in DOMAIN list
    BY <1>1, <1>2
  <2>2. list[k + 1].entry = Len(list) + 1 - (k + 1)
        /\ list[k + 1].auth = Named(f, list[k + 1].entry)
    BY <2>1 DEF EntriesOf
  <2> QED
    BY <1>2, <2>2
<1>5. Head(list).entry = Len(list) /\ Head(list).auth = Named(f, Len(list))
  BY <1>1, <1>2 DEF EntriesOf
<1>6. Len(list) \in DOMAIN f.servers
  BY <1>2, <1>5 DEF Entries
<1>7. Len(Tail(list)) <= Len(f.servers)
  BY <1>2, Lengths DEF EntriesOf
<1>8. EntriesOf(f, Tail(list))
  BY <1>2, <1>3, <1>4, <1>7 DEF EntriesOf
<1> QED
  BY <1>2, <1>5, <1>6, <1>8

-----------------------------------------------------------------------------
(***************************************************************************)
(* The steps.                                                              *)
(***************************************************************************)
LEMMA StartupInvInit == StartupInit => StartupInv
<1> SUFFICES ASSUME StartupInit PROVE StartupInv
  OBVIOUS
<1>1. /\ authentications = << >> /\ servers = << >> /\ iter = << >> /\ callbacks = << >>
      /\ ssl = NoSsl /\ phase = "command_line"
      /\ file \in { {f} : f \in File } \cup {{}}
  BY DEF StartupInit
<1>2. ASSUME NEW f \in file
      PROVE  AuthsInv(f) /\ ServersInv(f) /\ CallbacksInv(f) /\ SslInv(f)
  <2>1. Len(f.auths) \in Nat /\ Len(f.servers) \in Nat
    BY <1>1, Lengths
  <2>2. AuthsInv(f)
    BY <1>1, <2>1 DEF AuthsInv, Read
  <2>3. EntriesOf(f, << >>)
    BY <2>1 DEF EntriesOf
  <2>4. ServersInv(f)
    BY <1>1, <2>3 DEF ServersInv, Read
  <2>5. CallbacksInv(f) /\ SslInv(f)
    BY <1>1 DEF CallbacksInv, SslInv, Serving
  <2> QED
    BY <2>2, <2>4, <2>5
<1> QED
  BY <1>1, <1>2 DEF StartupInv, Phase, Serving, Ended

\* The process ends.
LEMMA StartupInvEnds ==
  ASSUME StartupInv, phase' \in {"exited", "crashed"},
         UNCHANGED << file, lists, iter, callbacks >>,
         ssl' \in { Loaded(pem) : pem \in Pem } \cup {NoSsl}
  PROVE  StartupInv'
<1>1. UNCHANGED << authentications, servers >>
  BY DEF lists
<1>2. ASSUME NEW f \in file
      PROVE  AuthsInv(f)' /\ ServersInv(f)' /\ CallbacksInv(f)' /\ SslInv(f)'
  <2>1. AuthsInv(f) /\ ServersInv(f) /\ CallbacksInv(f)
    BY DEF StartupInv
  <2>2. phase' \notin Read /\ phase' \notin Serving
    BY DEF Read, Serving
  <2>3. AuthsInv(f)'
    BY <1>1, <2>1, <2>2 DEF AuthsInv
  <2>4. ServersInv(f)'
    BY <1>1, <2>1, <2>2 DEF ServersInv, EntriesOf
  <2>5. CallbacksInv(f)' /\ SslInv(f)'
    BY <1>1, <2>1, <2>2 DEF CallbacksInv, SslInv
  <2> QED
    BY <2>3, <2>4, <2>5
<1>3. file' = file /\ phase' \in Phase /\ phase' \in Ended /\ phase' \notin Serving
      /\ phase' \notin {"running", "command_line", "authentication"}
  BY DEF Phase, Ended, Serving
<1> QED
  BY <1>1, <1>2, <1>3 DEF StartupInv

\* main goes on to its next part.
LEMMA StartupInvAdvances ==
  ASSUME StartupInv,
         CommandLine \/ AuthenticationsProcessed \/ ServersProcessed \/ ConfigIterServerBegin
  PROVE  StartupInv'
<1>1. UNCHANGED << file, authentications, servers, ssl, callbacks >>
  BY DEF CommandLine, AuthenticationsProcessed, ServersProcessed, ConfigIterServerBegin, lists
<1>2. iter = << >> /\ callbacks = << >> /\ ssl = NoSsl
  BY DEF CommandLine, AuthenticationsProcessed, ServersProcessed, ConfigIterServerBegin,
         StartupInv, Phase, Ended
<1>3. \/ phase' \in {"authentication", "servers", "begin"} /\ iter' = << >>
      \/ phase' = "create" /\ iter' = servers /\ servers # << >>
  BY <1>2 DEF CommandLine, AuthenticationsProcessed, ServersProcessed, ConfigIterServerBegin
<1>4. phase' = "authentication" => servers = << >>
  BY DEF CommandLine, AuthenticationsProcessed, ServersProcessed, ConfigIterServerBegin,
         StartupInv
<1>5. ASSUME NEW f \in file
      PROVE  AuthsInv(f)' /\ ServersInv(f)' /\ CallbacksInv(f)' /\ SslInv(f)'
  <2>1. AuthsInv(f) /\ ServersInv(f) /\ CallbacksInv(f) /\ f \in File
    BY DEF StartupInv
  <2>2. /\ Len(f.auths) \in Nat /\ DOMAIN f.auths = 1..Len(f.auths)
        /\ Len(f.servers) \in Nat /\ DOMAIN f.servers = 1..Len(f.servers)
        /\ Len(authentications) \in Nat /\ Len(servers) \in Nat
    BY <2>1, Lengths, LenProperties DEF AuthsInv, ServersInv, EntriesOf
  <2>3. phase' \in Read => Len(authentications) = Len(f.auths)
    <3>1. CASE AuthenticationsProcessed
      <4>1. Len(authentications) + 1 \notin DOMAIN f.auths
        BY <2>1, <3>1 DEF AuthenticationsProcessed, NextAuth, StartupInv
      <4> QED
        BY <2>1, <2>2, <4>1 DEF AuthsInv
    <3>2. CASE CommandLine
      BY <3>2 DEF CommandLine, Read
    <3>3. CASE ServersProcessed \/ ConfigIterServerBegin
      BY <2>1, <3>3 DEF ServersProcessed, ConfigIterServerBegin, AuthsInv, Read
    <3> QED
      BY <3>1, <3>2, <3>3
  <2>4. phase' \in Read \ {"servers"} => Len(servers) = Len(f.servers)
    <3>1. CASE ServersProcessed
      <4>1. Len(servers) + 1 \notin DOMAIN f.servers
        BY <2>1, <3>1 DEF ServersProcessed, NextServer, StartupInv
      <4>2. Len(servers) <= Len(f.servers)
        BY <2>1 DEF ServersInv, EntriesOf
      <4> QED
        BY <2>2, <4>1, <4>2
    <3>2. CASE CommandLine \/ AuthenticationsProcessed
      BY <3>2 DEF CommandLine, AuthenticationsProcessed, Read
    <3>3. CASE ConfigIterServerBegin
      BY <2>1, <3>3 DEF ConfigIterServerBegin, ServersInv, Read
    <3> QED
      BY <3>1, <3>2, <3>3
  <2>5. AuthsInv(f)'
    BY <1>1, <2>1, <2>3 DEF AuthsInv
  <2>6. ServersInv(f)'
    <3>1. EntriesOf(f, servers) /\ EntriesOf(f, iter) /\ Len(iter) <= Len(servers)
      BY <2>1 DEF ServersInv
    <3>2. EntriesOf(f, iter') /\ Len(iter') <= Len(servers)
      BY <1>2, <1>3, <2>2, <3>1
    <3> QED
      BY <1>1, <2>4, <3>1, <3>2 DEF ServersInv
  <2>7. phase' \in Serving => Len(iter') = Len(servers)
    BY <1>3 DEF Serving
  <2>8. CallbacksInv(f)' /\ SslInv(f)'
    BY <1>1, <1>2, <2>2, <2>7 DEF CallbacksInv, SslInv
  <2> QED
    BY <2>5, <2>6, <2>8
<1>6. file = {} => authentications = << >> /\ servers = << >>
  BY DEF StartupInv
<1> QED
  BY <1>1, <1>2, <1>3, <1>4, <1>5, <1>6 DEF StartupInv, Phase, Ended, Serving

\* The loop over the servers is over.
LEMMA StartupInvDispatches ==
  ASSUME StartupInv, EventBaseDispatch
  PROVE  StartupInv'
<1>1. /\ UNCHANGED << file, authentications, servers, iter, ssl, callbacks >>
      /\ phase = "create" /\ phase' = "running" /\ iter = << >>
  BY DEF EventBaseDispatch, lists
<1>2. ASSUME NEW f \in file
      PROVE  AuthsInv(f)' /\ ServersInv(f)' /\ CallbacksInv(f)' /\ SslInv(f)'
  <2>1. AuthsInv(f) /\ ServersInv(f) /\ CallbacksInv(f) /\ SslInv(f)
    BY DEF StartupInv
  <2>2. AuthsInv(f)'
    BY <1>1, <2>1 DEF AuthsInv, Read
  <2>3. ServersInv(f)'
    BY <1>1, <2>1 DEF ServersInv, Read
  <2>4. CallbacksInv(f)' /\ SslInv(f)'
    BY <1>1, <2>1 DEF CallbacksInv, SslInv, Serving
  <2> QED
    BY <2>2, <2>3, <2>4
<1> QED
  BY <1>1, <1>2 DEF StartupInv, Phase, Ended, Serving

\* An entry of the file is read.
LEMMA StartupInvReads ==
  ASSUME StartupInv, ProcessAuthentication \/ ProcessServer
  PROVE  StartupInv'
<1>1. /\ UNCHANGED << file, phase, iter, ssl, callbacks >>
      /\ phase \in {"authentication", "servers"}
      /\ iter = << >> /\ callbacks = << >> /\ ssl = NoSsl
  BY DEF ProcessAuthentication, ProcessServer, StartupInv, Phase, Ended
<1>2. PICK f \in File : file = {f}
  BY DEF ProcessAuthentication, ProcessServer, StartupInv
<1>3. AuthsInv(f) /\ ServersInv(f) /\ CallbacksInv(f)
  BY <1>2 DEF StartupInv
<1>4. /\ Len(f.auths) \in Nat /\ DOMAIN f.auths = 1..Len(f.auths)
      /\ Len(f.servers) \in Nat
      /\ authentications \in Seq(DOMAIN f.auths)
      /\ Len(authentications) \in Nat /\ Len(servers) \in Nat
  BY <1>3, Lengths, LenProperties DEF AuthsInv, ServersInv, EntriesOf
<1>5. CallbacksInv(f)' /\ SslInv(f)'
  BY <1>1 DEF CallbacksInv, SslInv, Serving
<1>6. CASE ProcessAuthentication
  <2>1. /\ phase = "authentication" /\ servers' = servers
        /\ NextAuth \in DOMAIN f.auths /\ authentications' = << NextAuth >> \o authentications
    BY <1>2, <1>6 DEF ProcessAuthentication
  <2> DEFINE n == Len(authentications) + 1
  <2>2. /\ authentications' \in Seq(DOMAIN f.auths) /\ Len(authentications') = n
        /\ authentications'[1] = n
        /\ \A k \in 2..n : authentications'[k] = authentications[k - 1]
    BY <1>4, <2>1, Prepended DEF NextAuth
  <2>3. n \in 1..Len(f.auths)
    BY <1>4, <2>1 DEF NextAuth
  <2>4. ASSUME NEW k \in 1..n
        PROVE  authentications'[k] = n + 1 - k
    <3>1. CASE k = 1
      BY <1>4, <2>2, <3>1
    <3>2. CASE k # 1
      <4>1. k \in 2..n /\ k - 1 \in DOMAIN authentications
        BY <1>4, <3>2, LenProperties
      <4>2. authentications[k - 1] = Len(authentications) + 1 - (k - 1)
        BY <1>3, <4>1 DEF AuthsInv
      <4> QED
        BY <1>4, <2>2, <4>1, <4>2
    <3> QED
      BY <3>1, <3>2
  <2>5. DOMAIN authentications' = 1..n
    BY <2>2, LenProperties
  <2>6. AuthsInv(f)'
    BY <1>1, <1>4, <2>1, <2>2, <2>3, <2>4, <2>5 DEF AuthsInv, Read
  <2>7. ServersInv(f)'
    BY <1>1, <1>3, <2>1 DEF ServersInv
  <2> QED
    BY <1>1, <1>2, <1>5, <2>1, <2>6, <2>7 DEF StartupInv, Phase, Ended, Serving
<1>7. CASE ProcessServer
  <2>1. /\ phase = "servers" /\ authentications' = authentications
        /\ NextServer \in DOMAIN f.servers
        /\ servers' = << Configured(f, NextServer) >> \o servers
    BY <1>2, <1>7 DEF ProcessServer
  <2>2. Len(authentications) = Len(f.auths)
    BY <1>3, <2>1 DEF AuthsInv, Read
  <2>3. Configured(f, NextServer) = [entry |-> NextServer, auth |-> Named(f, NextServer)]
    BY <1>3, <2>1, <2>2, NamedIsFound
  <2>4. EntriesOf(f, servers')
    BY <1>3, <2>1, <2>3, EntriesOfPrepended DEF ServersInv, NextServer
  <2>5. ServersInv(f)'
    <3>1. Len(iter) = 0 /\ EntriesOf(f, iter) /\ Len(servers') \in Nat
      BY <1>1, <1>3, <2>4, LenProperties DEF ServersInv, EntriesOf
    <3> QED
      BY <1>1, <2>1, <2>4, <3>1 DEF ServersInv, Read
  <2>6. AuthsInv(f)'
    BY <1>1, <1>3, <2>1 DEF AuthsInv
  <2> QED
    BY <1>1, <1>2, <1>5, <2>1, <2>5, <2>6 DEF StartupInv, Phase, Ended, Serving
<1> QED
  BY <1>6, <1>7

\* A server is created.
LEMMA StartupInvCreates ==
  ASSUME StartupInv, CreateServer
  PROVE  StartupInv'
<1> DEFINE m == Len(iter)
<1>1. /\ UNCHANGED << file, phase, authentications, servers >>
      /\ phase = "create" /\ iter # << >> /\ iter' = Tail(iter)
  BY DEF CreateServer, lists
<1>2. PICK f \in File : file = {f}
  BY <1>1 DEF StartupInv, Serving
<1>3. AuthsInv(f) /\ ServersInv(f) /\ CallbacksInv(f) /\ SslInv(f)
  BY <1>2 DEF StartupInv
<1>4. /\ EntriesOf(f, Tail(iter))
      /\ m \in Nat \ {0} /\ Len(Tail(iter)) = m - 1
      /\ Head(iter).entry = m /\ Head(iter).auth = Named(f, m)
      /\ m \in DOMAIN f.servers
  BY <1>1, <1>3, EntriesOfTail DEF ServersInv
<1>5. /\ Starts(f) /\ Named(f, m) # {} /\ ssl' = SslFor(f.servers[m])
  BY <1>2, <1>4 DEF CreateServer, Entry
<1>6. PICK registered \in CallbacksFor(Named(f, m)) :
        callbacks' = [n \in DOMAIN callbacks \cup {m} |->
                        IF n = m THEN registered ELSE callbacks[n]]
  BY <1>4 DEF CreateServer
<1>7. /\ Len(servers) \in Nat /\ m <= Len(servers)
      /\ DOMAIN callbacks = (m + 1)..Len(servers)
  BY <1>1, <1>3, LenProperties DEF ServersInv, EntriesOf, CallbacksInv, Serving
<1>8. /\ DOMAIN callbacks' = DOMAIN callbacks \cup {m} /\ callbacks'[m] = registered
      /\ \A n \in DOMAIN callbacks : n # m /\ n > m /\ callbacks'[n] = callbacks[n]
  <2>1. \A n \in DOMAIN callbacks : n # m /\ n > m
    BY <1>4, <1>7
  <2> QED
    BY <1>6, <2>1
<1> HIDE DEF m
<1>9. AuthsInv(f)'
  BY <1>1, <1>3 DEF AuthsInv
<1>10. ServersInv(f)'
  <2>1. Len(iter') <= Len(servers)
    BY <1>1, <1>4, <1>7
  <2> QED
    BY <1>1, <1>3, <1>4, <2>1 DEF ServersInv, Read
<1>11. CallbacksInv(f)'
  <2>1. /\ registered \in [Path -> [checks : {TRUE}, auth : {Named(f, m), {}}]]
        /\ ~ Faults => \A p \in Path : registered[p].auth = Named(f, m)
    BY <1>5, <1>6, CallbacksForProperties
  <2>2. /\ registered \in [Path -> Callback(f)]
        /\ \A p \in Path : /\ registered[p].checks
                           /\ registered[p].auth \in {Named(f, m), {}}
    <3>1. Named(f, m) \subseteq DOMAIN f.auths
      BY DEF Named
    <3>2. [checks : {TRUE}, auth : {Named(f, m), {}}] \subseteq Callback(f)
      BY <3>1 DEF Callback
    <3>3. \A p \in Path : registered[p] \in [checks : {TRUE}, auth : {Named(f, m), {}}]
      BY <2>1
    <3> QED
      BY <2>1, <3>2, <3>3
  <2>3. \A p \in Path : registered[p].auth = Named(f, m) \/ (Faults /\ registered[p].auth = {})
    BY <2>1, <2>2, StartupAssumption DEF StartupAssumption
  <2>4. DOMAIN callbacks' \subseteq DOMAIN f.servers
    BY <1>3, <1>4, <1>8 DEF CallbacksInv
  <2>5. ASSUME NEW n \in DOMAIN callbacks'
        PROVE  /\ callbacks'[n] \in [Path -> Callback(f)]
               /\ \A p \in Path :
                    /\ callbacks'[n][p].checks
                    /\ \/ callbacks'[n][p].auth = Named(f, n)
                       \/ Faults /\ callbacks'[n][p].auth = {}
    <3>1. CASE n = m
      BY <1>8, <2>2, <2>3, <3>1
    <3>2. CASE n \in DOMAIN callbacks
      BY <1>3, <1>8, <3>2 DEF CallbacksInv
    <3> QED
      BY <1>8, <3>1, <3>2
  <2>6. DOMAIN callbacks' = (Len(iter') + 1)..Len(servers)
    BY <1>1, <1>4, <1>7, <1>8
  <2> QED
    BY <1>1, <2>4, <2>5, <2>6 DEF CallbacksInv
<1>12. /\ ~ Secured(f.servers[m]) => ssl' = ssl
       /\ Secured(f.servers[m]) /\ ssl # NoSsl => ssl' = ssl
       /\ Secured(f.servers[m]) /\ ssl = NoSsl =>
            f.servers[m].cert \in Pem /\ ssl' = Loaded(f.servers[m].cert)
  <2>1. Secured(f.servers[m]) => Loads(ssl, f.servers[m])
    BY <1>4, <1>5 DEF Starts, Entry
  <2>2. ssl \in { Loaded(pem) : pem \in Pem } \cup {NoSsl}
    BY DEF StartupInv
  <2> QED
    BY <1>5, <2>1, <2>2, SslForProperties
<1>13. ssl' \in { Loaded(pem) : pem \in Pem } \cup {NoSsl}
  BY <1>12 DEF StartupInv
<1>14. SslInv(f)'
  <2>1. \A n \in DOMAIN callbacks : Secured(f.servers[n]) => ssl # NoSsl
    BY <1>1, <1>3 DEF SslInv, Serving
  <2>2. \A pem : Loaded(pem) # NoSsl
    BY DEF Loaded, NoSsl
  <2>3. ssl # NoSsl \/ Secured(f.servers[m]) => ssl' # NoSsl
    BY <1>12, <2>2
  <2> QED
    BY <1>8, <2>1, <2>3 DEF SslInv
<1> QED
  BY <1>1, <1>2, <1>9, <1>10, <1>11, <1>13, <1>14 DEF StartupInv, Phase, Ended, Serving

\* A failure, or an entry without authentication, ends the process.
LEMMA StartupInvFails ==
  ASSUME StartupInv,
         \/ CommandLineEnds \/ ProcessAuthenticationFails \/ ProcessServerFails
         \/ BeginFails \/ CreateServerFails \/ CreateServerCrashes
  PROVE  StartupInv'
<1>1. phase' \in {"exited", "crashed"} /\ UNCHANGED << file, lists, iter, callbacks >>
  BY DEF CommandLineEnds, ProcessAuthenticationFails, ProcessServerFails, BeginFails,
         CreateServerFails, CreateServerCrashes
<1>2. ssl \in { Loaded(pem) : pem \in Pem } \cup {NoSsl}
  BY DEF StartupInv
<1>3. ssl' \in { Loaded(pem) : pem \in Pem } \cup {NoSsl}
  <2>1. CASE CreateServerCrashes
    <3>1. PICK f \in file : Starts(f) /\ ssl' = SslFor(Entry(f))
      BY <2>1 DEF CreateServerCrashes
    <3>2. Secured(Entry(f)) => Loads(ssl, Entry(f))
      BY <3>1 DEF Starts
    <3> QED
      BY <1>2, <3>1, <3>2, SslForProperties
  <2>2. CASE ~ CreateServerCrashes
    BY <1>2, <2>2 DEF CommandLineEnds, ProcessAuthenticationFails, ProcessServerFails,
                      BeginFails, CreateServerFails
  <2> QED
    BY <2>1, <2>2
<1> QED
  BY <1>1, <1>3, StartupInvEnds

LEMMA StartupInvKept ==
  ASSUME StartupInv, UNCHANGED startupVars
  PROVE  StartupInv'
  BY DEF startupVars, StartupInv, AuthsInv, ServersInv, CallbacksInv, SslInv

LEMMA StartupInvNext ==
  ASSUME StartupInv, [StartupNext]_startupVars
  PROVE  StartupInv'
  BY StartupInvAdvances, StartupInvDispatches, StartupInvReads, StartupInvCreates,
     StartupInvFails, StartupInvKept DEF StartupNext

-----------------------------------------------------------------------------
(***************************************************************************)
(* What the invariant implies.                                             *)
(***************************************************************************)
LEMMA StartupInvType == StartupInv => StartupTypeOK
<1> SUFFICES ASSUME StartupInv PROVE StartupTypeOK
  OBVIOUS
<1>1. ssl \in [initialised : BOOLEAN, keypair_loaded : 0..2,
               cert : Pem \cup {None}, key : Pem \cup {None}]
  <2>1. CASE ssl = NoSsl
    BY <2>1 DEF NoSsl
  <2>2. ASSUME NEW pem \in Pem, ssl = Loaded(pem)
        PROVE  ssl \in [initialised : BOOLEAN, keypair_loaded : 0..2,
                        cert : Pem \cup {None}, key : Pem \cup {None}]
    BY <2>2 DEF Loaded
  <2> QED
    BY <2>1, <2>2 DEF StartupInv
<1>2. ASSUME NEW f \in file
      PROVE  /\ authentications \in Seq(DOMAIN f.auths)
             /\ servers \in Seq(Entries(f)) /\ iter \in Seq(Entries(f))
             /\ DOMAIN callbacks \subseteq DOMAIN f.servers
             /\ \A n \in DOMAIN callbacks : callbacks[n] \in [Path -> Callback(f)]
  BY DEF StartupInv, AuthsInv, ServersInv, EntriesOf, CallbacksInv
<1> QED
  BY <1>1, <1>2 DEF StartupTypeOK, StartupInv, Phase, Entries

LEMMA StartupInvServes == StartupInv => ServesAsConfigured
<1> SUFFICES ASSUME StartupInv, phase = "running"
             PROVE  \E f \in file :
                      /\ DOMAIN callbacks = DOMAIN f.servers
                      /\ \A n \in DOMAIN callbacks : \A p \in Path :
                           /\ callbacks[n][p].checks
                           /\ \/ callbacks[n][p].auth = Named(f, n)
                              \/ Faults /\ callbacks[n][p].auth = {}
  BY DEF ServesAsConfigured
<1>1. PICK f \in File : file = {f}
  BY DEF StartupInv, Serving
<1>2. ServersInv(f) /\ CallbacksInv(f) /\ iter = << >>
  BY <1>1 DEF StartupInv
<1>3. Len(servers) = Len(f.servers) /\ DOMAIN callbacks = (Len(iter) + 1)..Len(servers)
  BY <1>2 DEF ServersInv, CallbacksInv, Read, Serving
<1>4. DOMAIN callbacks = DOMAIN f.servers
  BY <1>2, <1>3, Lengths
<1> QED
  BY <1>1, <1>2, <1>4 DEF CallbacksInv

LEMMA StartupInvContext == StartupInv => ContextReady
<1> SUFFICES ASSUME StartupInv PROVE ContextReady
  OBVIOUS
<1>1. /\ ssl.keypair_loaded \in {0, 2}
      /\ ssl # NoSsl => ssl.initialised /\ ssl.keypair_loaded = 2 /\ ssl.key = ssl.cert
  BY DEF StartupInv, Loaded, NoSsl
<1>2. ASSUME phase = "running", NEW n \in DOMAIN callbacks
      PROVE  \A f \in file : Secured(f.servers[n]) =>
               ssl.initialised /\ ssl.keypair_loaded = 2 /\ ssl.key = ssl.cert
  <2>1. PICK f \in File : file = {f}
    BY <1>2 DEF StartupInv, Serving
  <2>2. SslInv(f)
    BY <2>1 DEF StartupInv
  <2> QED
    BY <1>1, <1>2, <2>1, <2>2 DEF SslInv, Serving
<1> QED
  BY <1>1, <1>2 DEF ContextReady
=============================================================================
